---------------------------- MODULE KeyValueMap ----------------------------
(***************************************************************************)
(* What hash_table.h promises of a hash table: a map from keys to values   *)
(* that one thread, the writer, changes and others look things up in.  A   *)
(* lookup is atomic unless a removal overlaps it; then it may answer       *)
(* anything.                                                               *)
(***************************************************************************)
CONSTANTS writer, Readers, Keys, Values, NULL

VARIABLES
  map,         \* the value of each key, or NULL
  removing,    \* a removal is under way
  disturbed,   \* whether a removal overlapped each reader's lookup
  answer       \* what each thread's last operation answered

vars == <<map, removing, disturbed, answer>>

Init ==
  /\ map = [k \in Keys |-> NULL]
  /\ removing = FALSE
  /\ disturbed = [r \in Readers |-> FALSE]
  /\ answer = [p \in {writer} \cup Readers |-> NULL]

Answer(p, a) == answer' = [answer EXCEPT ![p] = a]

Put(k, v) ==
  /\ ~removing
  /\ map' = [map EXCEPT ![k] = v]
  /\ Answer(writer, NULL)
  /\ UNCHANGED <<removing, disturbed>>

StartRemoval ==
  /\ ~removing
  /\ removing' = TRUE
  /\ disturbed' = [r \in Readers |-> TRUE]
  /\ UNCHANGED <<map, answer>>

Remove(k) ==
  /\ removing
  /\ map[k] # NULL
  /\ map' = [map EXCEPT ![k] = NULL]
  /\ removing' = FALSE
  /\ Answer(writer, TRUE)
  /\ UNCHANGED disturbed

\* There is nothing to remove.
RemoveNothing(k) ==
  /\ ~removing
  /\ map[k] = NULL
  /\ Answer(writer, FALSE)
  /\ UNCHANGED <<map, removing, disturbed>>

StartLookup(r) ==
  /\ disturbed' = [disturbed EXCEPT ![r] = removing]
  /\ UNCHANGED <<map, removing, answer>>

Lookup(p, k) ==
  /\ \/ Answer(p, map[k])
     \/ p \in Readers /\ disturbed[p] /\ \E a \in Values \cup {NULL} : Answer(p, a)
  /\ UNCHANGED <<map, removing, disturbed>>

Next ==
  \/ StartRemoval
  \/ \E k \in Keys : Remove(k) \/ RemoveNothing(k) \/ \E v \in Values : Put(k, v)
  \/ \E r \in Readers : StartLookup(r)
  \/ \E p \in {writer} \cup Readers, k \in Keys : Lookup(p, k)

Spec == Init /\ [][Next]_vars
=============================================================================
