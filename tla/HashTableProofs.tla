-------------------------- MODULE HashTableProofs --------------------------
(***************************************************************************)
(* The hash table finds what it stores, and is a map, for every size, every *)
(* set of keys and any number of threads that look up.                     *)
(*                                                                         *)
(* The argument: the slots that the writer has probed hold other keys      *)
(* (Probed), so that a store puts its key where a probe finds it, and a    *)
(* deletion that MayDelete allows opens no hole in the path to another     *)
(* key.  Nothing but a deletion changes the key of a slot, so what a       *)
(* reader has probed stays probed unless a deletion disturbs it.           *)
(***************************************************************************)
EXTENDS HashTable, TLAPS

Passed(p, j) == ~Empty(j) /\ ~Holds(j, key[p])

\* A thread that no deletion disturbed knows what it has seen.
ProbedBy(p) ==
  /\ \A j \in Before(key[p], hash_index[p]) : Passed(p, j)
  /\ pc[p] = "compare" => Live(hash_index[p])
  /\ pc[p] = "store" => Empty(hash_index[p]) \/ Holds(hash_index[p], key[p])
  /\ pc[p] \in {"return", "free", "clear"} => Holds(hash_index[p], key[p])

Probed == \A p \in Procs : pc[p] # "idle" => disturbed[p] \/ ProbedBy(p)

RoleAt(p) ==
  /\ p \in Readers => op[p] = "get"
  /\ pc[p] # "idle" => key[p] \in Keys
  /\ op[p] = "insert" => value[p] \in Values
  /\ pc[p] = "store" => op[p] = "insert"
  /\ pc[p] = "return" => op[p] = "get"
  /\ pc[p] \in {"free", "clear"} => op[p] = "delete"

Roles == \A p \in Procs : RoleAt(p)

\* Only the node that is being deleted is freed; whoever looks up then is
\* disturbed.
FreedOnlyInDelete ==
  /\ \A i \in Slots : ~Empty(i) =>
       Live(i) \/ (pc[writer] = "clear" /\ i = hash_index[writer])
  /\ \A r \in Readers : pc[writer] = "clear" /\ pc[r] # "idle" => disturbed[r]
  /\ ~disturbed[writer]

\* A deletion is of a key that no other key is stored behind.
Careful == op[writer] = "delete" /\ pc[writer] # "idle" => MayDelete(key[writer])

IInv ==
  /\ TypeOK
  /\ Roles
  /\ Reachable
  /\ Probed
  /\ FreedOnlyInDelete
  /\ Careful
  /\ InsertsAreHarmless

----------------------------------------------------------------------------
(* Probe order                                                              *)

\* Every key has a home slot.
LEMMA HomeInSlots == ASSUME NEW k \in Keys PROVE get_hash_index(k) \in Slots
<1>1. k \in Int /\ UINT \in Nat \ {0} /\ Size \in Nat \ {0}
  BY HashTableAssumption
<1>2. k % UINT \in Int
  BY <1>1
<1>3. (k % UINT) % Size \in 0 .. Size - 1
  BY <1>1, <1>2
<1> QED BY <1>3 DEF get_hash_index, Slots

\* The probe stays in the table.
LEMMA NextInSlots ==
  ASSUME NEW i \in Slots
  PROVE  /\ NextIndex(i) \in Slots
         /\ NextIndex(i) = IF i = Size - 1 THEN 0 ELSE i + 1
<1>1. Size \in Nat \ {0} /\ i \in Nat /\ i < Size
  BY HashTableAssumption DEF Slots
<1>2. CASE i = Size - 1
  <2>1. (i + 1) % Size = 0
    BY <1>1, <1>2
  <2> QED BY <1>1, <1>2, <2>1 DEF NextIndex, Slots
<1>3. CASE i # Size - 1
  <2>1. (i + 1) % Size = i + 1
    BY <1>1, <1>3
  <2> QED BY <1>1, <1>3, <2>1 DEF NextIndex, Slots
<1> QED BY <1>2, <1>3

\* No slot comes before a key's home, the slots before the next one are those
\* before this one and this one, and of two slots one comes before the other.
LEMMA ProbeOrder ==
  ASSUME NEW k \in Keys
  PROVE  /\ Before(k, get_hash_index(k)) = {}
         /\ \A i \in Slots : \A j \in Before(k, NextIndex(i)) : j \in Before(k, i) \/ j = i
         /\ \A i, j \in Slots : i # j => i \in Before(k, j) \/ j \in Before(k, i)
         /\ \A i \in Slots : i \notin Before(k, i)
<1> DEFINE home == get_hash_index(k)
<1>1. home \in Slots /\ Size \in Nat \ {0}
  BY HomeInSlots, HashTableAssumption
<1>2. \A i \in Slots : Distance(k, i) = IF i >= home THEN i - home ELSE i - home + Size
  BY DEF Distance
<1>3. \A i \in Slots : NextIndex(i) \in Slots /\ NextIndex(i) = IF i = Size - 1 THEN 0 ELSE i + 1
  BY NextInSlots
<1> HIDE DEF home
<1>4. Before(k, home) = {}
  BY <1>1, <1>2 DEF Before, Slots
<1>5. ASSUME NEW i \in Slots, NEW j \in Slots, Distance(k, j) < Distance(k, NextIndex(i))
      PROVE  Distance(k, j) < Distance(k, i) \/ j = i
  BY <1>1, <1>2, <1>3, <1>5 DEF Slots
<1>6. ASSUME NEW i \in Slots, NEW j \in Slots, i # j
      PROVE  Distance(k, i) < Distance(k, j) \/ Distance(k, j) < Distance(k, i)
  BY <1>1, <1>2, <1>6 DEF Slots
<1>7. ASSUME NEW i \in Slots PROVE ~(Distance(k, i) < Distance(k, i))
  BY <1>1, <1>2 DEF Slots
<1> QED BY <1>4, <1>5, <1>6, <1>7 DEF Before, home

----------------------------------------------------------------------------
(* The invariant is inductive                                               *)

\* The initial table is empty.
LEMMA InitIInv == Init => IInv
<1> SUFFICES ASSUME Init PROVE IInv
  OBVIOUS
<1> USE HashTableAssumption DEF Init, Procs
<1>1. 0 \in Slots
  BY DEF Slots
<1>2. TypeOK
  BY <1>1 DEF TypeOK, Node
<1>3. Roles /\ Probed /\ Careful /\ InsertsAreHarmless
  BY DEF Roles, RoleAt, Probed, Careful, InsertsAreHarmless
<1>4. \A i \in Slots : Empty(i)
  BY DEF Empty
<1>5. Reachable /\ FreedOnlyInDelete
  BY <1>4 DEF Reachable, FreedOnlyInDelete, Empty, Holds
<1> QED BY <1>2, <1>3, <1>5 DEF IInv

\* Types are kept.
LEMMA TypeNext == IInv /\ [Next]_vars => TypeOK'
<1> SUFFICES ASSUME IInv, [Next]_vars PROVE TypeOK'
  OBVIOUS
<1> USE DEF IInv
<1>1. CASE UNCHANGED vars
  BY <1>1 DEF vars, locals, args, TypeOK
<1>2. ASSUME NEW p \in Procs, NEW o \in {"get", "insert", "delete"}, NEW k \in Keys,
             NEW v \in Values \cup {NULL}, Call(p, o, k, v)
      PROVE  TypeOK'
  <2>1. get_hash_index(k) \in Slots
    BY HomeInSlots
  <2>2. (p # writer /\ pc[writer] = "clear") \in BOOLEAN
    OBVIOUS
  <2> QED BY <1>2, <2>1, <2>2 DEF Call, Goto, TypeOK
<1>3. 0 \in Slots
  BY HashTableAssumption DEF Slots
<1>4. ASSUME NEW p \in Procs, NEW a \in Values \cup BOOLEAN \cup {NULL}, Return(p, a),
             UNCHANGED <<disturbed, fault>>, hash_array' \in [Slots -> Node \cup {NULL}]
      PROVE  TypeOK'
  BY <1>3, <1>4 DEF Return, Goto, TypeOK
<1>5. ASSUME NEW p \in Procs, Probe(p) PROVE TypeOK'
  <2>1. CASE UNCHANGED <<locals, answer>>
    BY <1>5, <2>1 DEF Probe, Goto, Return, locals, args, TypeOK
  <2>2. CASE Return(p, NULL) \/ Return(p, FALSE)
    BY <1>4, <1>5, <2>2 DEF Probe, TypeOK
  <2> QED BY <1>5, <2>1, <2>2 DEF Probe
<1>6. ASSUME NEW p \in Procs, Compare(p) PROVE TypeOK'
  <2>1. hash_index[p] \in Slots /\ NextIndex(hash_index[p]) \in Slots
    BY NextInSlots DEF TypeOK
  <2>2. AtMatch[op[p]] \in {"return", "store", "free"}
    BY DEF TypeOK, AtMatch
  <2> QED BY <1>6, <2>1, <2>2 DEF Compare, Goto, locals, args, TypeOK
<1>7. ASSUME NEW p \in Procs, ReturnItem(p) PROVE TypeOK'
  <2>1. hash_index[p] \in Slots
    BY DEF TypeOK
  <2>2. (IF Empty(hash_index[p]) THEN NULL ELSE hash_array[hash_index[p]].value)
          \in Values \cup {NULL}
    BY <2>1 DEF Empty, TypeOK, Node
  <2> QED BY <1>4, <1>7, <2>2 DEF ReturnItem, TypeOK
<1>8. ASSUME NEW p \in Procs, Store(p) PROVE TypeOK'
  <2>1. key[p] \in Keys /\ value[p] \in Values
    BY <1>8 DEF Store, Roles, RoleAt
  <2>2. hash_array' \in [Slots -> Node \cup {NULL}]
    BY <1>8, <2>1 DEF Store, Node, TypeOK
  <2> QED BY <1>4, <1>8, <2>2 DEF Store
<1>9. ASSUME NEW p \in Procs, FreeItem(p) PROVE TypeOK'
  <2>0. Holds(hash_index[p], key[p])
    BY <1>9 DEF FreeItem, Roles, RoleAt, Probed, ProbedBy, FreedOnlyInDelete, Procs
  <2>1. hash_array[hash_index[p]] \in Node
    BY <2>0 DEF Holds, TypeOK
  <2>2. hash_array' \in [Slots -> Node \cup {NULL}]
    BY <1>9, <2>1 DEF FreeItem, Node, TypeOK
  <2>3. disturbed' \in [Procs -> BOOLEAN]
    BY <1>9 DEF FreeItem
  <2> QED BY <1>9, <2>2, <2>3 DEF FreeItem, Goto, locals, args, TypeOK
<1>10. ASSUME NEW p \in Procs, Clear(p) PROVE TypeOK'
  <2>1. hash_array' \in [Slots -> Node \cup {NULL}]
    BY <1>10 DEF Clear, TypeOK
  <2> QED BY <1>4, <1>10, <2>1 DEF Clear
<1>11. ASSUME NEW p \in Procs, Undefined(p) PROVE TypeOK'
  BY <1>11 DEF Undefined, locals, args, TypeOK
<1> QED BY <1>1, <1>2, <1>5, <1>6, <1>7, <1>8, <1>9, <1>10, <1>11 DEF Next, Step

\* A thread is where its operation brought it.
LEMMA RolesNext == IInv /\ [Next]_vars => Roles'
<1> SUFFICES ASSUME IInv, [Next]_vars PROVE Roles'
  OBVIOUS
<1> USE DEF IInv, TypeOK, Roles, RoleAt
<1>1. CASE UNCHANGED vars
  BY <1>1 DEF vars, locals, args
<1>2. ASSUME NEW p \in Procs, NEW o \in {"get", "insert", "delete"}, NEW k \in Keys,
             NEW v \in Values \cup {NULL}, Call(p, o, k, v)
      PROVE  Roles'
  <2>1. o = "insert" => v \in Values
    BY <1>2, HashTableAssumption DEF Call
  <2> QED BY <1>2, <2>1 DEF Call, Goto
<1>3. ASSUME NEW p \in Procs, Probe(p) PROVE Roles'
  BY <1>3 DEF Probe, Goto, Return, locals, args
<1>4. ASSUME NEW p \in Procs, Compare(p) PROVE Roles'
  BY <1>4 DEF Compare, Goto, AtMatch, args
<1>5. ASSUME NEW p \in Procs, ReturnItem(p) \/ Store(p) \/ Clear(p) PROVE Roles'
  BY <1>5 DEF ReturnItem, Store, Clear, Goto, Return
<1>6. ASSUME NEW p \in Procs, FreeItem(p) \/ Undefined(p) PROVE Roles'
  BY <1>6 DEF FreeItem, Undefined, Goto, locals, args
<1> QED BY <1>1, <1>2, <1>3, <1>4, <1>5, <1>6 DEF Next, Step

\* What the writer's position says of it, and of a reader at its match.
LEMMA WriterFacts ==
  ASSUME IInv
  PROVE  /\ \A p \in Procs : pc[p] \in {"store", "free", "clear"} => p = writer
         /\ pc[writer] # "idle" => ProbedBy(writer)
         /\ pc[writer] # "idle" => key[writer] \in Keys
         /\ hash_index[writer] \in Slots
BY DEF IInv, TypeOK, Roles, RoleAt, Probed, FreedOnlyInDelete, Procs

\* What a store does to the slots
LEMMA StoreFacts ==
  ASSUME IInv, NEW p \in Procs, Store(p)
  PROVE  /\ p = writer /\ key[p] \in Keys /\ hash_index[p] \in Slots /\ ProbedBy(p)
         /\ pc[p] = "store"
         /\ \A j \in Slots, k \in Keys :
              Holds(j, k)' <=> IF j = hash_index[p] THEN k = key[p] ELSE Holds(j, k)
         /\ \A j \in Slots : Empty(j)' <=> Empty(j) /\ j # hash_index[p]
         /\ \A j \in Slots : Live(j)' <=> Live(j) \/ j = hash_index[p]
<1> DEFINE i == hash_index[p]
           node == [key |-> key[p], value |-> value[p], live |-> TRUE]
<1>1. p = writer /\ key[p] \in Keys /\ i \in Slots /\ ProbedBy(p) /\ pc[p] = "store"
  BY WriterFacts DEF Store
<1>2. value[p] \in Values
  BY <1>1 DEF IInv, Roles, RoleAt
<1>3. hash_array \in [Slots -> Node \cup {NULL}] /\ hash_array' = [hash_array EXCEPT ![i] = node]
  BY DEF Store, IInv, TypeOK
<1>4. node # NULL
  <2>1. node \in Node
    BY <1>1, <1>2 DEF Node
  <2>2. NULL \notin Node
    BY HashTableAssumption
  <2> QED BY <2>1, <2>2
<1>5. node.key = key[p] /\ node.live
  OBVIOUS
<1> HIDE DEF node
<1>6. \A j \in Slots : hash_array'[j] = IF j = i THEN node ELSE hash_array[j]
  BY <1>1, <1>3
<1> QED BY <1>1, <1>4, <1>5, <1>6 DEF Holds, Empty, Live

\* What a deletion does to them
LEMMA ClearFacts ==
  ASSUME IInv, NEW p \in Procs, Clear(p)
  PROVE  /\ p = writer /\ key[p] \in Keys /\ hash_index[p] \in Slots /\ ProbedBy(p)
         /\ pc[p] = "clear" /\ op[p] = "delete"
         /\ \A j \in Slots, k \in Keys : Holds(j, k)' <=> Holds(j, k) /\ j # hash_index[p]
         /\ \A j \in Slots : Empty(j)' <=> Empty(j) \/ j = hash_index[p]
         /\ \A j \in Slots : Live(j)' <=> Live(j) /\ j # hash_index[p]
<1>1. /\ p = writer /\ key[p] \in Keys /\ hash_index[p] \in Slots /\ ProbedBy(p)
      /\ pc[p] = "clear"
  BY WriterFacts DEF Clear
<1>2. op[p] = "delete"
  BY <1>1 DEF IInv, Roles, RoleAt
<1>3. \A j \in Slots : hash_array'[j] = IF j = hash_index[p] THEN NULL ELSE hash_array[j]
  BY <1>1 DEF Clear, IInv, TypeOK
<1> QED BY <1>1, <1>2, <1>3 DEF Holds, Empty, Live

\* Freeing changes no slot's key.
LEMMA FreeFacts ==
  ASSUME IInv, NEW p \in Procs, FreeItem(p)
  PROVE  /\ p = writer /\ hash_index[p] \in Slots /\ ProbedBy(p) /\ pc[p] = "free"
         /\ \A j \in Slots, k \in Keys : Holds(j, k)' <=> Holds(j, k)
         /\ \A j \in Slots : Empty(j)' <=> Empty(j)
         /\ \A j \in Slots : Live(j)' <=> Live(j) /\ j # hash_index[p]
<1> DEFINE i == hash_index[p]
           node == [hash_array[i] EXCEPT !.live = FALSE]
<1>1. p = writer /\ key[p] \in Keys /\ i \in Slots /\ ProbedBy(p) /\ pc[p] = "free"
  BY WriterFacts DEF FreeItem
<1>2. hash_array \in [Slots -> Node \cup {NULL}] /\ hash_array' = [hash_array EXCEPT ![i] = node]
  BY DEF FreeItem, IInv, TypeOK
<1>3. hash_array[i] \in Node
  BY <1>1, <1>2 DEF ProbedBy, Holds
<1>4. node \in Node /\ node.key = hash_array[i].key /\ ~node.live
  BY <1>3 DEF Node
<1>5. node # NULL /\ hash_array[i] # NULL
  BY <1>3, <1>4, HashTableAssumption
<1> HIDE DEF node
<1>6. \A j \in Slots : hash_array'[j] = IF j = i THEN node ELSE hash_array[j]
  BY <1>1, <1>2
<1> QED BY <1>1, <1>4, <1>5, <1>6 DEF Holds, Empty, Live

\* Nothing else writes to the table.
LEMMA OnlyWrites ==
  ASSUME [Next]_vars
  PROVE  \/ hash_array' = hash_array
         \/ \E p \in Procs : Store(p) \/ FreeItem(p) \/ Clear(p)
<1>1. \A p \in Procs : Probe(p) \/ Compare(p) \/ ReturnItem(p) \/ Undefined(p)
                        => hash_array' = hash_array
  BY DEF Probe, Compare, ReturnItem, Undefined
<1>2. \A p \in Procs, o \in {"get", "insert", "delete"}, k \in Keys, v \in Values \cup {NULL} :
        Call(p, o, k, v) => hash_array' = hash_array
  BY DEF Call
<1> QED BY <1>1, <1>2 DEF Next, Step, vars

\* A store puts a key where a probe for it ends, and a deletion opens no hole.
LEMMA ReachableNext == IInv /\ [Next]_vars => Reachable'
<1> SUFFICES ASSUME IInv, [Next]_vars PROVE Reachable'
  OBVIOUS
<1>1. ASSUME hash_array' = hash_array PROVE Reachable'
  BY <1>1 DEF IInv, Reachable, Empty, Holds
<1> SUFFICES ASSUME NEW p \in Procs, Store(p) \/ FreeItem(p) \/ Clear(p),
                    NEW i \in Slots, NEW k \in Keys, Holds(i, k)', NEW j \in Before(k, i)
             PROVE  ~Empty(j)' /\ ~Holds(j, k)'
  BY <1>1, OnlyWrites DEF Reachable, Before, Distance, get_hash_index
<1>2. j \in Slots /\ j # i
  BY ProbeOrder DEF Before
<1>3. CASE Store(p)
  <2>1. CASE i = hash_index[p]
    BY <1>2, <1>3, <2>1, StoreFacts DEF ProbedBy, Passed
  <2>2. CASE i # hash_index[p]
    BY <1>2, <1>3, <2>2, StoreFacts DEF IInv, Reachable, ProbedBy
  <2> QED BY <2>1, <2>2
<1>4. CASE FreeItem(p)
  BY <1>2, <1>4, FreeFacts DEF IInv, Reachable
<1>5. CASE Clear(p)
  <2>1. Holds(hash_index[p], key[p]) /\ MayDelete(key[p])
    BY <1>5, ClearFacts DEF ProbedBy, IInv, Careful
  <2>2. NoneProbedPast(hash_index[p])
    BY <1>5, <2>1, ClearFacts DEF MayDelete
  <2>3. j # hash_index[p]
    BY <1>5, <2>2, ClearFacts DEF NoneProbedPast
  <2> QED BY <1>2, <1>5, <2>3, ClearFacts DEF IInv, Reachable
<1> QED BY <1>3, <1>4, <1>5

\* What a thread has probed stays probed, unless a deletion disturbs it.
LEMMA ProbedNext == IInv /\ [Next]_vars => Probed'
<1> SUFFICES ASSUME IInv, [Next]_vars, NEW q \in Procs, pc'[q] # "idle", ~disturbed'[q]
             PROVE  ProbedBy(q)'
  BY DEF Probed
<1> USE DEF Passed
<1>1. ASSUME NEW p \in Procs, p # q, Store(p) PROVE ProbedBy(q)'
  <2>1. UNCHANGED <<key[q], hash_index[q], pc[q], disturbed[q]>>
    BY <1>1 DEF Store, Return, Goto, IInv, TypeOK
  <2>2. ProbedBy(q) /\ key[q] \in Keys /\ hash_index[q] \in Slots
    BY <2>1 DEF IInv, Probed, Roles, RoleAt, TypeOK
  <2>3. pc[q] \notin {"store", "free", "clear"}
    BY <1>1, WriterFacts, StoreFacts
  <2>4. ~Empty(hash_index[p]) => Holds(hash_index[p], key[p])
    BY <1>1, StoreFacts DEF ProbedBy
  <2>5. \A j \in Slots : /\ Passed(q, j) => ~Empty(j)' /\ ~Holds(j, key[q])'
                         /\ Live(j) => Live(j)'
                         /\ Holds(j, key[q]) => Holds(j, key[q])'
    BY <1>1, <2>1, <2>2, <2>4, StoreFacts DEF Holds, Empty
  <2>6. \A j \in Before(key[q], hash_index[q]) : j \in Slots
    BY DEF Before
  <2> QED BY <2>1, <2>2, <2>3, <2>5, <2>6 DEF ProbedBy, Holds, Empty, Live, Before
<1>2. ASSUME NEW p \in Procs, p # q, FreeItem(p) \/ Clear(p) PROVE FALSE
  <2>1. p = writer /\ q \in Readers
    BY <1>2, FreeFacts, ClearFacts DEF Procs
  <2>2. CASE FreeItem(p)
    BY <2>1, <2>2, HashTableAssumption DEF FreeItem
  <2>3. CASE Clear(p)
    <3>1. pc[writer] = "clear" /\ pc'[q] = pc[q] /\ UNCHANGED disturbed
      BY <1>2, <2>1, <2>3 DEF Clear, Return, Goto, IInv, TypeOK
    <3> QED BY <2>1, <3>1 DEF IInv, FreedOnlyInDelete
  <2> QED BY <1>2, <2>2, <2>3
<1>3. ASSUME UNCHANGED <<hash_array, key[q], hash_index[q], pc[q], disturbed[q]>>
      PROVE  ProbedBy(q)'
  <2>1. ProbedBy(q)
    BY <1>3 DEF IInv, Probed
  <2> QED BY <1>3, <2>1 DEF ProbedBy, Empty, Holds, Live, Before, Distance
<1>4. ASSUME NEW o \in {"get", "insert", "delete"}, NEW k \in Keys,
             NEW v \in Values \cup {NULL}, Call(q, o, k, v)
      PROVE  ProbedBy(q)'
  <2>1. pc'[q] = "probe" /\ key'[q] = k /\ hash_index'[q] = get_hash_index(k)
    BY <1>4 DEF Call, Goto, IInv, TypeOK
  <2>2. Before(key'[q], hash_index'[q]) = {}
    BY <2>1, ProbeOrder
  <2> QED BY <2>1, <2>2 DEF ProbedBy
<1>5. ASSUME Probe(q) PROVE ProbedBy(q)'
  <2>1. UNCHANGED <<hash_array, locals>> /\ pc[q] = "probe" /\ UNCHANGED disturbed
    BY <1>5 DEF Probe, Return, Goto, IInv, TypeOK
  <2>2. ProbedBy(q) /\ hash_index[q] \in Slots
    BY <2>1 DEF IInv, Probed, TypeOK
  <2>3. \/ pc'[q] = "compare" /\ ~Empty(hash_index[q])
        \/ pc'[q] = "store" /\ Empty(hash_index[q])
    BY <1>5 DEF Probe, Return, Goto, IInv, TypeOK
  <2>4. ~Empty(hash_index[q]) => Live(hash_index[q])
    BY <2>1, <2>2 DEF IInv, FreedOnlyInDelete, Procs
  <2> QED BY <2>1, <2>2, <2>3, <2>4 DEF ProbedBy, Empty, Holds, Live, Before, Distance, locals, args
<1>6. ASSUME Compare(q) PROVE ProbedBy(q)'
  <2>1. UNCHANGED <<hash_array, args, disturbed>> /\ pc[q] = "compare"
    BY <1>6 DEF Compare
  <2>2. ProbedBy(q) /\ hash_index[q] \in Slots /\ key[q] \in Keys
    BY <2>1 DEF IInv, Probed, TypeOK, Roles, RoleAt
  <2>3. CASE Holds(hash_index[q], key[q])
    <3>1. pc'[q] # "compare" /\ hash_index' = hash_index
      BY <1>6, <2>3 DEF Compare, Goto, IInv, TypeOK, AtMatch
    <3> QED BY <2>1, <2>2, <2>3, <3>1 DEF ProbedBy, Empty, Holds, Before, Distance, args
  <2>4. CASE ~Holds(hash_index[q], key[q])
    <3>1. pc'[q] = "probe" /\ hash_index'[q] = NextIndex(hash_index[q])
      BY <1>6, <2>4 DEF Compare, Goto, IInv, TypeOK
    <3>2. Passed(q, hash_index[q])
      BY <1>6, <2>4 DEF Compare, Live, Empty
    <3>3. \A j \in Before(key[q], NextIndex(hash_index[q])) : Passed(q, j)
      BY <2>2, <3>2, ProbeOrder DEF ProbedBy
    <3> QED BY <2>1, <3>1, <3>3 DEF ProbedBy, Empty, Holds, args
  <2> QED BY <2>3, <2>4
<1>7. ASSUME ReturnItem(q) \/ Store(q) \/ Clear(q) PROVE FALSE
  BY <1>7 DEF ReturnItem, Store, Clear, Return, Goto, IInv, TypeOK
<1>8. ASSUME FreeItem(q) PROVE ProbedBy(q)'
  <2>1. pc'[q] = "clear" /\ UNCHANGED locals
    BY <1>8 DEF FreeItem, Goto, IInv, TypeOK
  <2>2. ProbedBy(q) /\ key[q] \in Keys /\ hash_index[q] \in Slots /\ pc[q] = "free"
    BY <1>8, FreeFacts, WriterFacts
  <2>3. \A j \in Slots : /\ Passed(q, j) => ~Empty(j)' /\ ~Holds(j, key[q])'
                         /\ Holds(j, key[q]) => Holds(j, key[q])'
    BY <1>8, <2>1, <2>2, FreeFacts DEF locals, args
  <2> QED BY <2>1, <2>2, <2>3 DEF ProbedBy, Empty, Holds, Before, locals, args
<1>9. ASSUME NEW p \in Procs, p # q,
             \/ \E o \in {"get", "insert", "delete"}, k \in Keys, v \in Values \cup {NULL} :
                  Call(p, o, k, v)
             \/ Probe(p) \/ Compare(p) \/ ReturnItem(p)
      PROVE  ProbedBy(q)'
  <2>1. UNCHANGED <<hash_array, key[q], hash_index[q], pc[q], disturbed[q]>>
    BY <1>9 DEF Call, Probe, Compare, ReturnItem, Return, Goto, locals, args, IInv, TypeOK
  <2> QED BY <1>3, <2>1
<1>10. ASSUME UNCHANGED vars \/ \E p \in Procs : Undefined(p) PROVE ProbedBy(q)'
  BY <1>3, <1>10 DEF vars, Undefined, locals, args
<1> QED
  BY <1>1, <1>2, <1>4, <1>5, <1>6, <1>7, <1>8, <1>9, <1>10 DEF Next, Step

\* Only the node under deletion is freed.
LEMMA FreedNext == IInv /\ [Next]_vars => FreedOnlyInDelete'
<1> SUFFICES ASSUME IInv, [Next]_vars PROVE FreedOnlyInDelete'
  OBVIOUS
<1>1. CASE UNCHANGED vars
  BY <1>1 DEF vars, locals, args, IInv, FreedOnlyInDelete, Empty, Live
<1>2. ASSUME NEW p \in Procs, Store(p) PROVE FreedOnlyInDelete'
  <2>1. pc'[writer] = "idle" /\ pc[writer] = "store" /\ UNCHANGED disturbed
    BY <1>2, StoreFacts DEF Store, Return, Goto, IInv, TypeOK
  <2> QED BY <1>2, <2>1, StoreFacts DEF IInv, FreedOnlyInDelete
<1>3. ASSUME NEW p \in Procs, FreeItem(p) PROVE FreedOnlyInDelete'
  <2>1. /\ pc'[writer] = "clear" /\ pc[writer] = "free" /\ UNCHANGED hash_index
        /\ disturbed' = [r \in Procs |-> r # writer]
    BY <1>3, FreeFacts DEF FreeItem, Goto, IInv, TypeOK, locals
  <2>2. \A r \in Readers : disturbed'[r]
    BY <2>1, HashTableAssumption DEF Procs
  <2>3. ~disturbed'[writer]
    BY <2>1 DEF Procs
  <2> QED BY <1>3, <2>1, <2>2, <2>3, FreeFacts DEF IInv, FreedOnlyInDelete
<1>4. ASSUME NEW p \in Procs, Clear(p) PROVE FreedOnlyInDelete'
  <2>1. pc'[writer] = "idle" /\ UNCHANGED disturbed
    BY <1>4, ClearFacts DEF Clear, Return, Goto, IInv, TypeOK
  <2> QED BY <1>4, <2>1, ClearFacts DEF IInv, FreedOnlyInDelete
<1>5. ASSUME NEW p \in Procs, NEW o \in {"get", "insert", "delete"}, NEW k \in Keys,
             NEW v \in Values \cup {NULL}, Call(p, o, k, v)
      PROVE  FreedOnlyInDelete'
  <2>1. /\ pc[p] = "idle" /\ pc' = [pc EXCEPT ![p] = "probe"]
        /\ hash_index' = [hash_index EXCEPT ![p] = get_hash_index(k)]
        /\ disturbed' = [disturbed EXCEPT ![p] = p # writer /\ pc[writer] = "clear"]
        /\ hash_array' = hash_array
    BY <1>5 DEF Call, Goto
  <2>2. pc \in [Procs -> {"idle", "probe", "compare", "return", "store", "free", "clear"}]
        /\ disturbed \in [Procs -> BOOLEAN] /\ hash_index \in [Procs -> Slots]
    BY DEF IInv, TypeOK
  <2> QED BY <2>1, <2>2, HashTableAssumption DEF IInv, FreedOnlyInDelete, Empty, Live, Procs
<1>6. ASSUME NEW p \in Procs, Probe(p) \/ Compare(p) \/ ReturnItem(p) PROVE FreedOnlyInDelete'
  <2>1. /\ UNCHANGED <<hash_array, disturbed>>
        /\ pc[p] \notin {"idle", "clear"} /\ pc'[p] # "clear"
        /\ \A q \in Procs : q # p => pc'[q] = pc[q] /\ hash_index'[q] = hash_index[q]
    BY <1>6 DEF Probe, Compare, ReturnItem, Return, Goto, locals, args, IInv, TypeOK, AtMatch,
                Roles, RoleAt
  <2> QED BY <2>1 DEF IInv, FreedOnlyInDelete, Empty, Live, Procs
<1>7. ASSUME NEW p \in Procs, Undefined(p) PROVE FreedOnlyInDelete'
  BY <1>7 DEF Undefined, locals, IInv, FreedOnlyInDelete, Empty, Live
<1> QED BY <1>1, <1>2, <1>3, <1>4, <1>5, <1>6, <1>7 DEF Next, Step

\* MayDelete holds until the deletion is done: nobody else changes the table.
LEMMA CarefulNext == IInv /\ [Next]_vars => Careful'
<1> SUFFICES ASSUME IInv, [Next]_vars, op'[writer] = "delete", pc'[writer] # "idle"
             PROVE  MayDelete(key[writer])'
  BY DEF Careful
<1> USE DEF MayDelete, NoneProbedPast, Before, Distance, get_hash_index
<1>1. writer \in Procs
  BY DEF Procs
<1>2. ASSUME NEW p \in Procs, Store(p) \/ Clear(p) PROVE FALSE
  BY <1>1, <1>2, StoreFacts, ClearFacts DEF Store, Clear, Return, Goto, IInv, TypeOK
<1>3. ASSUME NEW p \in Procs, FreeItem(p) PROVE MayDelete(key[writer])'
  <2>1. MayDelete(key[writer]) /\ key[writer] \in Keys /\ UNCHANGED <<key, op>>
    BY <1>1, <1>3, FreeFacts, WriterFacts DEF FreeItem, IInv, Careful, locals, args
  <2> QED BY <1>3, <2>1, FreeFacts
<1>4. ASSUME hash_array' = hash_array, key'[writer] = key[writer], op'[writer] = op[writer],
             pc[writer] # "idle"
      PROVE  MayDelete(key[writer])'
  BY <1>4 DEF IInv, Careful, Holds
<1>5. ASSUME NEW o \in {"get", "insert", "delete"}, NEW k \in Keys,
             NEW v \in Values \cup {NULL}, Call(writer, o, k, v)
      PROVE  MayDelete(key[writer])'
  <2>1. o = "delete" /\ key'[writer] = k /\ hash_array' = hash_array
    BY <1>1, <1>5 DEF Call, IInv, TypeOK
  <2> QED BY <1>5, <2>1 DEF Call, Holds
<1>6. ASSUME NEW p \in Procs, p # writer,
             \/ \E o \in {"get", "insert", "delete"}, k \in Keys, v \in Values \cup {NULL} :
                  Call(p, o, k, v)
             \/ Probe(p) \/ Compare(p) \/ ReturnItem(p)
      PROVE  MayDelete(key[writer])'
  <2>1. UNCHANGED <<hash_array, key[writer], op[writer], pc[writer]>>
    BY <1>1, <1>6 DEF Call, Probe, Compare, ReturnItem, Return, Goto, locals, args, IInv, TypeOK
  <2> QED BY <1>4, <2>1
<1>7. ASSUME Probe(writer) \/ Compare(writer) \/ ReturnItem(writer) PROVE MayDelete(key[writer])'
  <2>1. UNCHANGED <<hash_array, key[writer], op[writer]>> /\ pc[writer] # "idle"
    BY <1>1, <1>7 DEF Probe, Compare, ReturnItem, Return, Goto, locals, args, IInv, TypeOK
  <2> QED BY <1>4, <2>1
<1>8. ASSUME UNCHANGED vars \/ \E p \in Procs : Undefined(p) PROVE MayDelete(key[writer])'
  BY <1>4, <1>8 DEF vars, Undefined, locals, args
<1> QED BY <1>2, <1>3, <1>5, <1>6, <1>7, <1>8 DEF Next, Step

\* A thread that no deletion disturbed compares with a live node.
LEMMA HarmlessNext == IInv /\ [Next]_vars => InsertsAreHarmless'
<1> SUFFICES ASSUME IInv, [Next]_vars PROVE InsertsAreHarmless'
  OBVIOUS
<1>1. ASSUME NEW p \in Procs, Undefined(p) PROVE InsertsAreHarmless'
  <2>1. disturbed[p] \/ Live(hash_index[p])
    BY <1>1 DEF Undefined, IInv, Probed, ProbedBy
  <2>2. disturbed[p] /\ p \in Readers
    BY <1>1, <2>1 DEF Undefined, IInv, FreedOnlyInDelete, Procs
  <2> QED BY <1>1, <2>2 DEF Undefined, InsertsAreHarmless
<1>2. CASE UNCHANGED <<fault, disturbed>>
  BY <1>2 DEF IInv, InsertsAreHarmless
<1>3. CASE fault' = NULL
  BY <1>3 DEF InsertsAreHarmless
<1>4. ASSUME NEW p \in Procs,
             \/ \E o \in {"get", "insert", "delete"}, k \in Keys, v \in Values \cup {NULL} :
                  Call(p, o, k, v)
             \/ Probe(p) \/ Compare(p) \/ ReturnItem(p) \/ Store(p) \/ FreeItem(p) \/ Clear(p)
      PROVE  fault' = fault
  <2>1. ASSUME NEW o \in {"get", "insert", "delete"}, NEW k \in Keys,
               NEW v \in Values \cup {NULL}, Call(p, o, k, v)
        PROVE  fault' = fault
    BY <2>1 DEF Call
  <2>2. Probe(p) \/ Compare(p) \/ ReturnItem(p) => fault' = fault
    BY DEF Probe, Compare, ReturnItem
  <2>3. Store(p) \/ FreeItem(p) \/ Clear(p) => fault' = fault
    BY DEF Store, FreeItem, Clear
  <2> QED BY <1>4, <2>1, <2>2, <2>3
<1> QED BY <1>1, <1>2, <1>3, <1>4 DEF Next, Step, vars

LEMMA IInvNext == IInv /\ [Next]_vars => IInv'
BY TypeNext, RolesNext, ReachableNext, ProbedNext, FreedNext, CarefulNext, HarmlessNext DEF IInv

\* The invariant holds of every behaviour.
LEMMA IInvAlways == Spec => []IInv
BY InitIInv, IInvNext, PTL DEF Spec

\* The variables keep their types: an index is in range for every int key.
THEOREM HashTypeCorrect == Spec => []TypeOK
BY IInvAlways, PTL DEF IInv

\* Every node can be found by probing for its key.
THEOREM NodesReachable == Spec => []Reachable
BY IInvAlways, PTL DEF IInv

\* Insertions never make an unlocked lookup read through a bad pointer.
THEOREM InsertsHarmless == Spec => []InsertsAreHarmless
BY IInvAlways, PTL DEF IInv

----------------------------------------------------------------------------
(* The table is a map                                                       *)

\* A key has the value of the slot that holds it, or NULL if none does.
ContentIs ==
  \A k \in Keys :
    /\ \A i \in Slots : Holds(i, k) => Content[k] = hash_array[i].value /\ Content[k] \in Values
    /\ (\A i \in Slots : ~Holds(i, k)) => Content[k] = NULL

LEMMA ContentFacts == IInv => ContentIs
<1> SUFFICES ASSUME IInv, NEW k \in Keys
             PROVE  /\ \A i \in Slots : Holds(i, k) =>
                         Content[k] = hash_array[i].value /\ Content[k] \in Values
                    /\ (\A i \in Slots : ~Holds(i, k)) => Content[k] = NULL
  BY DEF ContentIs
<1>1. ASSUME NEW i \in Slots, Holds(i, k)
      PROVE  Content[k] = hash_array[i].value /\ Content[k] \in Values
  <2>1. i \in Found(k)
    BY <1>1 DEF IInv, Reachable, Found
  <2>2. ASSUME NEW j \in Found(k) PROVE j = i
    BY <2>1, <2>2, ProbeOrder DEF Found
  <2>3. Found(k) = {i}
    BY <2>1, <2>2
  <2>4. Content[k] = hash_array[i].value
    BY <2>3 DEF Content
  <2>5. hash_array[i] \in Node
    BY <1>1 DEF Holds, IInv, TypeOK
  <2> QED BY <2>4, <2>5 DEF Node
<1>2. ASSUME \A i \in Slots : ~Holds(i, k) PROVE Content[k] = NULL
  BY <1>2 DEF Found, Content
<1> QED BY <1>1, <1>2

\* At the end of the chain an undisturbed probe knows that its key is absent.
LEMMA AbsentAtEnd ==
  ASSUME IInv, NEW p \in Procs, pc[p] = "probe", ~disturbed[p], Empty(hash_index[p])
  PROVE  Content[key[p]] = NULL
<1>1. ProbedBy(p) /\ key[p] \in Keys /\ hash_index[p] \in Slots
  BY DEF IInv, Probed, Roles, RoleAt, TypeOK
<1>2. ASSUME NEW i \in Slots, Holds(i, key[p]) PROVE FALSE
  <2>1. i # hash_index[p]
    BY <1>2 DEF Empty, Holds
  <2>2. CASE i \in Before(key[p], hash_index[p])
    BY <1>1, <1>2, <2>2 DEF ProbedBy, Passed
  <2>3. CASE hash_index[p] \in Before(key[p], i)
    BY <1>1, <1>2, <2>3 DEF IInv, Reachable
  <2> QED BY <1>1, <2>1, <2>2, <2>3, ProbeOrder
<1> QED BY <1>1, <1>2, ContentFacts DEF ContentIs

\* A step that moves no node with key k and changes no value keeps its value.
LEMMA ContentStep ==
  ASSUME ContentIs, ContentIs', NEW k \in Keys,
         \A j \in Slots : Holds(j, k)' <=> Holds(j, k),
         \A j \in Slots : Holds(j, k) => hash_array'[j].value = hash_array[j].value
  PROVE  Content'[k] = Content[k]
<1>1. CASE \E i \in Slots : Holds(i, k)
  <2>1. PICK i \in Slots : Holds(i, k)
    BY <1>1
  <2>2. Holds(i, k)'
    BY <2>1
  <2> QED BY <2>1, <2>2 DEF ContentIs
<1>2. CASE \A i \in Slots : ~Holds(i, k)
  <2>1. \A i \in Slots : ~Holds(i, k)'
    BY <1>2
  <2> QED BY <1>2, <2>1 DEF ContentIs
<1> QED BY <1>1, <1>2

\* The steps of KeyValueMap, on the values the refinement gives its variables
MapStep == [Map!Next]_<<Content, removing, [r \in Readers |-> disturbed[r]], answer>>

\* Every step of the table is a step of the map.
LEMMA StepOfMap == IInv /\ IInv' /\ ContentIs' /\ [Next]_vars => MapStep
<1> SUFFICES ASSUME IInv, IInv', ContentIs', [Next]_vars PROVE MapStep
  OBVIOUS
<1> DEFINE seen == [r \in Readers |-> disturbed[r]]
<1>a. writer \in Procs /\ Readers \subseteq Procs /\ writer \notin Readers
  BY HashTableAssumption DEF Procs
<1>b. Content = [k \in Keys |-> Content[k]] /\ Content' = [k \in Keys |-> Content'[k]]
  BY DEF Content
<1>c. ASSUME UNCHANGED hash_array PROVE Content' = Content
  BY <1>c DEF Content, Found, Holds, Empty, Before, Distance
<1>d. /\ answer \in [Procs -> Values \cup BOOLEAN \cup {NULL}]
      /\ pc \in [Procs -> {"idle", "probe", "compare", "return", "store", "free", "clear"}]
      /\ disturbed \in [Procs -> BOOLEAN]
      /\ ~disturbed[writer]
  BY <1>a DEF IInv, TypeOK, FreedOnlyInDelete
<1>1. ASSUME NEW p \in Procs, NEW o \in {"get", "insert", "delete"}, NEW k \in Keys,
             NEW v \in Values \cup {NULL}, Call(p, o, k, v)
      PROVE  MapStep
  <2>1. Content' = Content /\ removing' = removing /\ answer' = answer
    BY <1>1, <1>c, <1>d DEF Call, Goto, removing
  <2>2. CASE p = writer
    <3>1. disturbed' = [disturbed EXCEPT ![writer] = FALSE]
      BY <1>1, <2>2 DEF Call
    <3>2. disturbed' = disturbed
      BY <1>a, <1>d, <3>1
    <3> QED BY <2>1, <3>2 DEF MapStep
  <2>3. CASE p # writer
    <3>1. p \in Readers
      BY <2>3 DEF Procs
    <3>2. disturbed' = [disturbed EXCEPT ![p] = removing]
      BY <1>1, <2>3 DEF Call, removing
    <3>3. seen' = [seen EXCEPT ![p] = removing]
      BY <1>a, <3>1, <3>2 DEF IInv, TypeOK
    <3>4. Map!StartLookup(p)
      BY <2>1, <3>3 DEF Map!StartLookup
    <3> QED BY <3>1, <3>4 DEF MapStep, Map!Next
  <2> QED BY <2>2, <2>3
<1>2. ASSUME NEW p \in Procs, NEW a \in Values \cup {NULL}, Return(p, a), op[p] = "get",
             pc[p] # "clear", UNCHANGED <<hash_array, disturbed>>, key[p] \in Keys,
             disturbed[p] \/ a = Content[key[p]]
      PROVE  MapStep
  <2>1. Content' = Content /\ removing' = removing /\ seen' = seen
    BY <1>2, <1>c, <1>d DEF Return, Goto, removing
  <2>2. answer' = [answer EXCEPT ![p] = a]
    BY <1>2 DEF Return
  <2>3. disturbed[p] => p \in Readers /\ seen[p]
    BY DEF IInv, FreedOnlyInDelete, Procs
  <2>4. Map!Lookup(p, key[p])
    BY <1>2, <2>1, <2>2, <2>3 DEF Map!Lookup, Map!Answer
  <2> QED BY <1>2, <2>4 DEF MapStep, Map!Next, Procs
<1>3. ASSUME NEW p \in Procs, Probe(p) PROVE MapStep
  <2>1. CASE Empty(hash_index[p]) /\ op[p] = "get"
    BY <1>2, <1>3, <2>1, AbsentAtEnd DEF Probe, IInv, Roles, RoleAt
  <2>2. CASE Empty(hash_index[p]) /\ op[p] = "delete"
    <3>1. p = writer /\ ~disturbed[p] /\ key[p] \in Keys
      BY <1>3, <2>2 DEF Probe, IInv, Roles, RoleAt, Procs, FreedOnlyInDelete
    <3>2. Content[key[p]] = NULL
      BY <1>3, <2>2, <3>1, AbsentAtEnd DEF Probe
    <3>3. /\ UNCHANGED <<Content, seen>> /\ ~removing /\ ~removing'
          /\ answer' = [answer EXCEPT ![writer] = FALSE]
      BY <1>3, <1>c, <1>d, <2>2, <3>1 DEF Probe, Return, Goto, removing
    <3>4. Map!RemoveNothing(key[p])
      BY <3>2, <3>3 DEF Map!RemoveNothing, Map!Answer, removing
    <3> QED BY <3>1, <3>4 DEF MapStep, Map!Next
  <2>3. CASE ~Empty(hash_index[p]) \/ op[p] = "insert"
    <3>1. UNCHANGED <<hash_array, disturbed, answer>> /\ pc[p] = "probe"
          /\ (pc' = [pc EXCEPT ![p] = "compare"] \/ pc' = [pc EXCEPT ![p] = "store"])
      BY <1>3, <2>3 DEF Probe, Goto
    <3>2. removing' = removing
      BY <1>a, <1>d, <3>1 DEF removing
    <3> QED BY <1>c, <3>1, <3>2 DEF MapStep
  <2> QED BY <2>1, <2>2, <2>3 DEF IInv, TypeOK
<1>4. ASSUME NEW p \in Procs, Compare(p) PROVE MapStep
  <2>1. /\ UNCHANGED <<hash_array, disturbed, answer>> /\ pc[p] = "compare"
        /\ \/ pc' = [pc EXCEPT ![p] = AtMatch[op[p]]]
           \/ pc' = [pc EXCEPT ![p] = "probe"]
    BY <1>4 DEF Compare, Goto
  <2>2. AtMatch[op[p]] # "clear"
    BY DEF IInv, TypeOK, AtMatch
  <2>3. removing' = removing
    BY <1>a, <1>d, <2>1, <2>2 DEF removing
  <2> QED BY <1>c, <2>1, <2>3 DEF MapStep
<1>5. ASSUME NEW p \in Procs, ReturnItem(p) PROVE MapStep
  <2> DEFINE i == hash_index[p]
             a == IF Empty(i) THEN NULL ELSE hash_array[i].value
  <2>1. pc[p] = "return" /\ Return(p, a) /\ UNCHANGED <<hash_array, disturbed>>
    BY <1>5 DEF ReturnItem
  <2>2. op[p] = "get" /\ key[p] \in Keys /\ i \in Slots
    BY <2>1 DEF IInv, Roles, RoleAt, TypeOK
  <2>3. a \in Values \cup {NULL}
    BY <2>2 DEF Empty, IInv, TypeOK, Node
  <2>4. ASSUME ~disturbed[p] PROVE a = Content[key[p]]
    <3>1. Holds(i, key[p])
      BY <2>1, <2>4 DEF IInv, Probed, ProbedBy
    <3>2. a = hash_array[i].value
      BY <3>1 DEF Holds, Empty
    <3> QED BY <2>2, <3>1, <3>2, ContentFacts DEF ContentIs
  <2> QED BY <1>2, <2>1, <2>2, <2>3, <2>4
<1>6. ASSUME NEW p \in Procs, Store(p) PROVE MapStep
  <2>1. p = writer /\ key[p] \in Keys /\ hash_index[p] \in Slots /\ pc[p] = "store"
    BY <1>6, StoreFacts
  <2>2. value[p] \in Values
    BY <2>1 DEF IInv, Roles, RoleAt
  <2>3. hash_array' = [hash_array EXCEPT ![hash_index[p]] =
                         [key |-> key[p], value |-> value[p], live |-> TRUE]]
        /\ hash_array \in [Slots -> Node \cup {NULL}]
    BY <1>6 DEF Store, IInv, TypeOK
  <2>4. ASSUME NEW k \in Keys PROVE Content'[k] = IF k = key[p] THEN value[p] ELSE Content[k]
    <3>1. CASE k = key[p]
      <4>1. PICK i \in Slots : i = hash_index[p]
        BY <2>1
      <4>2. Holds(i, k)'
        BY <1>6, <2>1, <3>1, <4>1, StoreFacts
      <4>3. hash_array'[i].value = value[p]
        BY <2>1, <2>3, <4>1
      <4> QED BY <3>1, <4>2, <4>3 DEF ContentIs
    <3>2. CASE k # key[p]
      <4>1. ASSUME NEW j \in Slots
            PROVE  Holds(j, k)' <=> Holds(j, k) /\ j # hash_index[p]
        BY <1>6, <3>2, StoreFacts
      <4>2. ~Holds(hash_index[p], k)
        BY <2>1, <3>2 DEF IInv, Probed, ProbedBy, FreedOnlyInDelete, Holds, Empty
      <4>3. ASSUME NEW j \in Slots, Holds(j, k)
            PROVE  Holds(j, k)' /\ hash_array'[j].value = hash_array[j].value
        BY <2>1, <2>3, <4>1, <4>2, <4>3
      <4> QED BY <3>2, <4>1, <4>3, ContentStep, ContentFacts
    <3> QED BY <3>1, <3>2
  <2>5. Content' = [Content EXCEPT ![key[p]] = value[p]]
    BY <1>b, <2>4
  <2>6. ~removing /\ ~removing' /\ answer' = [answer EXCEPT ![writer] = NULL] /\ seen' = seen
    BY <1>6, <1>a, <1>d, <2>1 DEF Store, Return, Goto, removing
  <2>7. Map!Put(key[p], value[p])
    BY <2>5, <2>6 DEF Map!Put, Map!Answer, removing
  <2> QED BY <2>1, <2>2, <2>7 DEF MapStep, Map!Next
<1>7. ASSUME NEW p \in Procs, FreeItem(p) PROVE MapStep
  <2>1. p = writer /\ hash_index[p] \in Slots /\ pc[p] = "free" /\ ProbedBy(p)
    BY <1>7, FreeFacts
  <2>2. hash_array' = [hash_array EXCEPT ![hash_index[p]] =
                         [hash_array[hash_index[p]] EXCEPT !.live = FALSE]]
        /\ hash_array \in [Slots -> Node \cup {NULL}]
        /\ hash_array[hash_index[p]] # NULL
    BY <1>7, <2>1 DEF FreeItem, IInv, TypeOK, ProbedBy, Holds
  <2>3. ASSUME NEW j \in Slots PROVE hash_array'[j].value = hash_array[j].value
    BY <2>1, <2>2 DEF Node
  <2>4. ASSUME NEW k \in Keys PROVE Content'[k] = Content[k]
    <3>1. ASSUME NEW j \in Slots PROVE Holds(j, k)' <=> Holds(j, k)
      BY <1>7, FreeFacts
    <3> QED BY <2>3, <3>1, ContentStep, ContentFacts
  <2>5. Content' = Content
    BY <1>b, <2>4
  <2>6. ~removing /\ removing' = TRUE /\ answer' = answer
    BY <1>7, <1>d, <2>1, <1>a DEF FreeItem, Goto, removing
  <2>7. seen' = [r \in Readers |-> TRUE]
    BY <1>7, <1>a DEF FreeItem
  <2>8. Map!StartRemoval
    BY <2>5, <2>6, <2>7 DEF Map!StartRemoval
  <2> QED BY <2>8 DEF MapStep, Map!Next
<1>8. ASSUME NEW p \in Procs, Clear(p) PROVE MapStep
  <2>1. p = writer /\ key[p] \in Keys /\ hash_index[p] \in Slots /\ pc[p] = "clear"
        /\ ProbedBy(p)
    BY <1>8, ClearFacts
  <2>2. hash_array' = [hash_array EXCEPT ![hash_index[p]] = NULL]
        /\ hash_array \in [Slots -> Node \cup {NULL}]
    BY <1>8 DEF Clear, IInv, TypeOK
  <2>3. Holds(hash_index[p], key[p])
    BY <2>1 DEF ProbedBy
  <2>4. ASSUME NEW j \in Slots, Holds(j, key[p]) PROVE j = hash_index[p]
    BY <2>1, <2>3, <2>4, ProbeOrder DEF IInv, Reachable
  <2>5. ASSUME NEW k \in Keys PROVE Content'[k] = IF k = key[p] THEN NULL ELSE Content[k]
    <3>1. CASE k = key[p]
      <4>1. ASSUME NEW j \in Slots PROVE ~Holds(j, k)'
        BY <1>8, <2>4, <3>1, ClearFacts
      <4> QED BY <3>1, <4>1 DEF ContentIs
    <3>2. CASE k # key[p]
      <4>1. ~Holds(hash_index[p], k)
        BY <2>3, <3>2 DEF Holds
      <4>2. ASSUME NEW j \in Slots PROVE Holds(j, k)' <=> Holds(j, k)
        BY <1>8, <4>1, ClearFacts
      <4>3. ASSUME NEW j \in Slots, Holds(j, k)
            PROVE  hash_array'[j].value = hash_array[j].value
        BY <2>2, <4>1, <4>3
      <4> QED BY <3>2, <4>2, <4>3, ContentStep, ContentFacts
    <3> QED BY <3>1, <3>2
  <2>6. Content' = [Content EXCEPT ![key[p]] = NULL]
    BY <1>b, <2>5
  <2>7. Content[key[p]] # NULL
    <3>1. Content[key[p]] \in Values
      BY <2>1, <2>3, ContentFacts DEF ContentIs
    <3>2. NULL \notin Values
      BY HashTableAssumption
    <3> QED BY <3>1, <3>2
  <2>8. removing /\ removing' = FALSE /\ answer' = [answer EXCEPT ![writer] = TRUE]
        /\ seen' = seen
    BY <1>8, <1>a, <1>d, <2>1 DEF Clear, Return, Goto, removing
  <2>9. Map!Remove(key[p])
    BY <2>6, <2>7, <2>8 DEF Map!Remove, Map!Answer
  <2> QED BY <2>1, <2>9 DEF MapStep, Map!Next
<1>9. ASSUME NEW p \in Procs, Undefined(p) PROVE MapStep
  <2>1. UNCHANGED <<hash_array, disturbed, answer, pc>>
    BY <1>9 DEF Undefined
  <2> QED BY <1>c, <2>1 DEF MapStep, removing
<1>10. CASE UNCHANGED vars
  BY <1>c, <1>10 DEF vars, MapStep, removing
<1> QED BY <1>1, <1>3, <1>4, <1>5, <1>6, <1>7, <1>8, <1>9, <1>10 DEF Next, Step

\* hash_table.h's promise: insert, delete and get are those of a map, for every
\* size, all keys and any number of threads that look up.
THEOREM HashImplementsMap == Spec => ImplementsMap
<1>1. Init => Map!Init
  <2> SUFFICES ASSUME Init PROVE Map!Init
    OBVIOUS
  <2>1. \A k \in Keys : Found(k) = {}
    BY DEF Init, Found, Holds
  <2>2. Content = [k \in Keys |-> NULL]
    BY <2>1 DEF Content
  <2>3. removing = FALSE /\ answer = [p \in {writer} \cup Readers |-> NULL]
        /\ [r \in Readers |-> disturbed[r]] = [r \in Readers |-> FALSE]
    BY DEF Init, removing, Procs
  <2> QED BY <2>2, <2>3 DEF Map!Init
<1>2. IInv => ContentIs
  BY ContentFacts
<1>3. IInv /\ IInv' /\ ContentIs' /\ [Next]_vars => MapStep
  BY StepOfMap
<1> QED BY <1>1, <1>2, <1>3, IInvAlways, PTL DEF Spec, ImplementsMap, Map!Spec, Map!vars, MapStep
=============================================================================
