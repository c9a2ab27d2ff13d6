----------------------------- MODULE HashTable -----------------------------
(***************************************************************************)
(* The hash table of src/src/lib/store/hash_table.c: open addressing with  *)
(* linear probing, without a lock and without tombstones.  One thread, the *)
(* writer, inserts, deletes and looks up (main(), which installs signal    *)
(* handlers); others look up at the same time (mgr_thread).  A step is one *)
(* read or write of a slot.  A HashNode is the value of its slot: its key, *)
(* its value, and whether it is allocated.                                 *)
(***************************************************************************)
EXTENDS Integers, FiniteSets

CONSTANTS
  writer,     \* the thread that changes the table
  Readers,    \* threads that look up
  Keys,       \* int keys
  Values,     \* values
  Items,      \* the pairs <<key, value>> that the application inserts
  Size,       \* hash->size
  UINT,       \* the number of values of an unsigned int
  NULL

Procs == {writer} \cup Readers
Slots == 0 .. Size - 1

Node == [key : Keys, value : Values, live : BOOLEAN]

ASSUME HashTableAssumption ==
  /\ writer \notin Readers
  /\ NULL \notin Values \cup Procs \cup Node
  /\ Keys \subseteq Int
  /\ Items \subseteq Keys \X Values
  /\ Size \in Nat \ {0}
  /\ UINT \in Nat \ {0}

VARIABLES
  hash_array,   \* hash->hash_array[]
  pc,           \* where each thread is
  op, key, value,   \* its operation and arguments
  hash_index,   \* the slot it is at
  answer,       \* what its last operation returned
  disturbed,    \* a deletion overlapped the reader's lookup (history)
  fault         \* the thread that read through a NULL or freed node, or NULL

args == <<op, key, value>>
locals == <<args, hash_index>>
vars == <<hash_array, pc, locals, answer, disturbed, fault>>

----------------------------------------------------------------------------
\* mutant: the remainder of a signed division
SignedSlot(k) == IF k >= 0 THEN k % Size ELSE 0 - ((0 - k) % Size)

\* get_hash_index: the key as an unsigned int
get_hash_index(k) == (k % UINT) % Size

\* mutant: the probe does not wrap around
StayAtEnd(i) == IF i = Size - 1 THEN i ELSE i + 1

\* ++hash_index; hash_index %= hash->size
NextIndex(i) == (i + 1) % Size

\* How many slots a probe for k looks at before slot i
Distance(k, i) ==
  LET home == get_hash_index(k) IN IF i >= home THEN i - home ELSE i - home + Size

Before(k, i) == {j \in Slots : Distance(k, j) < Distance(k, i)}

Empty(i) == hash_array[i] = NULL

Live(i) == hash_array[i] # NULL /\ hash_array[i].live

Holds(i, k) == hash_array[i] # NULL /\ hash_array[i].key = k

\* No other key was probed past slot i.
NoneProbedPast(i) ==
  \A j \in Slots, k \in Keys : Holds(j, k) => i \notin Before(k, j)

\* The application deletes a key only while no other key is stored behind it.
\* (So do the programs: SIGHUP's handler is at its home slot and no other is
\* behind it; the table of segments has one key.)
MayDelete(k) == \A i \in Slots : Holds(i, k) => NoneProbedPast(i)

Goto(p, next) == pc' = [pc EXCEPT ![p] = next]

\* The application calls get_hash_item, insert_hash_item or delete_hash_item.
Call(p, o, k, v) ==
  /\ pc[p] = "idle"
  /\ o = "delete" => MayDelete(k)
  /\ p \in Readers => o = "get"
  /\ IF o = "insert" THEN <<k, v>> \in Items ELSE v = NULL
  /\ Goto(p, "probe")
  /\ op' = [op EXCEPT ![p] = o]
  /\ key' = [key EXCEPT ![p] = k]
  /\ value' = [value EXCEPT ![p] = v]
  /\ hash_index' = [hash_index EXCEPT ![p] = get_hash_index(k)]
  /\ disturbed' = [disturbed EXCEPT ![p] = p # writer /\ pc[writer] = "clear"]
  /\ UNCHANGED <<hash_array, answer, fault>>

\* The operation returns a; its local variables are gone.
Return(p, a) ==
  /\ Goto(p, "idle")
  /\ answer' = [answer EXCEPT ![p] = a]
  /\ op' = [op EXCEPT ![p] = "get"]
  /\ key' = [key EXCEPT ![p] = 0]
  /\ value' = [value EXCEPT ![p] = NULL]
  /\ hash_index' = [hash_index EXCEPT ![p] = 0]

\* mutant: the end of the chain is not looked for
ProbeUntested(p) ==
  /\ pc[p] = "probe"
  /\ Goto(p, "compare")
  /\ UNCHANGED <<hash_array, locals, answer, disturbed, fault>>

\* while(hash_array[hash_index] != NULL): at the end of the chain insert
\* stores, get returns NULL and delete returns false.
Probe(p) ==
  /\ pc[p] = "probe"
  /\ \/ ~Empty(hash_index[p]) /\ Goto(p, "compare") /\ UNCHANGED <<locals, answer>>
     \/ Empty(hash_index[p]) /\ op[p] = "insert" /\ Goto(p, "store") /\ UNCHANGED <<locals, answer>>
     \/ Empty(hash_index[p]) /\ op[p] = "get" /\ Return(p, NULL)
     \/ Empty(hash_index[p]) /\ op[p] = "delete" /\ Return(p, FALSE)
  /\ UNCHANGED <<hash_array, disturbed, fault>>

\* What follows a match
AtMatch == [get |-> "return", insert |-> "store", delete |-> "free"]

\* mutant: insert does not stop at its own key
CompareNoOverwrite(p) ==
  LET i == hash_index[p] IN
  /\ pc[p] = "compare"
  /\ Live(i)
  /\ \/ Holds(i, key[p]) /\ op[p] # "insert" /\ Goto(p, AtMatch[op[p]]) /\ UNCHANGED hash_index
     \/ /\ ~Holds(i, key[p]) \/ op[p] = "insert"
        /\ hash_index' = [hash_index EXCEPT ![p] = NextIndex(i)]
        /\ Goto(p, "probe")
  /\ UNCHANGED <<hash_array, args, answer, disturbed, fault>>

\* if (hash_array[hash_index]->key == key), which reads the slot again
Compare(p) ==
  LET i == hash_index[p] IN
  /\ pc[p] = "compare"
  /\ Live(i)
  /\ \/ Holds(i, key[p]) /\ Goto(p, AtMatch[op[p]]) /\ UNCHANGED hash_index
     \/ /\ ~Holds(i, key[p])
        /\ hash_index' = [hash_index EXCEPT ![p] = NextIndex(i)]
        /\ Goto(p, "probe")
  /\ UNCHANGED <<hash_array, args, answer, disturbed, fault>>

\* return hash_array[hash_index], which reads the slot a third time
ReturnItem(p) ==
  /\ pc[p] = "return"
  /\ Return(p, IF Empty(hash_index[p]) THEN NULL ELSE hash_array[hash_index[p]].value)
  /\ UNCHANGED <<hash_array, disturbed, fault>>

\* The new item takes the slot; a node that it replaces is not freed.
Store(p) ==
  /\ pc[p] = "store"
  /\ hash_array' = [hash_array EXCEPT ![hash_index[p]] =
                      [key |-> key[p], value |-> value[p], live |-> TRUE]]
  /\ Return(p, NULL)
  /\ UNCHANGED <<disturbed, fault>>

\* free(hash_array[hash_index])
FreeItem(p) ==
  /\ pc[p] = "free"
  /\ hash_array' = [hash_array EXCEPT ![hash_index[p]].live = FALSE]
  /\ disturbed' = [r \in Procs |-> r # writer]
  /\ Goto(p, "clear")
  /\ UNCHANGED <<locals, answer, fault>>

\* mutant: the slot where the probe started is cleared
ClearHome(p) ==
  /\ pc[p] = "clear"
  /\ hash_array' = [hash_array EXCEPT ![get_hash_index(key[p])] = NULL]
  /\ Return(p, TRUE)
  /\ UNCHANGED <<disturbed, fault>>

\* hash_array[hash_index] = NULL
Clear(p) ==
  /\ pc[p] = "clear"
  /\ hash_array' = [hash_array EXCEPT ![hash_index[p]] = NULL]
  /\ Return(p, TRUE)
  /\ UNCHANGED <<disturbed, fault>>

\* The comparison reads through NULL or a freed node.
Undefined(p) ==
  LET i == hash_index[p] IN
  /\ pc[p] = "compare"
  /\ ~Live(i)
  /\ fault' = p
  /\ UNCHANGED <<hash_array, pc, locals, answer, disturbed>>

----------------------------------------------------------------------------
\* new_hash
Init ==
  /\ hash_array = [i \in Slots |-> NULL]
  /\ pc = [p \in Procs |-> "idle"]
  /\ op = [p \in Procs |-> "get"]
  /\ key = [p \in Procs |-> 0]
  /\ value = [p \in Procs |-> NULL]
  /\ hash_index = [p \in Procs |-> 0]
  /\ answer = [p \in Procs |-> NULL]
  /\ disturbed = [p \in Procs |-> FALSE]
  /\ fault = NULL

Step(p) ==
  Probe(p) \/ Compare(p) \/ ReturnItem(p) \/ Store(p) \/ FreeItem(p) \/ Clear(p) \/ Undefined(p)

Next ==
  /\ fault = NULL
  /\ \E p \in Procs :
       \/ Step(p)
       \/ \E o \in {"get", "insert", "delete"}, k \in Keys, v \in Values \cup {NULL} :
            Call(p, o, k, v)

Spec == Init /\ [][Next]_vars

\* Every thread that is inside an operation is run.
FairSpec == Spec /\ \A p \in Procs : WF_vars(fault = NULL /\ Step(p))

----------------------------------------------------------------------------
(* Properties                                                               *)

\* The values the variables take; an index is in range whatever the key.
TypeOK ==
  /\ hash_array \in [Slots -> Node \cup {NULL}]
  /\ pc \in [Procs -> {"idle", "probe", "compare", "return", "store", "free", "clear"}]
  /\ op \in [Procs -> {"get", "insert", "delete"}]
  /\ key \in [Procs -> Keys \cup {0}]
  /\ value \in [Procs -> Values \cup {NULL}]
  /\ hash_index \in [Procs -> Slots]
  /\ answer \in [Procs -> Values \cup BOOLEAN \cup {NULL}]
  /\ disturbed \in [Procs -> BOOLEAN]
  /\ fault \in Procs \cup {NULL}

\* Every node can be found: no slot that a probe for its key looks at before
\* its own is empty or holds the same key.
Reachable ==
  \A i \in Slots, k \in Keys :
    Holds(i, k) => \A j \in Before(k, i) : ~Empty(j) /\ ~Holds(j, k)

\* Insertions do not harm a lookup by another thread, although nothing is
\* locked: only a deletion that overlaps it makes it read through a bad pointer.
InsertsAreHarmless == fault # NULL => fault \in Readers /\ disturbed[fault]

\* Where a probe for k ends with a match
Found(k) ==
  {i \in Slots : Holds(i, k) /\ \A j \in Before(k, i) : ~Empty(j) /\ ~Holds(j, k)}

\* The value that a lookup of each key finds
Content ==
  [k \in Keys |-> IF Found(k) = {} THEN NULL
                  ELSE hash_array[CHOOSE i \in Found(k) : TRUE].value]

removing == pc[writer] = "clear"

Map == INSTANCE KeyValueMap WITH
  map <- Content,
  disturbed <- [r \in Readers |-> disturbed[r]]

\* hash_table.h: insert, delete and get are those of a map (KeyValueMap).
ImplementsMap == Map!Spec

\* Every operation ends when the keys leave a slot empty.
OperationEnds == \A p \in Procs : pc[p] # "idle" ~> pc[p] = "idle" \/ fault # NULL
=============================================================================
