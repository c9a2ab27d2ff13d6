-------------------------- MODULE AttachmentProofs --------------------------
(***************************************************************************)
(* The shared memory library keeps its types, and its list of attachments  *)
(* names the addresses at which the process is attached, whatever the      *)
(* number of processes, addresses, crashes and failures of shmat and       *)
(* semget.  The invariant says, for each place inside a call, what the     *)
(* call has still in its locals and not in the list, and that destroy_shm  *)
(* takes the list apart from its head.                                     *)
(***************************************************************************)
EXTENDS SharedMem, LinkedListProofs

Attached(p) == {a \in Addrs : attached[p][a] # NULL}

\* The address that connect_shm has got from shmat and not yet noted
InHand(p) == IF pc[p] \in {"semget", "semop"} THEN {next[p]} ELSE {}

\* Inside detach_shm or destroy_shm
InDetach(p) == pc[p] \in {"loop", "stat", "semctl", "unlocked", "shmctl"}

\* The list, what connect_shm has in hand and what it forgot, are together what
\* is attached.
TracksAt(p) ==
  /\ Attached(p) = Tracked(p) \cup orphans[p] \cup InHand(p)
  /\ Tracked(p) \cap orphans[p] = {} /\ InHand(p) \cap orphans[p] = {}
  /\ Node(p) # NULL => IsList(Node(p).attachments)

\* What a process's place in its call says of its locals, its node and its list
PlaceAt(p) ==
  /\ pc[p] = "shmat" => shm_id[p] \in Ids /\ MayConnect(p)
  /\ pc[p] \in {"semget", "semop"} => Node(p) = NULL /\ next[p] \in Addrs /\ shm_id[p] \in Ids
  /\ pc[p] = "semop" => lock_id[p] \in Ids
  /\ InDetach(p) \/ pc[p] = "lock" => Node(p) # NULL
  /\ pc[p] = "loop" => op[p] = "destroy"
  /\ InDetach(p) /\ op[p] = "destroy" => next[p] = Node(p).attachments.head
  /\ pc[p] = "shmctl" \/ (InDetach(p) /\ op[p] = "last") => Node(p).attachments.head = NULL

AttachInv ==
  /\ TypeOK /\ DOMAIN SegmentNodes = Procs
  /\ \A p \in Procs : TracksAt(p) /\ PlaceAt(p)

\* What a step of p leaves to the other processes
Frame(p) ==
  \A q \in Procs \ {p} :
    /\ attached'[q] = attached[q] /\ SegmentNodes'[q] = SegmentNodes[q]
    /\ pc'[q] = pc[q] /\ op'[q] = op[q] /\ next'[q] = next[q]
    /\ shm_id'[q] = shm_id[q] /\ lock_id'[q] = lock_id[q] /\ orphans'[q] = orphans[q]

----------------------------------------------------------------------------
LEMMA AttachInit == Init => AttachInv
<1> SUFFICES ASSUME Init PROVE AttachInv
  OBVIOUS
<1>1. TypeOK /\ DOMAIN SegmentNodes = Procs
  BY SharedMemAssumption DEF Init, TypeOK, Node, Pointer
<1>2. ASSUME NEW p \in Procs PROVE TracksAt(p) /\ PlaceAt(p)
  BY <1>2 DEF Init, TracksAt, PlaceAt, Attached, Tracked, InHand, InDetach, Node, MayConnect
<1> QED BY <1>1, <1>2 DEF AttachInv

LEMMA FrameStep ==
  ASSUME AttachInv, NEW p \in Procs, Frame(p), TypeOK', DOMAIN SegmentNodes' = Procs,
         TracksAt(p)', PlaceAt(p)'
  PROVE  AttachInv'
<1>1. ASSUME NEW q \in Procs \ {p} PROVE TracksAt(q)' /\ PlaceAt(q)'
  <2>1. TracksAt(q) /\ PlaceAt(q)
    BY DEF AttachInv
  <2>2. TracksAt(q)'
    BY <2>1 DEF Frame, TracksAt, Attached, Tracked, InHand, Node
  <2>3. PlaceAt(q)'
    BY <2>1 DEF Frame, PlaceAt, InDetach, Node, MayConnect
  <2> QED BY <2>2, <2>3
<1> QED BY <1>1 DEF AttachInv

\* Return is the end of a call: nothing is in hand.
LEMMA ReturnStep ==
  ASSUME AttachInv, NEW p \in Procs, NEW r \in Pointer, Return(p, r)
  PROVE  /\ pc' = [pc EXCEPT ![p] = "idle"] /\ op' = [op EXCEPT ![p] = "none"]
         /\ pc' \in [Procs -> {"idle", "shmat", "semget", "semop", "loop", "stat", "semctl",
                               "unlocked", "shmctl", "lock"}]
         /\ op' \in [Procs -> {"none", "detach", "destroy", "last"}]
         /\ next' \in [Procs -> Pointer] /\ ret' \in [Procs -> Pointer]
         /\ shm_id' \in [Procs -> Ids \cup {NULL}] /\ lock_id' \in [Procs -> Ids \cup {NULL}]
         /\ PlaceAt(p)' /\ InHand(p)' = {}
         /\ \A q \in Procs \ {p} : /\ pc'[q] = pc[q] /\ op'[q] = op[q] /\ next'[q] = next[q]
                                   /\ shm_id'[q] = shm_id[q] /\ lock_id'[q] = lock_id[q]
<1>1. /\ pc \in [Procs -> {"idle", "shmat", "semget", "semop", "loop", "stat", "semctl",
                               "unlocked", "shmctl", "lock"}]
      /\ op \in [Procs -> {"none", "detach", "destroy", "last"}]
      /\ next \in [Procs -> Pointer] /\ ret \in [Procs -> Pointer] /\ NULL \in Pointer
      /\ shm_id \in [Procs -> Ids \cup {NULL}] /\ lock_id \in [Procs -> Ids \cup {NULL}]
  BY DEF AttachInv, TypeOK, Pointer
<1>2. /\ pc' = [pc EXCEPT ![p] = "idle"] /\ op' = [op EXCEPT ![p] = "none"]
      /\ next' = [next EXCEPT ![p] = NULL] /\ ret' = [ret EXCEPT ![p] = r]
      /\ shm_id' = [shm_id EXCEPT ![p] = NULL] /\ lock_id' = [lock_id EXCEPT ![p] = NULL]
  BY DEF Return, Goto
<1>3. pc'[p] = "idle"
  BY <1>1, <1>2
<1>4. PlaceAt(p)' /\ InHand(p)' = {}
  BY <1>3 DEF PlaceAt, InHand, InDetach
<1> QED BY <1>1, <1>2, <1>4

\* A call that ends and did nothing to the segment, the semaphore and the list,
\* with nothing in hand
LEMMA QuietReturn ==
  ASSUME AttachInv, NEW p \in Procs, Return(p, NULL), UNCHANGED <<kernel, SegmentNodes, orphans>>,
         pc[p] \notin {"semget", "semop"},
         holding' \in [Procs -> Ids \cup {NULL}], hash' \in [Procs -> BOOLEAN],
         exits' \in 0 .. MaxExits, failures' \in 0 .. MaxFailures
  PROVE  AttachInv'
<1>1. NULL \in Pointer
  BY DEF Pointer
<1>2. TypeOK' /\ DOMAIN SegmentNodes' = Procs
  BY <1>1, ReturnStep DEF AttachInv, TypeOK, kernel, Node
<1>3. Frame(p)
  BY <1>1, ReturnStep DEF Frame, kernel
<1>4. TracksAt(p)'
  <2>1. TracksAt(p) /\ InHand(p) = {}
    BY DEF AttachInv, InHand
  <2>2. InHand(p)' = {}
    BY <1>1, ReturnStep
  <2> QED BY <2>1, <2>2 DEF TracksAt, Attached, Tracked, Node, kernel
<1> QED BY <1>1, <1>2, <1>3, <1>4, FrameStep, ReturnStep

\* A step inside a call that changes only where the process is, and next
LEMMA QuietGoto ==
  ASSUME AttachInv, NEW p \in Procs, NEW where, Goto(p, where),
         where \in {"loop", "stat", "semctl", "unlocked", "shmctl", "lock"},
         pc[p] \notin {"semget", "semop"},
         UNCHANGED <<segment, made, attached, SegmentNodes, ret, shm_id, lock_id, holding, orphans,
                     rest>>,
         semaphore' \in {semaphore, NULL}, semval' \in Nat, undo' \in [Procs -> Int],
         op' \in [Procs -> {"none", "detach", "destroy", "last"}],
         next' \in [Procs -> Pointer],
         \A q \in Procs \ {p} : op'[q] = op[q] /\ next'[q] = next[q],
         PlaceAt(p)'
  PROVE  AttachInv'
<1>1. /\ pc' = [pc EXCEPT ![p] = where] /\ pc'[p] = where
      /\ pc' \in [Procs -> {"idle", "shmat", "semget", "semop", "loop", "stat", "semctl",
                            "unlocked", "shmctl", "lock"}]
  BY DEF AttachInv, TypeOK, Goto
<1>2. TypeOK' /\ DOMAIN SegmentNodes' = Procs
  BY <1>1 DEF AttachInv, TypeOK, rest, Node
<1>3. Frame(p)
  BY <1>1 DEF AttachInv, TypeOK, Frame
<1>4. TracksAt(p)'
  <2>1. TracksAt(p) /\ InHand(p) = {}
    BY DEF AttachInv, InHand
  <2>2. InHand(p)' = {}
    BY <1>1 DEF InHand
  <2> QED BY <2>1, <2>2 DEF TracksAt, Attached, Tracked, Node
<1> QED BY <1>2, <1>3, <1>4, FrameStep

----------------------------------------------------------------------------
(* connect_shm                                                              *)

LEMMA AttachShmget ==
  ASSUME AttachInv, NEW p \in Procs, Shmget(p)
  PROVE  AttachInv'
<1>1. /\ pc' = [pc EXCEPT ![p] = "shmat"] /\ shm_id' = [shm_id EXCEPT ![p] = segment']
      /\ pc[p] = "idle" /\ MayConnect(p) /\ hash' = [hash EXCEPT ![p] = TRUE]
      /\ UNCHANGED <<attached, semaphore, semval, undo, SegmentNodes, op, next, lock_id, ret,
                     holding, orphans, exits, failures>>
  BY DEF Shmget, Idle, Goto
<1>2. /\ segment' \in Ids /\ made' \in [segments : 0 .. MaxIds, semaphores : 0 .. MaxIds]
  <2>1. CASE segment # NULL /\ UNCHANGED <<segment, made>>
    BY <2>1 DEF AttachInv, TypeOK
  <2>2. CASE /\ segment = NULL /\ made.segments < MaxIds
             /\ made' = [made EXCEPT !.segments = @ + 1] /\ segment' = made'.segments
    <3>1. /\ made \in [segments : 0 .. MaxIds, semaphores : 0 .. MaxIds] /\ MaxIds \in Nat
      BY SharedMemAssumption DEF AttachInv, TypeOK
    <3>2. made.segments + 1 \in 0 .. MaxIds /\ made.segments + 1 \in 1 .. MaxIds
      BY <2>2, <3>1
    <3> QED BY <2>2, <3>1, <3>2 DEF Ids
  <2> QED BY <2>1, <2>2 DEF Shmget
<1>3. /\ pc \in [Procs -> {"idle", "shmat", "semget", "semop", "loop", "stat", "semctl",
                           "unlocked", "shmctl", "lock"}]
      /\ shm_id \in [Procs -> Ids \cup {NULL}]
  BY DEF AttachInv, TypeOK
<1>4. pc'[p] = "shmat" /\ shm_id'[p] = segment'
  BY <1>1, <1>3
<1>5. TypeOK' /\ DOMAIN SegmentNodes' = Procs
  BY <1>1, <1>2 DEF AttachInv, TypeOK, rest, Node
<1>6. Frame(p)
  BY <1>1, <1>3 DEF Frame
<1>7. TracksAt(p)'
  BY <1>1, <1>4 DEF AttachInv, TracksAt, Attached, Tracked, InHand, Node
<1>8. PlaceAt(p)'
  BY <1>1, <1>2, <1>4 DEF PlaceAt, InDetach, MayConnect, Node
<1> QED BY <1>5, <1>6, <1>7, <1>8, FrameStep

LEMMA AttachShmgetFails ==
  ASSUME AttachInv, NEW p \in Procs, ShmgetFails(p)
  PROVE  AttachInv'
<1>1. /\ pc[p] = "idle" /\ Return(p, NULL) /\ hash' = [hash EXCEPT ![p] = TRUE]
      /\ UNCHANGED <<kernel, SegmentNodes, holding, orphans, exits>>
  BY DEF ShmgetFails, Idle
<1>2. failures' \in 0 .. MaxFailures
  BY SharedMemAssumption DEF ShmgetFails, AttachInv, TypeOK
<1>3. /\ holding' \in [Procs -> Ids \cup {NULL}] /\ exits' \in 0 .. MaxExits
      /\ hash' \in [Procs -> BOOLEAN]
  BY <1>1 DEF AttachInv, TypeOK
<1> QED BY <1>1, <1>2, <1>3, QuietReturn

\* push_list_item on a process's node
LEMMA TrackFacts ==
  ASSUME AttachInv, NEW p \in Procs, NEW node \in SegmentNode, NEW a \in Addrs,
         IsList(node.attachments), TailIsLast(node.attachments, Walk(node.attachments)),
         a \notin Elements(node.attachments), Track(p, node, a)
  PROVE  /\ \A q \in Procs : Node(q)' = NULL \/ Node(q)' \in SegmentNode
         /\ DOMAIN SegmentNodes' = Procs
         /\ \A q \in Procs \ {p} : SegmentNodes'[q] = SegmentNodes[q]
         /\ Tracked(p)' = Elements(node.attachments) \cup {a}
         /\ Node(p)' # NULL /\ IsList(Node(p)'.attachments)
<1> DEFINE l == push_list_item(node.attachments, a)
<1>1. IsList(l) /\ Elements(l) = Elements(node.attachments) \cup {a}
  BY PushElements DEF Addrs
<1>2. l \in List
  BY <1>1 DEF IsList
<1>3. SegmentNodes' = [SegmentNodes EXCEPT ![p] = [node EXCEPT !.attachments = l]]
  BY DEF Track
<1> HIDE DEF l
<1>4. /\ [node EXCEPT !.attachments = l] \in SegmentNode
      /\ [node EXCEPT !.attachments = l].attachments = l
  BY <1>2 DEF SegmentNode
<1>5. /\ DOMAIN SegmentNodes = Procs
      /\ \A q \in Procs : SegmentNodes[q] = NULL \/ SegmentNodes[q] \in SegmentNode
  BY DEF AttachInv, TypeOK, Node
<1>6. /\ SegmentNodes'[p] = [node EXCEPT !.attachments = l] /\ DOMAIN SegmentNodes' = Procs
      /\ \A q \in Procs \ {p} : SegmentNodes'[q] = SegmentNodes[q]
  BY <1>3, <1>5
<1>7. SegmentNodes'[p] # NULL
  BY <1>4, <1>6, NodeAssumption
<1> QED BY <1>1, <1>4, <1>5, <1>6, <1>7 DEF Node, Tracked

LEMMA NewNodeFacts ==
  ASSUME NEW id \in Ids, NEW lock \in Ids \cup {SHM_ERROR}
  PROVE  LET node == NewNode(id, lock) IN
         /\ node \in SegmentNode /\ IsList(node.attachments) /\ Elements(node.attachments) = {}
         /\ TailIsLast(node.attachments, Walk(node.attachments))
<1>1. new_list \in List
  BY NewListEmpty DEF IsList
<1> QED BY <1>1, NewListEmpty DEF NewNode, SegmentNode

\* An address that is attached now is in the list, or in hand.
LEMMA AttachShmat ==
  ASSUME AttachInv, NEW p \in Procs, Shmat(p)
  PROVE  AttachInv'
<1>1. PICK a \in Addrs :
        /\ attached[p][a] = NULL /\ attached' = [attached EXCEPT ![p][a] = shm_id[p]]
        /\ \/ Node(p) # NULL /\ Track(p, Node(p), a) /\ Return(p, a)
           \/ /\ Node(p) = NULL /\ p \notin SemUsers
              /\ Track(p, NewNode(shm_id[p], SHM_ERROR), a) /\ Return(p, a)
           \/ /\ Node(p) = NULL /\ p \in SemUsers
              /\ next' = [next EXCEPT ![p] = a]
              /\ Goto(p, "semget")
              /\ UNCHANGED <<op, shm_id, lock_id, ret, SegmentNodes>>
  BY DEF Shmat
<1>2. /\ pc[p] = "shmat"
      /\ UNCHANGED <<segment, made, semaphore, semval, undo, holding, orphans, rest>>
  BY DEF Shmat
<1>3. /\ TracksAt(p) /\ InHand(p) = {} /\ shm_id[p] \in Ids /\ shm_id[p] # NULL /\ MayConnect(p)
      /\ attached \in [Procs -> [Addrs -> Ids \cup {NULL}]]
      /\ a \in Pointer
  BY <1>2, SharedMemAssumption DEF AttachInv, PlaceAt, InHand, TypeOK, Pointer, Ids, Addrs
<1>4. /\ attached' \in [Procs -> [Addrs -> Ids \cup {NULL}]] /\ Attached(p)' = Attached(p) \cup {a}
      /\ \A q \in Procs \ {p} : attached'[q] = attached[q]
      /\ a \notin Attached(p)
  BY <1>1, <1>3 DEF Attached
<1>5. ASSUME NEW node \in SegmentNode, IsList(node.attachments),
             TailIsLast(node.attachments, Walk(node.attachments)),
             Elements(node.attachments) = Tracked(p),
             Track(p, node, a), Return(p, a)
      PROVE  AttachInv'
  <2>1. a \notin Elements(node.attachments)
    BY <1>3, <1>4, <1>5 DEF TracksAt
  <2>2. /\ \A q \in Procs : Node(q)' = NULL \/ Node(q)' \in SegmentNode
        /\ DOMAIN SegmentNodes' = Procs
        /\ \A q \in Procs \ {p} : SegmentNodes'[q] = SegmentNodes[q]
        /\ Tracked(p)' = Tracked(p) \cup {a}
        /\ Node(p)' # NULL /\ IsList(Node(p)'.attachments)
    BY <1>5, <2>1, TrackFacts
  <2>3. TypeOK'
    BY <1>2, <1>3, <1>4, <1>5, <2>2, ReturnStep DEF AttachInv, TypeOK, rest
  <2>4. Frame(p)
    BY <1>2, <1>3, <1>4, <1>5, <2>2, ReturnStep DEF Frame
  <2>5. PlaceAt(p)' /\ InHand(p)' = {}
    BY <1>3, <1>5, ReturnStep
  <2>6. TracksAt(p)'
    BY <1>2, <1>3, <1>4, <2>2, <2>5 DEF TracksAt
  <2> QED BY <2>2, <2>3, <2>4, <2>5, <2>6, FrameStep
<1>6. CASE Node(p) # NULL /\ Track(p, Node(p), a) /\ Return(p, a)
  <2>1. /\ Node(p) \in SegmentNode /\ IsList(Node(p).attachments)
        /\ TailIsLast(Node(p).attachments, Walk(Node(p).attachments))
        /\ Elements(Node(p).attachments) = Tracked(p)
    BY <1>3, <1>6 DEF AttachInv, TypeOK, TracksAt, MayConnect, Tracked
  <2> QED BY <1>5, <1>6, <2>1
<1>7. CASE /\ Node(p) = NULL /\ p \notin SemUsers
           /\ Track(p, NewNode(shm_id[p], SHM_ERROR), a) /\ Return(p, a)
  <2>1. Tracked(p) = {}
    BY <1>7 DEF Tracked
  <2> QED BY <1>3, <1>5, <1>7, <2>1, NewNodeFacts
<1>8. CASE /\ Node(p) = NULL /\ p \in SemUsers
           /\ next' = [next EXCEPT ![p] = a]
           /\ Goto(p, "semget")
           /\ UNCHANGED <<op, shm_id, lock_id, ret, SegmentNodes>>
  <2>1. /\ pc \in [Procs -> {"idle", "shmat", "semget", "semop", "loop", "stat", "semctl",
                             "unlocked", "shmctl", "lock"}]
        /\ next \in [Procs -> Pointer] /\ DOMAIN SegmentNodes = Procs
    BY DEF AttachInv, TypeOK
  <2>2. /\ pc' = [pc EXCEPT ![p] = "semget"] /\ pc'[p] = "semget" /\ next'[p] = a
        /\ next' \in [Procs -> Pointer]
        /\ Node(p)' = NULL /\ Tracked(p)' = {} /\ Tracked(p) = {}
    BY <1>3, <1>8, <2>1 DEF Goto, Node, Tracked
  <2>3. TypeOK'
    BY <1>2, <1>4, <1>8, <2>2 DEF AttachInv, TypeOK, rest, Node
  <2>4. Frame(p)
    BY <1>2, <1>4, <1>8, <2>1, <2>2 DEF Frame
  <2>5. InHand(p)' = {a}
    BY <2>2 DEF InHand
  <2>6. TracksAt(p)'
    BY <1>2, <1>3, <1>4, <2>2, <2>5 DEF TracksAt
  <2>7. PlaceAt(p)'
    BY <1>3, <1>8, <2>2 DEF PlaceAt, InDetach
  <2> QED BY <1>8, <2>1, <2>3, <2>4, <2>6, <2>7, FrameStep
<1> QED BY <1>1, <1>6, <1>7, <1>8

LEMMA AttachShmatFails ==
  ASSUME AttachInv, NEW p \in Procs, ShmatFails(p)
  PROVE  AttachInv'
<1>1. /\ pc[p] = "shmat" /\ Return(p, NULL)
      /\ UNCHANGED <<kernel, SegmentNodes, holding, orphans, hash, exits>>
  BY DEF ShmatFails
<1>2. failures' \in 0 .. MaxFailures
  BY SharedMemAssumption DEF ShmatFails, AttachInv, TypeOK
<1>3. /\ holding' \in [Procs -> Ids \cup {NULL}] /\ exits' \in 0 .. MaxExits
      /\ hash' \in [Procs -> BOOLEAN]
  BY <1>1 DEF AttachInv, TypeOK
<1> QED BY <1>1, <1>2, <1>3, QuietReturn

LEMMA AttachSemget ==
  ASSUME AttachInv, NEW p \in Procs, Semget(p)
  PROVE  AttachInv'
<1>1. /\ pc[p] = "semget" /\ pc' = [pc EXCEPT ![p] = "semop"]
      /\ lock_id' = [lock_id EXCEPT ![p] = semaphore']
      /\ UNCHANGED <<segment, attached, undo, SegmentNodes, op, next, shm_id, ret, holding,
                     orphans, rest>>
  BY DEF Semget, Goto
<1>2. /\ semaphore' \in Ids /\ made' \in [segments : 0 .. MaxIds, semaphores : 0 .. MaxIds]
      /\ semval' \in Nat
  <2>1. CASE semaphore # NULL /\ UNCHANGED <<semaphore, semval, made>>
    BY <2>1 DEF AttachInv, TypeOK
  <2>2. CASE /\ semaphore = NULL /\ made.semaphores < MaxIds /\ semval' = 0
             /\ made' = [made EXCEPT !.semaphores = @ + 1] /\ semaphore' = made'.semaphores
    <3>1. /\ made \in [segments : 0 .. MaxIds, semaphores : 0 .. MaxIds] /\ MaxIds \in Nat
      BY SharedMemAssumption DEF AttachInv, TypeOK
    <3>2. made.semaphores + 1 \in 0 .. MaxIds /\ made.semaphores + 1 \in 1 .. MaxIds
      BY <2>2, <3>1
    <3> QED BY <2>2, <3>1, <3>2 DEF Ids
  <2> QED BY <2>1, <2>2 DEF Semget
<1>3. /\ pc \in [Procs -> {"idle", "shmat", "semget", "semop", "loop", "stat", "semctl",
                           "unlocked", "shmctl", "lock"}]
      /\ lock_id \in [Procs -> Ids \cup {NULL}] /\ TracksAt(p) /\ PlaceAt(p)
  BY DEF AttachInv, TypeOK
<1>4. pc'[p] = "semop" /\ lock_id'[p] = semaphore'
  BY <1>1, <1>3
<1>5. TypeOK' /\ DOMAIN SegmentNodes' = Procs
  BY <1>1, <1>2 DEF AttachInv, TypeOK, rest, Node
<1>6. Frame(p)
  BY <1>1, <1>3 DEF Frame
<1>7. InHand(p)' = InHand(p)
  BY <1>1, <1>4 DEF InHand
<1>8. TracksAt(p)'
  BY <1>1, <1>3, <1>7 DEF TracksAt, Attached, Tracked, Node
<1>9. PlaceAt(p)'
  BY <1>1, <1>2, <1>3, <1>4 DEF PlaceAt, InDetach, Node
<1> QED BY <1>5, <1>6, <1>8, <1>9, FrameStep

\* The address in hand becomes an orphan.
LEMMA AttachSemgetFails ==
  ASSUME AttachInv, NEW p \in Procs, SemgetFails(p)
  PROVE  AttachInv'
<1>1. /\ pc[p] = "semget" /\ Return(p, NULL) /\ orphans' = [orphans EXCEPT ![p] = @ \cup {next[p]}]
      /\ UNCHANGED <<kernel, SegmentNodes, holding, hash, exits>>
  BY DEF SemgetFails
<1>2. failures' \in 0 .. MaxFailures
  BY SharedMemAssumption DEF SemgetFails, AttachInv, TypeOK
<1>3. /\ NULL \in Pointer /\ orphans \in [Procs -> SUBSET Addrs] /\ next[p] \in Addrs
      /\ Node(p) = NULL /\ InHand(p) = {next[p]} /\ TracksAt(p)
  BY <1>1 DEF AttachInv, TypeOK, PlaceAt, Pointer, InHand
<1>4. /\ orphans' \in [Procs -> SUBSET Addrs] /\ orphans'[p] = orphans[p] \cup {next[p]}
      /\ \A q \in Procs \ {p} : orphans'[q] = orphans[q]
  BY <1>1, <1>3
<1>5. TypeOK' /\ DOMAIN SegmentNodes' = Procs
  BY <1>1, <1>2, <1>3, <1>4, ReturnStep DEF AttachInv, TypeOK, kernel, Node
<1>6. Frame(p)
  BY <1>1, <1>3, <1>4, ReturnStep DEF Frame, kernel
<1>7. InHand(p)' = {} /\ PlaceAt(p)'
  BY <1>1, <1>3, ReturnStep
<1>8. TracksAt(p)'
  BY <1>1, <1>3, <1>4, <1>7 DEF TracksAt, Attached, Tracked, Node, kernel
<1> QED BY <1>5, <1>6, <1>7, <1>8, FrameStep

\* The address in hand is the first of a new list.
LEMMA AttachSemup ==
  ASSUME AttachInv, NEW p \in Procs, Semup(p)
  PROVE  AttachInv'
<1> DEFINE node == NewNode(shm_id[p], lock_id[p])
<1>1. /\ pc[p] = "semop" /\ Track(p, node, next[p]) /\ Return(p, next[p])
      /\ UNCHANGED <<segment, made, attached, semaphore, holding, orphans, rest>>
  BY DEF Semup
<1>2. /\ semval' \in Nat /\ undo' \in [Procs -> Int]
  <2>1. semval \in Nat /\ undo \in [Procs -> Int]
    BY DEF AttachInv, TypeOK
  <2> QED BY <2>1 DEF Semup, Semop
<1>3. /\ next[p] \in Addrs /\ next[p] \in Pointer /\ shm_id[p] \in Ids /\ lock_id[p] \in Ids
      /\ Node(p) = NULL /\ InHand(p) = {next[p]} /\ TracksAt(p)
  BY <1>1 DEF AttachInv, PlaceAt, InHand, Pointer, Addrs
<1>4. /\ node \in SegmentNode /\ IsList(node.attachments) /\ Elements(node.attachments) = {}
      /\ TailIsLast(node.attachments, Walk(node.attachments))
  BY <1>3, NewNodeFacts
<1> HIDE DEF node
<1>5. /\ \A q \in Procs : Node(q)' = NULL \/ Node(q)' \in SegmentNode
      /\ DOMAIN SegmentNodes' = Procs
      /\ \A q \in Procs \ {p} : SegmentNodes'[q] = SegmentNodes[q]
      /\ Tracked(p)' = {next[p]}
      /\ Node(p)' # NULL /\ IsList(Node(p)'.attachments)
  BY <1>1, <1>3, <1>4, TrackFacts
<1>6. TypeOK'
  BY <1>1, <1>2, <1>3, <1>5, ReturnStep DEF AttachInv, TypeOK, rest
<1>7. Frame(p)
  BY <1>1, <1>3, <1>5, ReturnStep DEF Frame
<1>8. PlaceAt(p)' /\ InHand(p)' = {}
  BY <1>1, <1>3, ReturnStep
<1>9. TracksAt(p)'
  <2>1. Tracked(p) = {}
    BY <1>3 DEF Tracked
  <2> QED BY <1>1, <1>3, <1>5, <1>8, <2>1 DEF TracksAt, Attached
<1> QED BY <1>5, <1>6, <1>7, <1>8, <1>9, FrameStep

----------------------------------------------------------------------------
(* detach_shm and destroy_shm                                               *)

\* shmdt and remove_list_item on an address in the list; of the head, the next
\* node becomes the head.
LEMMA DetachFacts ==
  ASSUME AttachInv, NEW p \in Procs, NEW a \in Tracked(p), Detach(p, a)
  PROVE  /\ attached' \in [Procs -> [Addrs -> Ids \cup {NULL}]]
         /\ Attached(p)' = Attached(p) \ {a}
         /\ \A q \in Procs \ {p} : attached'[q] = attached[q] /\ SegmentNodes'[q] = SegmentNodes[q]
         /\ \A q \in Procs : Node(q)' = NULL \/ Node(q)' \in SegmentNode
         /\ DOMAIN SegmentNodes' = Procs
         /\ Tracked(p)' = Tracked(p) \ {a}
         /\ Node(p)' # NULL /\ IsList(Node(p)'.attachments)
         /\ Node(p) # NULL
         /\ a = Node(p).attachments.head
              => Node(p)'.attachments.head = Node(p).attachments.next[a]
<1> DEFINE l == Node(p).attachments
           r == remove_list_item(l, a)
<1>1. /\ Node(p) # NULL /\ Node(p) \in SegmentNode /\ IsList(l) /\ Tracked(p) = Elements(l)
      /\ DOMAIN SegmentNodes = Procs /\ attached \in [Procs -> [Addrs -> Ids \cup {NULL}]]
      /\ \A q \in Procs : SegmentNodes[q] = NULL \/ SegmentNodes[q] \in SegmentNode
  BY DEF AttachInv, TypeOK, TracksAt, Tracked, Node
<1>2. a \in Addrs
  BY <1>1, ListWalk DEF Addrs
<1>3. /\ IsList(r) /\ Elements(r) = Elements(l) \ {a} /\ (a = l.head => r.head = l.next[a])
  BY <1>1, RemoveElements
<1>4. attached' = [attached EXCEPT ![p][a] = NULL]
  BY DEF Detach
<1>5. SegmentNodes' = [SegmentNodes EXCEPT ![p] = [SegmentNodes[p] EXCEPT !.attachments = r]]
  BY <1>1 DEF Detach, Node, SegmentNode
<1> HIDE DEF r
<1>6. /\ [SegmentNodes[p] EXCEPT !.attachments = r] \in SegmentNode
      /\ [SegmentNodes[p] EXCEPT !.attachments = r].attachments = r
  <2>1. r \in List
    BY <1>3 DEF IsList
  <2> QED BY <1>1, <2>1 DEF SegmentNode, Node
<1>7. /\ SegmentNodes'[p] = [SegmentNodes[p] EXCEPT !.attachments = r]
      /\ DOMAIN SegmentNodes' = Procs
      /\ \A q \in Procs \ {p} : SegmentNodes'[q] = SegmentNodes[q]
  BY <1>1, <1>5
<1>8. SegmentNodes'[p] # NULL
  BY <1>6, <1>7, NodeAssumption
<1>9. Tracked(p)' = Elements(r) /\ Node(p)' # NULL /\ Node(p)'.attachments = r
  BY <1>6, <1>7, <1>8 DEF Tracked, Node
<1>10. /\ attached' \in [Procs -> [Addrs -> Ids \cup {NULL}]] /\ Attached(p)' = Attached(p) \ {a}
       /\ \A q \in Procs \ {p} : attached'[q] = attached[q]
  BY <1>1, <1>2, <1>4 DEF Attached
<1>11. \A q \in Procs : Node(q)' = NULL \/ Node(q)' \in SegmentNode
  BY <1>1, <1>6, <1>7 DEF Node
<1> QED BY <1>1, <1>3, <1>7, <1>9, <1>10, <1>11

\* The steps that detach an address, of detach_shm and of destroy_shm's loop
LEMMA DetachStep ==
  ASSUME AttachInv, NEW p \in Procs, NEW a \in Tracked(p), Detach(p, a), ThenLock(p),
         pc[p] \notin {"semget", "semop"},
         UNCHANGED <<segment, made, semaphore, semval, undo, shm_id, lock_id, ret, holding, orphans,
                     rest>>,
         op' \in [Procs -> {"none", "detach", "destroy", "last"}], next' \in [Procs -> Pointer],
         \A q \in Procs \ {p} : op'[q] = op[q] /\ next'[q] = next[q],
         op'[p] # "last",
         op'[p] = "destroy" => next'[p] = Node(p)'.attachments.head
  PROVE  AttachInv'
<1>1. PICK where \in {"stat", "unlocked"} : pc' = [pc EXCEPT ![p] = where]
  BY DEF ThenLock, Goto
<1>2. /\ pc \in [Procs -> {"idle", "shmat", "semget", "semop", "loop", "stat", "semctl",
                           "unlocked", "shmctl", "lock"}]
      /\ InHand(p) = {} /\ TracksAt(p)
  BY DEF AttachInv, TypeOK, InHand
<1>3. /\ pc' \in [Procs -> {"idle", "shmat", "semget", "semop", "loop", "stat", "semctl",
                            "unlocked", "shmctl", "lock"}]
      /\ pc'[p] = where /\ InHand(p)' = {}
      /\ \A q \in Procs \ {p} : pc'[q] = pc[q]
  BY <1>1, <1>2 DEF InHand
<1>4. TypeOK' /\ DOMAIN SegmentNodes' = Procs
  BY <1>3, DetachFacts DEF AttachInv, TypeOK, rest
<1>5. Frame(p)
  BY <1>3, DetachFacts DEF Frame
<1>6. TracksAt(p)'
  BY <1>2, <1>3, DetachFacts DEF TracksAt
<1>7. PlaceAt(p)'
  BY <1>3, DetachFacts DEF PlaceAt, InDetach
<1> QED BY <1>4, <1>5, <1>6, <1>7, FrameStep

LEMMA AttachDetachShm ==
  ASSUME AttachInv, NEW p \in Procs, NEW a \in Addrs, DetachShm(p, a)
  PROVE  AttachInv'
<1>1. pc[p] = "idle" /\ UNCHANGED <<holding, orphans, rest>>
  BY DEF DetachShm, MayUse, Idle
<1>2. /\ holding' \in [Procs -> Ids \cup {NULL}] /\ hash' \in [Procs -> BOOLEAN]
      /\ exits' \in 0 .. MaxExits /\ failures' \in 0 .. MaxFailures
  BY <1>1 DEF AttachInv, TypeOK, rest
<1>3. CASE Return(p, NULL) /\ UNCHANGED <<kernel, SegmentNodes>>
  BY <1>1, <1>2, <1>3, QuietReturn
<1>4. CASE /\ a \in Tracked(p)
           /\ Detach(p, a)
           /\ Operation(p, "detach")
           /\ ThenLock(p)
           /\ UNCHANGED <<segment, made, semaphore, semval, undo, next, shm_id, lock_id, ret>>
  <2>1. /\ op' \in [Procs -> {"none", "detach", "destroy", "last"}] /\ op'[p] = "detach"
        /\ \A q \in Procs \ {p} : op'[q] = op[q]
    BY <1>4 DEF AttachInv, TypeOK, Operation
  <2>2. next' \in [Procs -> Pointer] /\ \A q \in Procs \ {p} : next'[q] = next[q]
    BY <1>4 DEF AttachInv, TypeOK
  <2> QED BY <1>1, <1>4, <2>1, <2>2, DetachStep
<1> QED BY <1>3, <1>4 DEF DetachShm

LEMMA AttachDestroyShm ==
  ASSUME AttachInv, NEW p \in Procs, DestroyShm(p)
  PROVE  AttachInv'
<1>1. pc[p] = "idle" /\ UNCHANGED <<kernel, SegmentNodes, holding, orphans, rest>>
  BY DEF DestroyShm, MayUse, Idle
<1>2. CASE Return(p, NULL)
  BY <1>1, <1>2, QuietReturn DEF AttachInv, TypeOK, rest
<1>3. CASE /\ Node(p) # NULL
           /\ next' = [next EXCEPT ![p] = Node(p).attachments.head]
           /\ Operation(p, "destroy")
           /\ Goto(p, "loop")
           /\ UNCHANGED <<shm_id, lock_id, ret>>
  <2>1. Node(p).attachments.head \in Pointer
    BY <1>3 DEF AttachInv, TypeOK, SegmentNode, List
  <2>2. /\ pc'[p] = "loop" /\ op'[p] = "destroy" /\ next'[p] = Node(p).attachments.head
        /\ op' \in [Procs -> {"none", "detach", "destroy", "last"}]
        /\ next' \in [Procs -> Pointer]
        /\ \A q \in Procs \ {p} : op'[q] = op[q] /\ next'[q] = next[q]
    BY <1>3, <2>1 DEF AttachInv, TypeOK, Operation, Goto
  <2>3. PlaceAt(p)'
    BY <1>1, <1>3, <2>2 DEF PlaceAt, InDetach, Node
  <2>4. semaphore' \in {semaphore, NULL} /\ semval' \in Nat /\ undo' \in [Procs -> Int]
    BY <1>1 DEF AttachInv, TypeOK, kernel
  <2> QED BY <1>1, <1>3, <2>2, <2>3, <2>4, QuietGoto DEF kernel
<1> QED BY <1>2, <1>3 DEF DestroyShm

\* The node that the loop is at is the head of the list.
LEMMA AttachLoop ==
  ASSUME AttachInv, NEW p \in Procs, Loop(p)
  PROVE  AttachInv'
<1>1. /\ pc[p] = "loop" /\ next[p] # NULL /\ Detach(p, next[p]) /\ ThenLock(p)
      /\ next' = [next EXCEPT ![p] = Node(p).attachments.next[next[p]]]
      /\ UNCHANGED <<segment, made, semaphore, semval, undo, op, shm_id, lock_id, ret, holding,
                     orphans, rest>>
  BY DEF Loop
<1>2. /\ Node(p) # NULL /\ op[p] = "destroy" /\ next[p] = Node(p).attachments.head
      /\ Node(p) \in SegmentNode /\ IsList(Node(p).attachments)
      /\ next \in [Procs -> Pointer] /\ op \in [Procs -> {"none", "detach", "destroy", "last"}]
  BY <1>1 DEF AttachInv, TypeOK, TracksAt, PlaceAt, InDetach
<1>3. next[p] \in Tracked(p) /\ next[p] \in Nodes
  BY <1>1, <1>2, HeadOfList, ListWalk DEF Tracked
<1>4. Node(p).attachments.next[next[p]] \in Pointer
  BY <1>2, <1>3 DEF SegmentNode, List
<1>5. /\ next' \in [Procs -> Pointer] /\ next'[p] = Node(p).attachments.next[next[p]]
      /\ \A q \in Procs \ {p} : next'[q] = next[q]
  BY <1>1, <1>2, <1>4
<1>6. next'[p] = Node(p)'.attachments.head
  BY <1>1, <1>2, <1>3, <1>5, DetachFacts
<1> QED BY <1>1, <1>2, <1>3, <1>5, <1>6, DetachStep

\* The loop ends when the list is empty.
LEMMA AttachLoopEnds ==
  ASSUME AttachInv, NEW p \in Procs, LoopEnds(p)
  PROVE  AttachInv'
<1>1. /\ pc[p] = "loop" /\ next[p] = NULL /\ op' = [op EXCEPT ![p] = "last"]
      /\ UNCHANGED <<kernel, SegmentNodes, next, shm_id, lock_id, ret, holding, orphans, rest>>
  BY DEF LoopEnds, Operation
<1>2. PICK where \in {"stat", "unlocked"} : Goto(p, where)
  BY DEF LoopEnds, ThenLock
<1>3. /\ pc'[p] = where
      /\ op' \in [Procs -> {"none", "detach", "destroy", "last"}] /\ op'[p] = "last"
      /\ next' \in [Procs -> Pointer]
      /\ \A q \in Procs \ {p} : op'[q] = op[q] /\ next'[q] = next[q]
      /\ semaphore' \in {semaphore, NULL} /\ semval' \in Nat /\ undo' \in [Procs -> Int]
  BY <1>1, <1>2 DEF AttachInv, TypeOK, Goto, kernel
<1>4. Node(p) # NULL /\ Node(p).attachments.head = NULL
  BY <1>1 DEF AttachInv, PlaceAt, InDetach
<1>5. PlaceAt(p)'
  BY <1>1, <1>3, <1>4 DEF PlaceAt, InDetach, Node
<1> QED BY <1>1, <1>2, <1>3, <1>5, QuietGoto DEF kernel

LEMMA AttachStat ==
  ASSUME AttachInv, NEW p \in Procs, Stat(p)
  PROVE  AttachInv'
<1>1. /\ pc[p] = "stat" /\ UNCHANGED <<kernel, SegmentNodes, locals, ret, holding, orphans, rest>>
  BY DEF Stat
<1>2. PICK where \in {"semctl", "unlocked"} : Goto(p, where)
  BY DEF Stat
<1>3. /\ pc'[p] = where
      /\ op' \in [Procs -> {"none", "detach", "destroy", "last"}] /\ next' \in [Procs -> Pointer]
      /\ semaphore' \in {semaphore, NULL} /\ semval' \in Nat /\ undo' \in [Procs -> Int]
  BY <1>1, <1>2 DEF AttachInv, TypeOK, Goto, kernel, locals
<1>4. PlaceAt(p)'
  BY <1>1, <1>3 DEF AttachInv, PlaceAt, InDetach, Node, locals
<1> QED BY <1>1, <1>2, <1>3, <1>4, QuietGoto DEF kernel, locals

LEMMA AttachSemctl ==
  ASSUME AttachInv, NEW p \in Procs, Semctl(p)
  PROVE  AttachInv'
<1>1. /\ pc[p] = "semctl" /\ Goto(p, "unlocked")
      /\ UNCHANGED <<segment, made, attached, SegmentNodes, locals, ret, holding, orphans, rest>>
  BY DEF Semctl
<1>2. /\ pc'[p] = "unlocked"
      /\ op' \in [Procs -> {"none", "detach", "destroy", "last"}] /\ next' \in [Procs -> Pointer]
      /\ semaphore' \in {semaphore, NULL} /\ semval' \in Nat /\ undo' \in [Procs -> Int]
  BY <1>1 DEF AttachInv, TypeOK, Goto, locals, Semctl
<1>3. PlaceAt(p)'
  BY <1>1, <1>2 DEF AttachInv, PlaceAt, InDetach, Node, locals
<1> QED BY <1>1, <1>2, <1>3, QuietGoto DEF locals

LEMMA AttachUnlocked ==
  ASSUME AttachInv, NEW p \in Procs, Unlocked(p)
  PROVE  AttachInv'
<1>1. pc[p] = "unlocked" /\ UNCHANGED <<kernel, SegmentNodes, holding, orphans, rest>>
  BY DEF Unlocked
<1>2. CASE Return(p, NULL)
  BY <1>1, <1>2, QuietReturn DEF AttachInv, TypeOK, rest
<1>3. ASSUME NEW where \in {"loop", "shmctl"}, Goto(p, where), UNCHANGED <<locals, ret>>,
             where = "loop" => op[p] = "destroy", where = "shmctl" => op[p] = "last"
      PROVE  AttachInv'
  <2>1. /\ pc'[p] = where
        /\ op' \in [Procs -> {"none", "detach", "destroy", "last"}] /\ next' \in [Procs -> Pointer]
        /\ semaphore' \in {semaphore, NULL} /\ semval' \in Nat /\ undo' \in [Procs -> Int]
    BY <1>1, <1>3 DEF AttachInv, TypeOK, Goto, kernel, locals
  <2>2. PlaceAt(p)'
    BY <1>1, <1>3, <2>1 DEF AttachInv, PlaceAt, InDetach, Node, locals
  <2> QED BY <1>1, <1>3, <2>1, <2>2, QuietGoto DEF kernel, locals
<1> QED BY <1>2, <1>3 DEF Unlocked

\* The list of a node that is deleted is empty.
LEMMA AttachShmctl ==
  ASSUME AttachInv, NEW p \in Procs, Shmctl(p)
  PROVE  AttachInv'
<1>1. /\ pc[p] = "shmctl" /\ Return(p, NULL)
      /\ SegmentNodes' = [SegmentNodes EXCEPT ![p] = NULL] \/ UNCHANGED SegmentNodes
      /\ segment' \in {segment, NULL}
      /\ UNCHANGED <<made, attached, semaphore, semval, undo, holding, orphans, rest>>
  BY DEF Shmctl
<1>2. /\ Node(p) # NULL /\ Node(p).attachments.head = NULL /\ TracksAt(p) /\ InHand(p) = {}
      /\ NULL \in Pointer /\ DOMAIN SegmentNodes = Procs
  BY <1>1 DEF AttachInv, PlaceAt, InDetach, InHand, Pointer
<1>3. Tracked(p) = {}
  BY <1>2, HeadOfList DEF TracksAt, Tracked
<1>4. /\ DOMAIN SegmentNodes' = Procs
      /\ \A q \in Procs \ {p} : SegmentNodes'[q] = SegmentNodes[q]
      /\ \A q \in Procs : Node(q)' = NULL \/ Node(q)' = Node(q)
      /\ Tracked(p)' = {} /\ (Node(p)' # NULL => Node(p)' = Node(p))
  BY <1>1, <1>2, <1>3 DEF Node, Tracked
<1>5. TypeOK'
  BY <1>1, <1>2, <1>4, ReturnStep DEF AttachInv, TypeOK, rest
<1>6. Frame(p)
  BY <1>1, <1>2, <1>4, ReturnStep DEF Frame
<1>7. PlaceAt(p)' /\ InHand(p)' = {}
  BY <1>1, <1>2, ReturnStep
<1>8. TracksAt(p)'
  BY <1>1, <1>2, <1>3, <1>4, <1>7 DEF TracksAt, Attached
<1> QED BY <1>4, <1>5, <1>6, <1>7, <1>8, FrameStep

----------------------------------------------------------------------------
(* shm_lock and shm_unlock, and the end of a process                        *)

LEMMA AttachShmLock ==
  ASSUME AttachInv, NEW p \in Procs, ShmLock(p)
  PROVE  AttachInv'
<1>1. pc[p] = "idle" /\ UNCHANGED <<kernel, SegmentNodes, holding, orphans, rest>>
  BY DEF ShmLock, MayUse, Idle
<1>2. CASE Return(p, NULL)
  BY <1>1, <1>2, QuietReturn DEF AttachInv, TypeOK, rest
<1>3. CASE Node(p) # NULL /\ Goto(p, "lock") /\ UNCHANGED <<locals, ret>>
  <2>1. /\ pc'[p] = "lock"
        /\ op' \in [Procs -> {"none", "detach", "destroy", "last"}] /\ next' \in [Procs -> Pointer]
        /\ semaphore' \in {semaphore, NULL} /\ semval' \in Nat /\ undo' \in [Procs -> Int]
    BY <1>1, <1>3 DEF AttachInv, TypeOK, Goto, kernel, locals
  <2>2. PlaceAt(p)'
    BY <1>1, <1>3, <2>1 DEF PlaceAt, InDetach, Node
  <2> QED BY <1>1, <1>3, <2>1, <2>2, QuietGoto DEF kernel, locals
<1> QED BY <1>2, <1>3 DEF ShmLock

\* A semop on the way out of shm_lock or shm_unlock
LEMMA SemopReturn ==
  ASSUME AttachInv, NEW p \in Procs, Return(p, NULL), pc[p] \notin {"semget", "semop"},
         semval' \in Nat, undo' \in [Procs -> Int], holding' \in [Procs -> Ids \cup {NULL}],
         UNCHANGED <<segment, made, attached, semaphore, SegmentNodes, orphans, rest>>
  PROVE  AttachInv'
<1>1. NULL \in Pointer /\ TracksAt(p) /\ InHand(p) = {}
  BY DEF AttachInv, Pointer, InHand
<1>2. TypeOK' /\ DOMAIN SegmentNodes' = Procs
  BY <1>1, ReturnStep DEF AttachInv, TypeOK, rest, Node
<1>3. Frame(p)
  BY <1>1, ReturnStep DEF Frame
<1>4. PlaceAt(p)' /\ InHand(p)' = {}
  BY <1>1, ReturnStep
<1>5. TracksAt(p)'
  BY <1>1, <1>4 DEF TracksAt, Attached, Tracked, Node
<1> QED BY <1>2, <1>3, <1>4, <1>5, FrameStep

LEMMA AttachLock ==
  ASSUME AttachInv, NEW p \in Procs, Lock(p)
  PROVE  AttachInv'
<1>1. /\ pc[p] = "lock" /\ Return(p, NULL) /\ semval > 0 /\ Semop(p, -1)
      /\ holding' = [holding EXCEPT ![p] = semaphore]
      /\ UNCHANGED <<segment, made, attached, semaphore, SegmentNodes, orphans, rest>>
  BY DEF Lock
<1>2. semval \in Nat /\ undo \in [Procs -> Int] /\ holding \in [Procs -> Ids \cup {NULL}]
  BY DEF AttachInv, TypeOK
<1>3. semval' \in Nat /\ undo' \in [Procs -> Int]
  BY <1>1, <1>2 DEF Semop
<1>4. holding' \in [Procs -> Ids \cup {NULL}]
  BY <1>1, <1>2 DEF AttachInv, TypeOK
<1> QED BY <1>1, <1>3, <1>4, SemopReturn

LEMMA AttachLockIsGone ==
  ASSUME AttachInv, NEW p \in Procs, LockIsGone(p)
  PROVE  AttachInv'
BY QuietReturn DEF LockIsGone, AttachInv, TypeOK, rest

LEMMA AttachShmUnlock ==
  ASSUME AttachInv, NEW p \in Procs, ShmUnlock(p)
  PROVE  AttachInv'
<1>1. /\ pc[p] = "idle" /\ Return(p, NULL) /\ holding' = [holding EXCEPT ![p] = NULL]
      /\ Semop(p, 1) \/ UNCHANGED <<semval, undo>>
      /\ UNCHANGED <<segment, made, attached, semaphore, SegmentNodes, orphans, rest>>
  BY DEF ShmUnlock
<1>2. semval \in Nat /\ undo \in [Procs -> Int] /\ holding \in [Procs -> Ids \cup {NULL}]
  BY DEF AttachInv, TypeOK
<1>3. semval' \in Nat /\ undo' \in [Procs -> Int]
  BY <1>1, <1>2 DEF Semop
<1>4. holding' \in [Procs -> Ids \cup {NULL}]
  BY <1>1, <1>2
<1> QED BY <1>1, <1>3, <1>4, SemopReturn

\* The system detaches a process that ends; its list goes with it.
LEMMA AttachExit ==
  ASSUME AttachInv, NEW p \in Procs, Exit(p)
  PROVE  AttachInv'
<1>1. /\ attached' = [attached EXCEPT ![p] = [a \in Addrs |-> NULL]]
      /\ SegmentNodes' = [SegmentNodes EXCEPT ![p] = NULL]
      /\ orphans' = [orphans EXCEPT ![p] = {}]
      /\ op' = [op EXCEPT ![p] = "none"] /\ next' = [next EXCEPT ![p] = NULL]
      /\ shm_id' = [shm_id EXCEPT ![p] = NULL] /\ lock_id' = [lock_id EXCEPT ![p] = NULL]
      /\ ret' = [ret EXCEPT ![p] = NULL] /\ holding' = [holding EXCEPT ![p] = NULL]
      /\ hash' = [hash EXCEPT ![p] = FALSE]
      /\ undo' = [undo EXCEPT ![p] = 0] /\ pc' = [pc EXCEPT ![p] = "idle"]
      /\ UNCHANGED <<segment, made, semaphore, failures>>
  BY DEF Exit, Goto
<1>2. semval' \in Nat
  <2>1. semval \in Nat /\ undo[p] \in Int
    BY DEF AttachInv, TypeOK
  <2> QED BY <2>1 DEF Exit
<1>3. exits' \in 0 .. MaxExits
  BY SharedMemAssumption DEF Exit, AttachInv, TypeOK
<1>4. /\ attached \in [Procs -> [Addrs -> Ids \cup {NULL}]] /\ DOMAIN SegmentNodes = Procs
      /\ orphans \in [Procs -> SUBSET Addrs] /\ NULL \in Pointer
      /\ pc \in [Procs -> {"idle", "shmat", "semget", "semop", "loop", "stat", "semctl",
                           "unlocked", "shmctl", "lock"}]
      /\ op \in [Procs -> {"none", "detach", "destroy", "last"}]
      /\ next \in [Procs -> Pointer] /\ ret \in [Procs -> Pointer]
      /\ shm_id \in [Procs -> Ids \cup {NULL}] /\ lock_id \in [Procs -> Ids \cup {NULL}]
      /\ hash \in [Procs -> BOOLEAN]
      /\ holding \in [Procs -> Ids \cup {NULL}] /\ undo \in [Procs -> Int]
      /\ \A q \in Procs : SegmentNodes[q] = NULL \/ SegmentNodes[q] \in SegmentNode
  BY DEF AttachInv, TypeOK, Pointer, Node
<1>5. /\ attached' \in [Procs -> [Addrs -> Ids \cup {NULL}]] /\ undo' \in [Procs -> Int]
      /\ pc' \in [Procs -> {"idle", "shmat", "semget", "semop", "loop", "stat", "semctl",
                            "unlocked", "shmctl", "lock"}]
      /\ op' \in [Procs -> {"none", "detach", "destroy", "last"}]
      /\ next' \in [Procs -> Pointer] /\ ret' \in [Procs -> Pointer]
      /\ shm_id' \in [Procs -> Ids \cup {NULL}] /\ lock_id' \in [Procs -> Ids \cup {NULL}]
      /\ holding' \in [Procs -> Ids \cup {NULL}] /\ orphans' \in [Procs -> SUBSET Addrs]
      /\ hash' \in [Procs -> BOOLEAN]
  BY <1>1, <1>4
<1>6. /\ DOMAIN SegmentNodes' = Procs /\ SegmentNodes'[p] = NULL
      /\ \A q \in Procs \ {p} : SegmentNodes'[q] = SegmentNodes[q]
  BY <1>1, <1>4
<1>7. TypeOK'
  <2>1. /\ segment' \in Ids \cup {NULL} /\ semaphore' \in Ids \cup {NULL}
        /\ made' \in [segments : 0 .. MaxIds, semaphores : 0 .. MaxIds]
        /\ failures' \in 0 .. MaxFailures
    BY <1>1 DEF AttachInv, TypeOK
  <2>2. \A q \in Procs : Node(q)' = NULL \/ Node(q)' \in SegmentNode
    BY <1>4, <1>6 DEF Node
  <2> QED BY <1>2, <1>3, <1>5, <2>1, <2>2 DEF TypeOK
<1>8. Frame(p)
  BY <1>1, <1>4, <1>6 DEF Frame
<1>9. /\ pc'[p] = "idle" /\ orphans'[p] = {} /\ \A a \in Addrs : attached'[p][a] = NULL
  BY <1>1, <1>4
<1>10. TracksAt(p)'
  BY <1>6, <1>9 DEF TracksAt, Attached, Tracked, InHand, Node
<1>11. PlaceAt(p)'
  BY <1>9 DEF PlaceAt, InDetach
<1> QED BY <1>6, <1>7, <1>8, <1>10, <1>11, FrameStep

----------------------------------------------------------------------------
LEMMA AttachNext == AttachInv /\ [Next]_vars => AttachInv'
<1> SUFFICES ASSUME AttachInv, [Next]_vars PROVE AttachInv'
  OBVIOUS
<1>1. CASE UNCHANGED vars
  <2>1. UNCHANGED <<segment, made, attached, semaphore, semval, undo, SegmentNodes, pc, op, next,
                    shm_id, lock_id, ret, holding, orphans, hash, exits, failures>>
    BY <1>1 DEF vars, kernel, locals, rest
  <2>2. TypeOK' /\ DOMAIN SegmentNodes' = Procs
    BY <2>1 DEF AttachInv, TypeOK, Node
  <2>3. ASSUME NEW p \in Procs PROVE TracksAt(p)' /\ PlaceAt(p)'
    <3>1. TracksAt(p) /\ PlaceAt(p)
      BY DEF AttachInv
    <3>2. TracksAt(p)'
      BY <2>1, <3>1 DEF TracksAt, Attached, Tracked, InHand, Node
    <3>3. PlaceAt(p)'
      BY <2>1, <3>1 DEF PlaceAt, InDetach, Node, MayConnect
    <3> QED BY <3>2, <3>3
  <2> QED BY <2>2, <2>3 DEF AttachInv
<1>2. ASSUME NEW p \in Procs, Inside(p) PROVE AttachInv'
  BY <1>2, AttachShmat, AttachShmatFails, AttachSemget, AttachSemgetFails, AttachSemup, AttachLoop,
     AttachLoopEnds, AttachStat, AttachSemctl, AttachUnlocked, AttachShmctl, AttachLock,
     AttachLockIsGone DEF Inside
<1>3. ASSUME NEW p \in Procs, Calls(p) PROVE AttachInv'
  BY <1>3, AttachShmget, AttachShmgetFails, AttachDestroyShm, AttachShmLock, AttachShmUnlock,
     AttachDetachShm DEF Calls
<1> QED BY <1>1, <1>2, <1>3, AttachExit DEF Next

LEMMA AttachAlways == Spec => []AttachInv
BY AttachInit, AttachNext, PTL DEF Spec

\* The variables keep their types: the semaphore is never lowered below 0, and
\* every pointer of a list is an address or NULL.
THEOREM ShmTypeCorrect == Spec => []TypeOK
BY AttachAlways, PTL DEF AttachInv

\* Between calls connect_shm's list names exactly the addresses at which the
\* process is attached, but for those of a connect_shm whose semget failed.
THEOREM ListIsWhatIsAttached == Spec => []AttachedIsTracked
<1>1. AttachInv => AttachedIsTracked
  <2> SUFFICES ASSUME AttachInv, NEW p \in Procs, pc[p] = "idle"
               PROVE  {a \in Addrs : attached[p][a] # NULL} = Tracked(p) \cup orphans[p]
    BY DEF AttachedIsTracked
  <2>1. TracksAt(p) /\ InHand(p) = {}
    BY DEF AttachInv, InHand
  <2> QED BY <2>1 DEF TracksAt, Attached
<1> QED BY <1>1, AttachAlways, PTL

\* REQ_destroy_1: before destroy_shm removes the key it has detached every
\* address of the list, so what is left is what a failed connect_shm forgot.
THEOREM DestroyDetaches ==
  Spec => [](\A p \in Procs : pc[p] = "shmctl" => Attached(p) = orphans[p])
<1>1. AttachInv => \A p \in Procs : pc[p] = "shmctl" => Attached(p) = orphans[p]
  <2> SUFFICES ASSUME AttachInv, NEW p \in Procs, pc[p] = "shmctl" PROVE Attached(p) = orphans[p]
    OBVIOUS
  <2>1. /\ TracksAt(p) /\ InHand(p) = {} /\ Node(p) # NULL /\ Node(p).attachments.head = NULL
    BY DEF AttachInv, PlaceAt, InHand, InDetach
  <2>2. Tracked(p) = {}
    BY <2>1, HeadOfList DEF TracksAt, Tracked
  <2> QED BY <2>1, <2>2 DEF TracksAt
<1> QED BY <1>1, AttachAlways, PTL
=============================================================================
