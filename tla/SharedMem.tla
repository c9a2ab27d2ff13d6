----------------------------- MODULE SharedMem -----------------------------
(***************************************************************************)
(* The shared memory library, src/src/lib/shmlib/shared_mem.c, in several  *)
(* processes that use one key.  A step is one system call on the segment   *)
(* or the semaphore with what the process does up to the next one.  The    *)
(* system keeps a segment until its key is removed and nobody is attached; *)
(* when a process ends it detaches it and applies its SEM_UNDO adjustments.*)
(***************************************************************************)
EXTENDS LinkedList

CONSTANTS
  Procs,        \* the processes
  SemUsers,     \* those that called use_semaphores(true)
  MaxIds,       \* bound on the segments, and on the semaphores, ever created
  MaxExits,     \* bound on processes that end, by a crash or not
  MaxFailures   \* bound on failures of shmget, shmat and semget

ASSUME SharedMemAssumption ==
  /\ SemUsers \subseteq Procs
  /\ NULL \notin 1 .. MaxIds
  /\ MaxIds \in Nat /\ MaxExits \in Nat /\ MaxFailures \in Nat

Addrs == Nodes         \* the addresses shmat may return
Ids == 1 .. MaxIds     \* shm_ids, and sem_ids
SHM_ERROR == -1

SegmentNode == [shm_id : Ids, lock_id : Ids \cup {SHM_ERROR}, attachments : List]

ASSUME NodeAssumption == NULL \notin SegmentNode

VARIABLES
  segment,     \* the shm_id that the key names, or NULL
  made,        \* how many segments and semaphores were created so far
  attached,    \* the shm_id at each address of each process, or NULL
  semaphore,   \* the sem_id that the key names, or NULL
  semval,      \* its value
  undo,        \* each process's adjustment of it
  SegmentNodes,   \* each process's SegmentNode for the key, or NULL
  pc, op, next, shm_id, lock_id,   \* where each process is, and its locals
  ret,         \* the address its last call returned, or NULL
  holding,     \* the sem_id that shm_lock locked for it, or NULL (history)
  orphans,     \* addresses of calls of connect_shm that failed later (history)
  hash,        \* the process has called new_hash (its SegmentNodes is not NULL)
  exits, failures

kernel == <<segment, made, attached, semaphore, semval, undo>>
rest == <<hash, exits, failures>>
locals == <<op, next, shm_id, lock_id>>
vars == <<kernel, SegmentNodes, pc, locals, ret, holding, orphans, rest>>

----------------------------------------------------------------------------
(* The system                                                               *)

AttachedTo(id) == {x \in Procs \X Addrs : attached[x[1]][x[2]] = id}

SegmentExists(id) == segment = id \/ AttachedTo(id) # {}

SemaphoreExists(id) == id # NULL /\ semaphore = id

\* An id that is gone gives EINVAL, or EIDRM if its place is used again.
PlaceUsedAgain == segment # NULL

\* mutant: the lock is taken without SEM_UNDO
SemopWithoutUndo(p, n) ==
  /\ semval' = semval + n
  /\ undo' = IF n < 0 THEN undo ELSE [undo EXCEPT ![p] = @ - n]

\* semop with SEM_UNDO
Semop(p, n) ==
  /\ semval' = semval + n
  /\ undo' = [undo EXCEPT ![p] = @ - n]

----------------------------------------------------------------------------
Node(p) == SegmentNodes[p]

\* find_key_for_address finds the key.
Tracked(p) == IF Node(p) = NULL THEN {} ELSE Elements(Node(p).attachments)

Goto(p, where) == pc' = [pc EXCEPT ![p] = where]

Return(p, r) ==
  /\ Goto(p, "idle")
  /\ ret' = [ret EXCEPT ![p] = r]
  /\ op' = [op EXCEPT ![p] = "none"]
  /\ next' = [next EXCEPT ![p] = NULL]
  /\ shm_id' = [shm_id EXCEPT ![p] = NULL]
  /\ lock_id' = [lock_id EXCEPT ![p] = NULL]

\* OK and ERROR are not told apart: neither program looks at them.  A process
\* calls the library when no call of its own is under way; while it
\* holds the lock it calls shm_unlock only.
Idle(p) == pc[p] = "idle" /\ holding[p] = NULL

\* The application calls connect_shm first, which makes the hash of segments:
\* before that the other calls read through NULL.  (So do the programs.)
MayUse(p) == Idle(p) /\ hash[p]

\* push_list_item, on the process's node
Track(p, node, a) ==
  SegmentNodes' = [SegmentNodes EXCEPT
                     ![p] = [node EXCEPT !.attachments = push_list_item(@, a)]]

\* mutant: lock_id is not set
NewNodeWithoutLock(id, lock) == [shm_id |-> id, lock_id |-> NULL, attachments |-> new_list]

NewNode(id, lock) == [shm_id |-> id, lock_id |-> lock, attachments |-> new_list]

----------------------------------------------------------------------------
(* connect_shm                                                              *)

\* The application connects again only if the latest address it detached was
\* the last of the list (or it detached all): else tail is wrong, and the push
\* loses addresses or writes through NULL.
MayConnect(p) == Node(p) # NULL => TailIsLast(Node(p).attachments, Walk(Node(p).attachments))

\* new_hash, if it is the first call, and shmget(IPC_CREAT)
Shmget(p) ==
  /\ Idle(p) /\ MayConnect(p)
  /\ \/ segment # NULL /\ UNCHANGED <<segment, made>>
     \/ /\ segment = NULL /\ made.segments < MaxIds
        /\ made' = [made EXCEPT !.segments = @ + 1]
        /\ segment' = made'.segments
  /\ shm_id' = [shm_id EXCEPT ![p] = segment']
  /\ Goto(p, "shmat")
  /\ hash' = [hash EXCEPT ![p] = TRUE]
  /\ UNCHANGED <<attached, semaphore, semval, undo, SegmentNodes, op, next, lock_id, ret, holding,
                 orphans, exits, failures>>

\* shmget fails: the system has no more segments.  The hash is made all the same.
ShmgetFails(p) ==
  /\ Idle(p)
  /\ IF segment # NULL \/ made.segments < MaxIds
     THEN failures < MaxFailures /\ failures' = failures + 1
     ELSE UNCHANGED failures
  /\ hash' = [hash EXCEPT ![p] = TRUE]
  /\ Return(p, NULL)
  /\ UNCHANGED <<kernel, SegmentNodes, holding, orphans, exits>>

\* shmat; a process that has a node for the key only notes the address.
Shmat(p) ==
  /\ pc[p] = "shmat"
  /\ SegmentExists(shm_id[p])
  /\ \E a \in Addrs :
       /\ attached[p][a] = NULL
       /\ attached' = [attached EXCEPT ![p][a] = shm_id[p]]
       /\ \/ Node(p) # NULL /\ Track(p, Node(p), a) /\ Return(p, a)
          \/ /\ Node(p) = NULL /\ p \notin SemUsers
             /\ Track(p, NewNode(shm_id[p], SHM_ERROR), a) /\ Return(p, a)
          \/ /\ Node(p) = NULL /\ p \in SemUsers
             /\ next' = [next EXCEPT ![p] = a]
             /\ Goto(p, "semget")
             /\ UNCHANGED <<op, shm_id, lock_id, ret, SegmentNodes>>
  /\ UNCHANGED <<segment, made, semaphore, semval, undo, holding, orphans, rest>>

\* shmat fails: another process destroyed the segment, or a limit is reached.
ShmatFails(p) ==
  /\ pc[p] = "shmat"
  /\ IF SegmentExists(shm_id[p]) /\ \E a \in Addrs : attached[p][a] = NULL
     THEN failures < MaxFailures /\ failures' = failures + 1
     ELSE UNCHANGED failures
  /\ Return(p, NULL)
  /\ UNCHANGED <<kernel, SegmentNodes, holding, orphans, hash, exits>>

\* semget(IPC_CREAT): a new semaphore has the value 0.
Semget(p) ==
  /\ pc[p] = "semget"
  /\ \/ semaphore # NULL /\ UNCHANGED <<semaphore, semval, made>>
     \/ /\ semaphore = NULL /\ made.semaphores < MaxIds
        /\ made' = [made EXCEPT !.semaphores = @ + 1]
        /\ semaphore' = made'.semaphores
        /\ semval' = 0
  /\ lock_id' = [lock_id EXCEPT ![p] = semaphore']
  /\ Goto(p, "semop")
  /\ UNCHANGED <<segment, attached, undo, SegmentNodes, op, next, shm_id, ret, holding, orphans,
                 rest>>

\* It fails, and the attachment is forgotten.
SemgetFails(p) ==
  /\ pc[p] = "semget"
  /\ IF semaphore # NULL \/ made.semaphores < MaxIds
     THEN failures < MaxFailures /\ failures' = failures + 1
     ELSE UNCHANGED failures
  /\ orphans' = [orphans EXCEPT ![p] = @ \cup {next[p]}]
  /\ Return(p, NULL)
  /\ UNCHANGED <<kernel, SegmentNodes, holding, hash, exits>>

\* The semaphore is raised, by every process; then node and address are noted.
Semup(p) ==
  /\ pc[p] = "semop"
  /\ IF SemaphoreExists(lock_id[p]) THEN Semop(p, 1) ELSE UNCHANGED <<semval, undo>>
  /\ Track(p, NewNode(shm_id[p], lock_id[p]), next[p])
  /\ Return(p, next[p])
  /\ UNCHANGED <<segment, made, attached, semaphore, holding, orphans, rest>>

----------------------------------------------------------------------------
(* detach_shm and destroy_shm                                               *)

\* mutant: the address stays in the list
DetachOnly(p, a) ==
  /\ attached' = [attached EXCEPT ![p][a] = NULL]
  /\ UNCHANGED SegmentNodes

\* shmdt and remove_list_item
Detach(p, a) ==
  /\ attached' = [attached EXCEPT ![p][a] = NULL]
  /\ SegmentNodes' = [SegmentNodes EXCEPT ![p].attachments = remove_list_item(@, a)]

Operation(p, o) == op' = [op EXCEPT ![p] = o]

\* destroy_shm_lock does nothing without semaphores.
ThenLock(p) == Goto(p, IF p \in SemUsers THEN "stat" ELSE "unlocked")

\* detach_shm: an address that the process does not track is an error.
DetachShm(p, a) ==
  /\ MayUse(p)
  /\ \/ /\ a \notin Tracked(p)
        /\ Return(p, NULL)
        /\ UNCHANGED <<kernel, SegmentNodes>>
     \/ /\ a \in Tracked(p)
        /\ Detach(p, a)
        /\ Operation(p, "detach")
        /\ ThenLock(p)
        /\ UNCHANGED <<segment, made, semaphore, semval, undo, next, shm_id, lock_id, ret>>
  /\ UNCHANGED <<holding, orphans, rest>>

\* destroy_shm: a loop over the list, then destroy_shm_lock once more
DestroyShm(p) ==
  /\ MayUse(p)
  /\ \/ Node(p) = NULL /\ Return(p, NULL)
     \/ /\ Node(p) # NULL
        /\ next' = [next EXCEPT ![p] = Node(p).attachments.head]
        /\ Operation(p, "destroy")
        /\ Goto(p, "loop")
        /\ UNCHANGED <<shm_id, lock_id, ret>>
  /\ UNCHANGED <<kernel, SegmentNodes, holding, orphans, rest>>

\* detach_shm(cur->value); cur = next, which was read before
Loop(p) ==
  /\ pc[p] = "loop"
  /\ next[p] # NULL
  /\ Detach(p, next[p])
  /\ next' = [next EXCEPT ![p] = Node(p).attachments.next[next[p]]]
  /\ ThenLock(p)
  /\ UNCHANGED <<segment, made, semaphore, semval, undo, op, shm_id, lock_id, ret, holding, orphans,
                 rest>>

LoopEnds(p) ==
  /\ pc[p] = "loop"
  /\ next[p] = NULL
  /\ Operation(p, "last")
  /\ ThenLock(p)
  /\ UNCHANGED <<kernel, SegmentNodes, next, shm_id, lock_id, ret, holding, orphans, rest>>

\* destroy_shm_lock: the lock is removed only if nobody is attached (nattch).
Stat(p) ==
  /\ pc[p] = "stat"
  /\ \/ AttachedTo(Node(p).shm_id) = {} /\ Goto(p, "semctl")
     \/ AttachedTo(Node(p).shm_id) # {} /\ Goto(p, "unlocked")
     \/ ~SegmentExists(Node(p).shm_id) /\ PlaceUsedAgain /\ Goto(p, "unlocked")
  /\ UNCHANGED <<kernel, SegmentNodes, locals, ret, holding, orphans, rest>>

\* semctl(IPC_RMID)
Semctl(p) ==
  /\ pc[p] = "semctl"
  /\ IF SemaphoreExists(Node(p).lock_id)
     THEN semaphore' = NULL /\ semval' = 0 /\ undo' = [q \in Procs |-> 0]
     ELSE UNCHANGED <<semaphore, semval, undo>>
  /\ Goto(p, "unlocked")
  /\ UNCHANGED <<segment, made, attached, SegmentNodes, locals, ret, holding, orphans, rest>>

\* The return from destroy_shm_lock
Unlocked(p) ==
  /\ pc[p] = "unlocked"
  /\ \/ op[p] = "detach" /\ Return(p, NULL)
     \/ op[p] = "destroy" /\ Goto(p, "loop") /\ UNCHANGED <<locals, ret>>
     \/ op[p] = "last" /\ Goto(p, "shmctl") /\ UNCHANGED <<locals, ret>>
  /\ UNCHANGED <<kernel, SegmentNodes, holding, orphans, rest>>

\* mutant: the segment is not deleted
ShmctlLeaves(p) ==
  /\ pc[p] = "shmctl"
  /\ SegmentNodes' = [SegmentNodes EXCEPT ![p] = NULL]
  /\ Return(p, NULL)
  /\ UNCHANGED <<kernel, holding, orphans, rest>>

\* shmctl(IPC_RMID): the node is deleted unless the error is another than EINVAL.
Shmctl(p) ==
  LET id == Node(p).shm_id
      forget == SegmentNodes' = [SegmentNodes EXCEPT ![p] = NULL]
  IN
  /\ pc[p] = "shmctl"
  /\ forget \/ (~SegmentExists(id) /\ PlaceUsedAgain /\ UNCHANGED SegmentNodes)
  /\ Return(p, NULL)
  /\ segment' = IF segment = id THEN NULL ELSE segment
  /\ UNCHANGED <<made, attached, semaphore, semval, undo, holding, orphans, rest>>

----------------------------------------------------------------------------
(* shm_lock and shm_unlock, of processes that use semaphores                *)

ShmLock(p) ==
  /\ MayUse(p) /\ p \in SemUsers
  /\ \/ Node(p) = NULL /\ Return(p, NULL)
     \/ Node(p) # NULL /\ Goto(p, "lock") /\ UNCHANGED <<locals, ret>>
  /\ UNCHANGED <<kernel, SegmentNodes, holding, orphans, rest>>

Lock(p) ==
  /\ pc[p] = "lock"
  /\ SemaphoreExists(Node(p).lock_id) /\ semval > 0
  /\ Semop(p, -1)
  /\ holding' = [holding EXCEPT ![p] = semaphore]
  /\ Return(p, NULL)
  /\ UNCHANGED <<segment, made, attached, semaphore, SegmentNodes, orphans, rest>>

\* The semaphore is gone.
LockIsGone(p) ==
  /\ pc[p] = "lock"
  /\ ~SemaphoreExists(Node(p).lock_id)
  /\ Return(p, NULL)
  /\ UNCHANGED <<kernel, SegmentNodes, holding, orphans, rest>>

ShmUnlock(p) ==
  /\ pc[p] = "idle" /\ holding[p] # NULL
  /\ holding' = [holding EXCEPT ![p] = NULL]
  /\ \/ SemaphoreExists(Node(p).lock_id) /\ Semop(p, 1) /\ Return(p, NULL)
     \/ ~SemaphoreExists(Node(p).lock_id) /\ UNCHANGED <<semval, undo>> /\ Return(p, NULL)
  /\ UNCHANGED <<segment, made, attached, semaphore, SegmentNodes, orphans, rest>>

----------------------------------------------------------------------------
\* Process p ends, wherever it is; another takes its place.
Exit(p) ==
  /\ exits < MaxExits
  /\ exits' = exits + 1
  /\ attached' = [attached EXCEPT ![p] = [a \in Addrs |-> NULL]]
  /\ semval' = IF semval + undo[p] < 0 THEN 0 ELSE semval + undo[p]
  /\ undo' = [undo EXCEPT ![p] = 0]
  /\ SegmentNodes' = [SegmentNodes EXCEPT ![p] = NULL]
  /\ holding' = [holding EXCEPT ![p] = NULL]
  /\ orphans' = [orphans EXCEPT ![p] = {}]
  /\ op' = [op EXCEPT ![p] = "none"]
  /\ next' = [next EXCEPT ![p] = NULL]
  /\ shm_id' = [shm_id EXCEPT ![p] = NULL]
  /\ lock_id' = [lock_id EXCEPT ![p] = NULL]
  /\ ret' = [ret EXCEPT ![p] = NULL]
  /\ hash' = [hash EXCEPT ![p] = FALSE]
  /\ Goto(p, "idle")
  /\ UNCHANGED <<segment, made, semaphore, failures>>

Init ==
  /\ segment = NULL
  /\ made = [segments |-> 0, semaphores |-> 0]
  /\ attached = [p \in Procs |-> [a \in Addrs |-> NULL]]
  /\ semaphore = NULL
  /\ semval = 0
  /\ undo = [p \in Procs |-> 0]
  /\ SegmentNodes = [p \in Procs |-> NULL]
  /\ pc = [p \in Procs |-> "idle"]
  /\ op = [p \in Procs |-> "none"]
  /\ next = [p \in Procs |-> NULL]
  /\ shm_id = [p \in Procs |-> NULL]
  /\ lock_id = [p \in Procs |-> NULL]
  /\ ret = [p \in Procs |-> NULL]
  /\ holding = [p \in Procs |-> NULL]
  /\ orphans = [p \in Procs |-> {}]
  /\ hash = [p \in Procs |-> FALSE]
  /\ exits = 0
  /\ failures = 0

\* What process p does inside a call
Inside(p) ==
  \/ Shmat(p) \/ ShmatFails(p) \/ Semget(p) \/ SemgetFails(p) \/ Semup(p)
  \/ Loop(p) \/ LoopEnds(p) \/ Stat(p) \/ Semctl(p) \/ Unlocked(p) \/ Shmctl(p)
  \/ Lock(p) \/ LockIsGone(p)

Calls(p) ==
  \/ Shmget(p) \/ ShmgetFails(p) \/ DestroyShm(p) \/ ShmLock(p) \/ ShmUnlock(p)
  \/ \E a \in Addrs : DetachShm(p, a)

Next == \E p \in Procs : Inside(p) \/ Calls(p) \/ Exit(p)

Spec == Init /\ [][Next]_vars

----------------------------------------------------------------------------
(* Properties                                                               *)

\* The values the variables take.
TypeOK ==
  /\ segment \in Ids \cup {NULL} /\ semaphore \in Ids \cup {NULL}
  /\ made \in [segments : 0 .. MaxIds, semaphores : 0 .. MaxIds]
  /\ attached \in [Procs -> [Addrs -> Ids \cup {NULL}]]
  /\ semval \in Nat /\ undo \in [Procs -> Int]
  /\ \A p \in Procs : Node(p) = NULL \/ Node(p) \in SegmentNode
  /\ pc \in [Procs -> {"idle", "shmat", "semget", "semop", "loop", "stat", "semctl", "unlocked",
                       "shmctl", "lock"}]
  /\ op \in [Procs -> {"none", "detach", "destroy", "last"}]
  /\ next \in [Procs -> Pointer]
  /\ shm_id \in [Procs -> Ids \cup {NULL}] /\ lock_id \in [Procs -> Ids \cup {NULL}]
  /\ ret \in [Procs -> Pointer]
  /\ holding \in [Procs -> Ids \cup {NULL}]
  /\ orphans \in [Procs -> SUBSET Addrs]
  /\ hash \in [Procs -> BOOLEAN]
  /\ exits \in 0 .. MaxExits /\ failures \in 0 .. MaxFailures

\* Between calls, connect_shm's list names exactly the addresses at which the
\* process is attached, but for those of a connect_shm whose semget failed: so
\* detach_shm accepts each of them, and destroy_shm (REQ_destroy_1) leaves none.
AttachedIsTracked ==
  \A p \in Procs : pc[p] = "idle" =>
    {a \in Addrs : attached[p][a] # NULL} = Tracked(p) \cup orphans[p]

\* shm_lock never waits.  Every process raised the semaphore by one when it
\* connected, and SEM_UNDO takes that back, and a lock it still holds, when it
\* ends: so a crash with the lock held blocks nobody.
LockNeverWaits ==
  \A p \in Procs : pc[p] = "lock" /\ SemaphoreExists(Node(p).lock_id) => semval > 0

----------------------------------------------------------------------------
(* What shared_mem.h says of the lock and the code does not keep            *)

\* "lock the systemV semaphore": one process at a time holds the lock.
Exclusion ==
  \A p, q \in Procs : holding[p] # NULL /\ holding[q] = holding[p] => p = q
=============================================================================
