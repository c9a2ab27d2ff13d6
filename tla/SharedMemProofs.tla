--------------------------- MODULE SharedMemProofs ---------------------------
(***************************************************************************)
(* shm_lock never waits, whatever the number of processes, of crashes and  *)
(* of times the segment and its semaphore are destroyed and made again.    *)
(* The invariant behind it is that the semaphore's value is what the       *)
(* processes raised it by and SEM_UNDO has still to take back.             *)
(***************************************************************************)
EXTENDS SharedMem, FiniteSetTheorems, TLAPS

\* One element for each time that a process raised the semaphore and did not
\* lower it since, given the adjustments u
Raises(u) == UNION {{p} \X (1 .. -u[p]) : p \in Procs}

HasNode(p) ==
  /\ "lock_id" \in DOMAIN Node(p)
  /\ Node(p).lock_id \in (1 .. made.semaphores) \cup {SHM_ERROR}

\* Inside detach_shm or destroy_shm, where the node stays until shmctl
Detaching(p) == pc[p] \in {"loop", "stat", "semctl", "unlocked", "shmctl"}

Shapes ==
  /\ made \in [segments : 0 .. MaxIds, semaphores : 0 .. MaxIds]
  /\ semaphore \in (1 .. made.semaphores) \cup {NULL}
  /\ undo \in [Procs -> Int]
  /\ DOMAIN SegmentNodes = Procs /\ DOMAIN pc = Procs
  /\ DOMAIN lock_id = Procs /\ DOMAIN holding = Procs

\* What each process's place in its call says of its locals and its node
Places ==
  \A p \in Procs :
    /\ Node(p) = NULL \/ HasNode(p)
    /\ pc[p] = "semop" => lock_id[p] \in 1 .. made.semaphores
    /\ Detaching(p) => HasNode(p)
    /\ pc[p] = "lock" => Node(p) # NULL
    /\ pc[p] # "idle" => holding[p] = NULL

\* A process that knows the semaphore and does not hold the lock has raised it.
Raised ==
  /\ \A p \in Procs : undo[p] <= 0
  /\ semaphore = NULL => \A p \in Procs : undo[p] = 0
  /\ \A p \in Procs :
       /\ Node(p) # NULL \/ Detaching(p)
       /\ SemaphoreExists(Node(p).lock_id) /\ holding[p] = NULL
       => undo[p] < 0

Balance == IsFiniteSet(Raises(undo)) /\ semval = Cardinality(Raises(undo))

LockInv == Shapes /\ Places /\ Raised /\ Balance

----------------------------------------------------------------------------
LEMMA InRaises ==
  ASSUME NEW u, NEW p \in Procs, NEW k
  PROVE  <<p, k>> \in Raises(u) <=> k \in 1 .. -u[p]
BY DEF Raises

LEMMA OfRaises ==
  ASSUME NEW u, NEW x \in Raises(u)
  PROVE  \E p \in Procs, k \in Int : x = <<p, k>> /\ k \in 1 .. -u[p]
BY DEF Raises

\* A semop of +1 adds one raise; one of -1 is the same step backwards.
LEMMA OneMore ==
  ASSUME NEW u \in [Procs -> Int], NEW p \in Procs, u[p] <= 0,
         NEW w \in [Procs -> Int], w = [u EXCEPT ![p] = u[p] - 1]
  PROVE  /\ Raises(w) = Raises(u) \cup {<<p, 1 - u[p]>>}
         /\ <<p, 1 - u[p]>> \notin Raises(u)
<1>1. <<p, 1 - u[p]>> \notin Raises(u) /\ <<p, 1 - u[p]>> \in Raises(w)
  <2>1. u[p] \in Int /\ w[p] = u[p] - 1
    OBVIOUS
  <2>2. 1 - u[p] \notin 1 .. -u[p] /\ 1 - u[p] \in 1 .. -w[p]
    BY <2>1
  <2> QED BY <2>2, InRaises
<1>2. ASSUME NEW x \in Raises(w)
      PROVE  x \in Raises(u) \cup {<<p, 1 - u[p]>>}
  <2>1. PICK q \in Procs, k \in Int : x = <<q, k>> /\ k \in 1 .. -w[q]
    BY <1>2, OfRaises
  <2>2. CASE q = p /\ k = 1 - u[p]
    BY <2>1, <2>2
  <2>3. CASE ~(q = p /\ k = 1 - u[p])
    <3>1. k \in 1 .. -u[q]
      BY <2>1, <2>3
    <3> QED BY <2>1, <3>1, InRaises
  <2> QED BY <2>2, <2>3
<1>3. ASSUME NEW x \in Raises(u)
      PROVE  x \in Raises(w)
  <2>1. PICK q \in Procs, k \in Int : x = <<q, k>> /\ k \in 1 .. -u[q]
    BY <1>3, OfRaises
  <2>2. k \in 1 .. -w[q]
    BY <2>1
  <2> QED BY <2>1, <2>2, InRaises
<1> QED BY <1>1, <1>2, <1>3

\* What SEM_UNDO takes back when p ends is its own raises.
LEMMA NoneLeft ==
  ASSUME NEW u \in [Procs -> Int], NEW p \in Procs, u[p] <= 0, IsFiniteSet(Raises(u))
  PROVE  /\ IsFiniteSet(Raises([u EXCEPT ![p] = 0]))
         /\ Cardinality(Raises([u EXCEPT ![p] = 0])) = Cardinality(Raises(u)) + u[p]
         /\ Cardinality(Raises([u EXCEPT ![p] = 0])) \in Nat
<1> DEFINE w == [u EXCEPT ![p] = 0]
           own == {p} \X (1 .. -u[p])
<1>1. w \in [Procs -> Int] /\ w[p] = 0 /\ \A q \in Procs : q # p => w[q] = u[q]
  OBVIOUS
<1> HIDE DEF w
<1>2. /\ IsFiniteSet({p}) /\ Cardinality({p}) = 1
      /\ IsFiniteSet(1 .. -u[p]) /\ Cardinality(1 .. -u[p]) = -u[p]
  <2>1. -u[p] \in Int /\ 1 \in Int /\ u[p] \in Int
    OBVIOUS
  <2>2. /\ IsFiniteSet(1 .. -u[p])
        /\ Cardinality(1 .. -u[p]) = IF 1 > -u[p] THEN 0 ELSE -u[p] - 1 + 1
    BY ONLY <2>1, FS_Interval
  <2>3. Cardinality(1 .. -u[p]) = -u[p]
    BY <2>1, <2>2
  <2> QED BY <2>2, <2>3, FS_Singleton
<1>3. IsFiniteSet(own) /\ Cardinality(own) = -u[p]
  <2>1. IsFiniteSet(own) /\ Cardinality(own) = Cardinality({p}) * Cardinality(1 .. -u[p])
    BY <1>2, FS_Product
  <2> QED BY <1>2, <2>1
<1>4. Raises(u) = Raises(w) \cup own /\ Raises(w) \cap own = {}
  <2>1. ASSUME NEW x \in Raises(u) PROVE x \in Raises(w) \cup own
    <3>1. PICK q \in Procs, k \in Int : x = <<q, k>> /\ k \in 1 .. -u[q]
      BY <2>1, OfRaises
    <3>2. q # p => k \in 1 .. -w[q]
      BY <1>1, <3>1
    <3> QED BY <3>1, <3>2, InRaises
  <2>2. ASSUME NEW x \in Raises(w) PROVE x \in Raises(u) /\ x \notin own
    <3>1. PICK q \in Procs, k \in Int : x = <<q, k>> /\ k \in 1 .. -w[q]
      BY <2>2, OfRaises
    <3>2. q # p /\ k \in 1 .. -u[q]
      BY <1>1, <3>1
    <3> QED BY <3>1, <3>2, InRaises
  <2>3. ASSUME NEW x \in own PROVE x \in Raises(u)
    <3>1. PICK k \in 1 .. -u[p] : x = <<p, k>>
      BY <2>3
    <3> QED BY <3>1, InRaises
  <2> QED BY <2>1, <2>2, <2>3
<1>5. IsFiniteSet(Raises(w))
  BY <1>4, FS_Subset
<1>6. Cardinality(Raises(u)) = Cardinality(Raises(w)) + Cardinality(own) - Cardinality({})
  BY <1>3, <1>4, <1>5, FS_Union
<1>7. Cardinality(Raises(w)) \in Nat
  BY <1>5, FS_CardinalityType
<1> QED BY <1>3, <1>5, <1>6, <1>7, FS_EmptySet DEF w

LEMMA NoRaises ==
  ASSUME NEW u, \A p \in Procs : u[p] = 0
  PROVE  IsFiniteSet(Raises(u)) /\ Cardinality(Raises(u)) = 0
<1>1. Raises(u) = {}
  <2>1. ASSUME NEW x \in Raises(u) PROVE FALSE
    <3>1. PICK q \in Procs, k \in Int : x = <<q, k>> /\ k \in 1 .. -u[q]
      BY <2>1, OfRaises
    <3> QED BY <3>1
  <2> QED BY <2>1
<1> QED BY <1>1, FS_EmptySet

\* Semop keeps the balance: raising, and lowering by a process that has raised.
LEMMA SemopBalances ==
  ASSUME LockInv, NEW p \in Procs, NEW n \in {1, -1}, n = -1 => undo[p] < 0, Semop(p, n)
  PROVE  Balance' /\ undo' = [undo EXCEPT ![p] = undo[p] - n] /\ undo' \in [Procs -> Int]
<1>1. /\ undo \in [Procs -> Int] /\ undo[p] \in Int /\ undo[p] <= 0
      /\ IsFiniteSet(Raises(undo)) /\ semval = Cardinality(Raises(undo)) /\ semval \in Nat
  BY FS_CardinalityType DEF LockInv, Shapes, Raised, Balance
<1>2. semval' = semval + n /\ undo' = [undo EXCEPT ![p] = undo[p] - n] /\ undo' \in [Procs -> Int]
  BY <1>1 DEF Semop
<1>3. CASE n = 1
  <2>1. /\ Raises(undo') = Raises(undo) \cup {<<p, 1 - undo[p]>>}
        /\ <<p, 1 - undo[p]>> \notin Raises(undo)
    BY <1>1, <1>2, <1>3, OneMore
  <2>2. IsFiniteSet(Raises(undo')) /\ Cardinality(Raises(undo')) = Cardinality(Raises(undo)) + 1
    BY <1>1, <2>1, FS_AddElement
  <2>3. Balance'
    BY <1>1, <1>2, <1>3, <2>2 DEF Balance, Raises
  <2> QED BY <1>2, <2>3
<1>4. CASE n = -1
  <2>0. undo'[p] = undo[p] + 1 /\ undo[p] < 0
    BY <1>1, <1>2, <1>4
  <2>1. undo = [undo' EXCEPT ![p] = undo'[p] - 1] /\ undo'[p] <= 0
    <3>1. undo'[p] - 1 = undo[p] /\ undo'[p] <= 0
      BY <1>1, <2>0
    <3>2. undo = [undo' EXCEPT ![p] = undo[p]]
      BY <1>1, <1>2
    <3> QED BY <3>1, <3>2
  <2>2. /\ Raises(undo) = Raises(undo') \cup {<<p, 1 - undo'[p]>>}
        /\ <<p, 1 - undo'[p]>> \notin Raises(undo')
    BY <1>1, <1>2, <2>1, OneMore
  <2>3. IsFiniteSet(Raises(undo'))
    BY <1>1, <2>2, FS_Subset
  <2>4. /\ Cardinality(Raises(undo)) = Cardinality(Raises(undo')) + 1
        /\ Cardinality(Raises(undo')) \in Nat
    BY <2>2, <2>3, FS_AddElement, FS_CardinalityType
  <2>5. Balance'
    BY <1>1, <1>2, <1>4, <2>3, <2>4 DEF Balance, Raises
  <2> QED BY <1>2, <2>5
<1> QED BY <1>3, <1>4

----------------------------------------------------------------------------
LEMMA LockInvInit == Init => LockInv
<1> SUFFICES ASSUME Init PROVE LockInv
  OBVIOUS
<1>1. Shapes /\ Places /\ Raised
  BY SharedMemAssumption DEF Init, Shapes, Places, Raised, Detaching, SemaphoreExists, Node
<1>2. Balance
  BY NoRaises DEF Init, Balance
<1> QED BY <1>1, <1>2 DEF LockInv

\* The steps that leave the semaphore, and what was raised, alone
LEMMA QuietStep ==
  ASSUME LockInv, NEW p \in Procs, UNCHANGED <<semaphore, semval, undo>>,
         Shapes', Places',
         Raised'
  PROVE  LockInv'
BY DEF LockInv, Balance, Raises

LEMMA ShmatStep ==
  ASSUME LockInv, NEW p \in Procs, Shmat(p)
  PROVE  LockInv'
<1>1. Shapes'
  BY DEF LockInv, Shapes, Shmat, Track, NewNode, Return, Goto, kernel, locals, rest
<1>2. Places'
  BY DEF LockInv, Shapes, Places, HasNode, Detaching, Node, Shmat, Track, NewNode, Return, Goto, kernel, locals, rest
<1>3. Raised'
  BY SharedMemAssumption
     DEF LockInv, Shapes, Places, Raised, HasNode, Detaching, SemaphoreExists, Node, SHM_ERROR, Shmat, Track, NewNode, Return, Goto, kernel, locals, rest
<1>4. UNCHANGED <<semaphore, semval, undo>>
  BY DEF Shmat, kernel
<1> QED BY <1>1, <1>2, <1>3, <1>4, QuietStep

LEMMA ShmatFailsStep ==
  ASSUME LockInv, NEW p \in Procs, ShmatFails(p)
  PROVE  LockInv'
<1>1. Shapes'
  BY DEF LockInv, Shapes, ShmatFails, Return, Goto, kernel, locals, rest
<1>2. Places'
  BY DEF LockInv, Shapes, Places, HasNode, Detaching, Node, ShmatFails, Return, Goto, kernel, locals, rest
<1>3. Raised'
  BY SharedMemAssumption
     DEF LockInv, Shapes, Places, Raised, HasNode, Detaching, SemaphoreExists, Node, SHM_ERROR, ShmatFails, Return, Goto, kernel, locals, rest
<1>4. UNCHANGED <<semaphore, semval, undo>>
  BY DEF ShmatFails, kernel
<1> QED BY <1>1, <1>2, <1>3, <1>4, QuietStep

LEMMA SemgetFailsStep ==
  ASSUME LockInv, NEW p \in Procs, SemgetFails(p)
  PROVE  LockInv'
<1>1. Shapes'
  BY DEF LockInv, Shapes, SemgetFails, Return, Goto, kernel, locals, rest
<1>2. Places'
  BY DEF LockInv, Shapes, Places, HasNode, Detaching, Node, SemgetFails, Return, Goto, kernel, locals, rest
<1>3. Raised'
  BY SharedMemAssumption
     DEF LockInv, Shapes, Places, Raised, HasNode, Detaching, SemaphoreExists, Node, SHM_ERROR, SemgetFails, Return, Goto, kernel, locals, rest
<1>4. UNCHANGED <<semaphore, semval, undo>>
  BY DEF SemgetFails, kernel
<1> QED BY <1>1, <1>2, <1>3, <1>4, QuietStep

LEMMA LoopStep ==
  ASSUME LockInv, NEW p \in Procs, Loop(p)
  PROVE  LockInv'
<1>1. Shapes'
  BY DEF LockInv, Shapes, Loop, Detach, ThenLock, Goto, kernel, locals, rest
<1>2. Places'
  BY DEF LockInv, Shapes, Places, HasNode, Detaching, Node, Loop, Detach, ThenLock, Goto, kernel, locals, rest
<1>3. Raised'
  BY SharedMemAssumption
     DEF LockInv, Shapes, Places, Raised, HasNode, Detaching, SemaphoreExists, Node, SHM_ERROR, Loop, Detach, ThenLock, Goto, kernel, locals, rest
<1>4. UNCHANGED <<semaphore, semval, undo>>
  BY DEF Loop, kernel
<1> QED BY <1>1, <1>2, <1>3, <1>4, QuietStep

LEMMA LoopEndsStep ==
  ASSUME LockInv, NEW p \in Procs, LoopEnds(p)
  PROVE  LockInv'
<1>1. Shapes'
  BY DEF LockInv, Shapes, LoopEnds, Operation, ThenLock, Goto, kernel, locals, rest
<1>2. Places'
  BY DEF LockInv, Shapes, Places, HasNode, Detaching, Node, LoopEnds, Operation, ThenLock, Goto, kernel, locals, rest
<1>3. Raised'
  BY SharedMemAssumption
     DEF LockInv, Shapes, Places, Raised, HasNode, Detaching, SemaphoreExists, Node, SHM_ERROR, LoopEnds, Operation, ThenLock, Goto, kernel, locals, rest
<1>4. UNCHANGED <<semaphore, semval, undo>>
  BY DEF LoopEnds, kernel
<1> QED BY <1>1, <1>2, <1>3, <1>4, QuietStep

LEMMA StatStep ==
  ASSUME LockInv, NEW p \in Procs, Stat(p)
  PROVE  LockInv'
<1>1. Shapes'
  BY DEF LockInv, Shapes, Stat, Goto, kernel, locals, rest
<1>2. Places'
  BY DEF LockInv, Shapes, Places, HasNode, Detaching, Node, Stat, Goto, kernel, locals, rest
<1>3. Raised'
  BY SharedMemAssumption
     DEF LockInv, Shapes, Places, Raised, HasNode, Detaching, SemaphoreExists, Node, SHM_ERROR, Stat, Goto, kernel, locals, rest
<1>4. UNCHANGED <<semaphore, semval, undo>>
  BY DEF Stat, kernel
<1> QED BY <1>1, <1>2, <1>3, <1>4, QuietStep

LEMMA UnlockedStep ==
  ASSUME LockInv, NEW p \in Procs, Unlocked(p)
  PROVE  LockInv'
<1>1. Shapes'
  BY DEF LockInv, Shapes, Unlocked, Return, Goto, kernel, locals, rest
<1>2. Places'
  BY DEF LockInv, Shapes, Places, HasNode, Detaching, Node, Unlocked, Return, Goto, kernel, locals, rest
<1>3. Raised'
  BY SharedMemAssumption
     DEF LockInv, Shapes, Places, Raised, HasNode, Detaching, SemaphoreExists, Node, SHM_ERROR, Unlocked, Return, Goto, kernel, locals, rest
<1>4. UNCHANGED <<semaphore, semval, undo>>
  BY DEF Unlocked, kernel
<1> QED BY <1>1, <1>2, <1>3, <1>4, QuietStep

LEMMA ShmctlStep ==
  ASSUME LockInv, NEW p \in Procs, Shmctl(p)
  PROVE  LockInv'
<1>1. Shapes'
  BY DEF LockInv, Shapes, Shmctl, Return, Goto, kernel, locals, rest
<1>2. Places'
  BY DEF LockInv, Shapes, Places, HasNode, Detaching, Node, Shmctl, Return, Goto, kernel, locals, rest
<1>3. Raised'
  BY SharedMemAssumption
     DEF LockInv, Shapes, Places, Raised, HasNode, Detaching, SemaphoreExists, Node, SHM_ERROR, Shmctl, Return, Goto, kernel, locals, rest
<1>4. UNCHANGED <<semaphore, semval, undo>>
  BY DEF Shmctl, kernel
<1> QED BY <1>1, <1>2, <1>3, <1>4, QuietStep

LEMMA LockIsGoneStep ==
  ASSUME LockInv, NEW p \in Procs, LockIsGone(p)
  PROVE  LockInv'
<1>1. Shapes'
  BY DEF LockInv, Shapes, LockIsGone, Return, Goto, kernel, locals, rest
<1>2. Places'
  BY DEF LockInv, Shapes, Places, HasNode, Detaching, Node, LockIsGone, Return, Goto, kernel, locals, rest
<1>3. Raised'
  BY SharedMemAssumption
     DEF LockInv, Shapes, Places, Raised, HasNode, Detaching, SemaphoreExists, Node, SHM_ERROR, LockIsGone, Return, Goto, kernel, locals, rest
<1>4. UNCHANGED <<semaphore, semval, undo>>
  BY DEF LockIsGone, kernel
<1> QED BY <1>1, <1>2, <1>3, <1>4, QuietStep

LEMMA ShmgetStep ==
  ASSUME LockInv, NEW p \in Procs, Shmget(p)
  PROVE  LockInv'
<1>1. Shapes'
  <2>1. /\ made' \in [segments : 0 .. MaxIds, semaphores : 0 .. MaxIds]
        /\ made'.semaphores = made.semaphores
    BY SharedMemAssumption DEF LockInv, Shapes, Shmget
  <2> QED BY <2>1 DEF LockInv, Shapes, Shmget, Idle, Goto, kernel, locals, rest
<1>2. Places'
  BY DEF LockInv, Shapes, Places, HasNode, Detaching, Node, Shmget, Idle, Goto, kernel, locals, rest
<1>3. Raised'
  BY SharedMemAssumption
     DEF LockInv, Shapes, Places, Raised, HasNode, Detaching, SemaphoreExists, Node, SHM_ERROR, Shmget, Idle, Goto, kernel, locals, rest
<1>4. UNCHANGED <<semaphore, semval, undo>>
  BY DEF Shmget, kernel
<1> QED BY <1>1, <1>2, <1>3, <1>4, QuietStep

LEMMA ShmgetFailsStep ==
  ASSUME LockInv, NEW p \in Procs, ShmgetFails(p)
  PROVE  LockInv'
<1>1. Shapes'
  BY DEF LockInv, Shapes, ShmgetFails, Idle, Return, Goto, kernel, locals, rest
<1>2. Places'
  BY DEF LockInv, Shapes, Places, HasNode, Detaching, Node, ShmgetFails, Idle, Return, Goto, kernel, locals, rest
<1>3. Raised'
  BY SharedMemAssumption
     DEF LockInv, Shapes, Places, Raised, HasNode, Detaching, SemaphoreExists, Node, SHM_ERROR, ShmgetFails, Idle, Return, Goto, kernel, locals, rest
<1>4. UNCHANGED <<semaphore, semval, undo>>
  BY DEF ShmgetFails, kernel
<1> QED BY <1>1, <1>2, <1>3, <1>4, QuietStep

LEMMA DestroyShmStep ==
  ASSUME LockInv, NEW p \in Procs, DestroyShm(p)
  PROVE  LockInv'
<1>1. Shapes'
  BY DEF LockInv, Shapes, DestroyShm, MayUse, Idle, Operation, Return, Goto, kernel, locals, rest
<1>2. Places'
  BY DEF LockInv, Shapes, Places, HasNode, Detaching, Node, DestroyShm, MayUse, Idle, Operation, Return, Goto, kernel, locals, rest
<1>3. Raised'
  BY SharedMemAssumption
     DEF LockInv, Shapes, Places, Raised, HasNode, Detaching, SemaphoreExists, Node, SHM_ERROR, DestroyShm, MayUse, Idle, Operation, Return, Goto, kernel, locals, rest
<1>4. UNCHANGED <<semaphore, semval, undo>>
  BY DEF DestroyShm, kernel
<1> QED BY <1>1, <1>2, <1>3, <1>4, QuietStep

LEMMA ShmLockStep ==
  ASSUME LockInv, NEW p \in Procs, ShmLock(p)
  PROVE  LockInv'
<1>1. Shapes'
  BY DEF LockInv, Shapes, ShmLock, MayUse, Idle, Return, Goto, kernel, locals, rest
<1>2. Places'
  BY DEF LockInv, Shapes, Places, HasNode, Detaching, Node, ShmLock, MayUse, Idle, Return, Goto, kernel, locals, rest
<1>3. Raised'
  BY SharedMemAssumption
     DEF LockInv, Shapes, Places, Raised, HasNode, Detaching, SemaphoreExists, Node, SHM_ERROR, ShmLock, MayUse, Idle, Return, Goto, kernel, locals, rest
<1>4. UNCHANGED <<semaphore, semval, undo>>
  BY DEF ShmLock, kernel
<1> QED BY <1>1, <1>2, <1>3, <1>4, QuietStep

LEMMA DetachShmStep ==
  ASSUME LockInv, NEW p \in Procs, NEW a \in Addrs, DetachShm(p, a)
  PROVE  LockInv'
<1>1. Shapes'
  BY DEF LockInv, Shapes, DetachShm, MayUse, Idle, Tracked, Detach, Operation, ThenLock, Return, Goto, kernel, locals, rest
<1>2. Places'
  BY DEF LockInv, Shapes, Places, HasNode, Detaching, Node, DetachShm, MayUse, Idle, Tracked, Detach, Operation, ThenLock, Return, Goto, kernel, locals, rest
<1>3. Raised'
  BY SharedMemAssumption
     DEF LockInv, Shapes, Places, Raised, HasNode, Detaching, SemaphoreExists, Node, SHM_ERROR, DetachShm, MayUse, Idle, Tracked, Detach, Operation, ThenLock, Return, Goto, kernel, locals, rest
<1>4. UNCHANGED <<semaphore, semval, undo>>
  BY DEF DetachShm, kernel
<1> QED BY <1>1, <1>2, <1>3, <1>4, QuietStep

\* A new semaphore is nobody's: its id is greater than every id a node has.
LEMMA SemgetStep ==
  ASSUME LockInv, NEW p \in Procs, Semget(p)
  PROVE  LockInv'
<1>1. CASE UNCHANGED <<semaphore, semval, made>> /\ semaphore # NULL
  <2>1. Shapes' /\ Places' /\ Raised'
    BY <1>1, SharedMemAssumption
       DEF LockInv, Shapes, Places, Raised, HasNode, Detaching, SemaphoreExists, Node, SHM_ERROR, Semget, Goto, rest
  <2> QED BY <1>1, <2>1, QuietStep DEF Semget
<1>2. CASE /\ semaphore = NULL /\ made.semaphores < MaxIds /\ semval' = 0
           /\ made' = [made EXCEPT !.semaphores = @ + 1]
           /\ semaphore' = made'.semaphores
  <2>1. /\ made' \in [segments : 0 .. MaxIds, semaphores : 0 .. MaxIds]
        /\ made'.semaphores = made.semaphores + 1
        /\ made.semaphores \in Nat
        /\ semaphore' \in 1 .. MaxIds
    BY <1>2, SharedMemAssumption DEF LockInv, Shapes
  <2>2. /\ pc' = [pc EXCEPT ![p] = "semop"] /\ lock_id' = [lock_id EXCEPT ![p] = semaphore']
        /\ UNCHANGED <<undo, SegmentNodes, holding>>
    BY DEF Semget, Goto
  <2>3. Shapes'
    BY <1>2, <2>1, <2>2 DEF LockInv, Shapes
  <2>4. ASSUME NEW q \in Procs
        PROVE  /\ HasNode(q) => HasNode(q)'
               /\ HasNode(q) => ~SemaphoreExists(Node(q).lock_id)'
    BY <1>2, <2>1, <2>2 DEF HasNode, Node, SemaphoreExists, SHM_ERROR
  <2>5. Places'
    BY <1>2, <2>1, <2>2, <2>4 DEF LockInv, Shapes, Places, Detaching, Node, Semget
  <2>6. Raised'
    <3>1. \A q \in Procs : Detaching(q)' => Detaching(q)
      BY <2>2 DEF LockInv, Shapes, Detaching
    <3>2. semaphore' # NULL
      BY <2>1, SharedMemAssumption
    <3> QED BY <2>2, <2>4, <3>1, <3>2 DEF LockInv, Raised, Places, Node
  <2>7. Balance'
    BY <1>2, <2>2, NoRaises DEF LockInv, Raised, Balance, Raises
  <2> QED BY <2>3, <2>5, <2>6, <2>7 DEF LockInv
<1> QED BY <1>1, <1>2 DEF Semget

LEMMA SemupStep ==
  ASSUME LockInv, NEW p \in Procs, Semup(p)
  PROVE  LockInv'
<1>1. CASE SemaphoreExists(lock_id[p])
  <2>1. Semop(p, 1)
    BY <1>1 DEF Semup
  <2>2. Balance' /\ undo' = [undo EXCEPT ![p] = undo[p] - 1] /\ undo' \in [Procs -> Int]
    BY <2>1, SemopBalances
  <2>3. Shapes' /\ Places'
    BY <2>2 DEF LockInv, Shapes, Places, Raised, HasNode, Detaching, SemaphoreExists, Node, SHM_ERROR, Semup, Track, NewNode, Return, Goto, rest
  <2>4. Raised'
    BY <1>1, <2>2 DEF LockInv, Shapes, Places, Raised, HasNode, Detaching, SemaphoreExists, Node, SHM_ERROR, Semup, Track, NewNode, Return, Goto
  <2> QED BY <2>2, <2>3, <2>4 DEF LockInv
<1>2. CASE ~SemaphoreExists(lock_id[p])
  <2>1. Shapes' /\ Places' /\ Raised'
    BY <1>2 DEF LockInv, Shapes, Places, Raised, HasNode, Detaching, SemaphoreExists, Node, SHM_ERROR, Semup, Track, NewNode, Return, Goto, rest
  <2> QED BY <1>2, <2>1, QuietStep DEF Semup
<1> QED BY <1>1, <1>2

LEMMA SemctlStep ==
  ASSUME LockInv, NEW p \in Procs, Semctl(p)
  PROVE  LockInv'
<1>1. CASE SemaphoreExists(Node(p).lock_id)
  <2>1. semaphore' = NULL /\ semval' = 0 /\ undo' = [q \in Procs |-> 0]
    BY <1>1 DEF Semctl
  <2>2. Shapes' /\ Places' /\ Raised'
    BY <2>1 DEF LockInv, Shapes, Places, Raised, HasNode, Detaching, SemaphoreExists, Node, SHM_ERROR, Semctl, Goto, locals, rest
  <2>3. Balance'
    BY <2>1, NoRaises DEF Balance, Raises
  <2> QED BY <2>2, <2>3 DEF LockInv
<1>2. CASE ~SemaphoreExists(Node(p).lock_id)
  <2>1. Shapes' /\ Places' /\ Raised'
    BY <1>2 DEF LockInv, Shapes, Places, Raised, HasNode, Detaching, SemaphoreExists, Node, SHM_ERROR, Semctl, Goto, locals, rest
  <2> QED BY <1>2, <2>1, QuietStep DEF Semctl
<1> QED BY <1>1, <1>2

\* Only a process that raised the semaphore lowers it.
LEMMA LockStep ==
  ASSUME LockInv, NEW p \in Procs, Lock(p)
  PROVE  LockInv'
<1>1. undo[p] < 0
  BY DEF LockInv, Places, Raised, Lock
<1>2. Balance' /\ undo' = [undo EXCEPT ![p] = undo[p] + 1] /\ undo' \in [Procs -> Int]
  <2>1. Semop(p, -1)
    BY DEF Lock
  <2>2. Balance' /\ undo' = [undo EXCEPT ![p] = undo[p] - (-1)] /\ undo' \in [Procs -> Int]
    BY <1>1, <2>1, SemopBalances
  <2>3. undo[p] - (-1) = undo[p] + 1
    BY DEF LockInv, Shapes
  <2> QED BY <2>2, <2>3
<1>3. Shapes' /\ Places'
  BY <1>2 DEF LockInv, Shapes, Places, Raised, HasNode, Detaching, SemaphoreExists, Node, SHM_ERROR, Lock, Return, Goto, rest
<1>4. Raised'
  BY <1>1, <1>2 DEF LockInv, Shapes, Places, Raised, HasNode, Detaching, SemaphoreExists, Node, SHM_ERROR, Lock, Return, Goto
<1> QED BY <1>2, <1>3, <1>4 DEF LockInv

LEMMA ShmUnlockStep ==
  ASSUME LockInv, NEW p \in Procs, ShmUnlock(p)
  PROVE  LockInv'
<1>1. CASE SemaphoreExists(Node(p).lock_id)
  <2>1. Semop(p, 1)
    BY <1>1 DEF ShmUnlock
  <2>2. Balance' /\ undo' = [undo EXCEPT ![p] = undo[p] - 1] /\ undo' \in [Procs -> Int]
    BY <2>1, SemopBalances
  <2>3. Shapes' /\ Places'
    BY <2>2 DEF LockInv, Shapes, Places, Raised, HasNode, Detaching, SemaphoreExists, Node, SHM_ERROR, ShmUnlock, Return, Goto, rest
  <2>4. Raised'
    BY <1>1, <2>2 DEF LockInv, Shapes, Places, Raised, HasNode, Detaching, SemaphoreExists, Node, SHM_ERROR, ShmUnlock, Return, Goto
  <2> QED BY <2>2, <2>3, <2>4 DEF LockInv
<1>2. CASE ~SemaphoreExists(Node(p).lock_id)
  <2>1. Shapes' /\ Places' /\ Raised'
    BY <1>2 DEF LockInv, Shapes, Places, Raised, HasNode, Detaching, SemaphoreExists, Node, SHM_ERROR, ShmUnlock, Return, Goto, rest
  <2> QED BY <1>2, <2>1, QuietStep DEF ShmUnlock
<1> QED BY <1>1, <1>2

\* The end of a process takes back exactly what it raised.
LEMMA ExitStep ==
  ASSUME LockInv, NEW p \in Procs, Exit(p)
  PROVE  LockInv'
<1>1. /\ undo \in [Procs -> Int] /\ undo[p] <= 0 /\ IsFiniteSet(Raises(undo))
      /\ semval = Cardinality(Raises(undo))
  BY DEF LockInv, Shapes, Raised, Balance
<1>2. undo' = [undo EXCEPT ![p] = 0]
  BY DEF Exit
<1>3. /\ IsFiniteSet(Raises(undo')) /\ Cardinality(Raises(undo')) = semval + undo[p]
      /\ semval + undo[p] \in Nat
  BY <1>1, <1>2, NoneLeft
<1>4. semval' = semval + undo[p]
  BY <1>3 DEF Exit
<1>5. Balance'
  BY <1>3, <1>4 DEF Balance, Raises
<1>6. Shapes' /\ Places'
  BY <1>1, <1>2 DEF LockInv, Shapes, Places, Raised, HasNode, Detaching, SemaphoreExists, Node, SHM_ERROR, Exit, Goto
<1>7. Raised'
  BY <1>1, <1>2 DEF LockInv, Shapes, Places, Raised, HasNode, Detaching, SemaphoreExists, Node, SHM_ERROR, Exit, Goto
<1> QED BY <1>5, <1>6, <1>7 DEF LockInv

LEMMA LockInvNext == LockInv /\ [Next]_vars => LockInv'
<1> SUFFICES ASSUME LockInv, [Next]_vars PROVE LockInv'
  OBVIOUS
<1>1. CASE UNCHANGED vars
  BY <1>1 DEF vars, kernel, locals, rest, LockInv, Shapes, Places, Raised, HasNode, Detaching, SemaphoreExists, Node, SHM_ERROR, Balance, Raises
<1>2. ASSUME NEW p \in Procs, Inside(p) PROVE LockInv'
  BY <1>2, ShmatStep, ShmatFailsStep, SemgetStep, SemgetFailsStep, SemupStep, LoopStep, LoopEndsStep,
     StatStep, SemctlStep, UnlockedStep, ShmctlStep, LockStep, LockIsGoneStep DEF Inside
<1>3. ASSUME NEW p \in Procs, Calls(p) PROVE LockInv'
  BY <1>3, ShmgetStep, ShmgetFailsStep, DestroyShmStep, ShmLockStep, ShmUnlockStep, DetachShmStep DEF Calls
<1> QED BY <1>1, <1>2, <1>3, ExitStep DEF Next

\* shm_lock never waits, for any number of processes, crashes and destroyed
\* semaphores: whoever knows the semaphore has raised it.
THEOREM LockWaitsForNobody == Spec => []LockNeverWaits
<1>1. LockInv => LockNeverWaits
  <2> SUFFICES ASSUME LockInv, NEW p \in Procs, pc[p] = "lock", SemaphoreExists(Node(p).lock_id)
               PROVE  semval > 0
    BY DEF LockNeverWaits
  <2>1. undo[p] < 0 /\ undo[p] \in Int
    BY DEF LockInv, Shapes, Places, Raised
  <2>2. 1 \in 1 .. -undo[p]
    BY <2>1
  <2>3. <<p, 1>> \in Raises(undo)
    BY <2>2, InRaises
  <2>4. Cardinality(Raises(undo)) # 0 /\ Cardinality(Raises(undo)) \in Nat
    BY <2>3, FS_EmptySet, FS_CardinalityType DEF LockInv, Balance
  <2> QED BY <2>4 DEF LockInv, Balance
<1> QED BY <1>1, LockInvInit, LockInvNext, PTL DEF Spec
=============================================================================
