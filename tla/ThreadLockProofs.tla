--------------------------- MODULE ThreadLockProofs ---------------------------
(***************************************************************************)
(* Proofs about the mutexes of ThreadMgr, over the invariant of            *)
(* ThreadMgrProofs: who may own the lock of a ThreadInfo, and how deep;    *)
(* when th_kill takes a FINISHED back; and that th_wait_all leaves nothing *)
(* managed.                                                                *)
(***************************************************************************)
EXTENDS ThreadMgrProofs

USE ThreadMgrAssumption DEF Pthreads, Handles

\* What a step of thread t does to the other threads, as far as they own locks:
\* their places stay, nobody else's lock changes hands, no ThreadInfo appears.
LockFrame(t) ==
  /\ \A u \in Pthreads : u # t => pc'[u] = pc[u] /\ cont'[u] = cont[u] /\ th'[u] = th[u]
  /\ \A v \in Workers : heap'[v] = "live" => heap[v] = "live" /\ th'[v] = th[v]
  /\ \A v \in Workers : infoLock'[v].owner \in {t, NULL} \/ infoLock'[v] = infoLock[v]
  /\ \A w \in Workers : cancel[w] => cancel'[w]

\* The other threads own what they owned, of the same ThreadInfo.
LEMMA OwnersOfOthers ==
  ASSUME IInv, IInv', Owners, NEW t \in Pthreads, LockFrame(t),
         NEW u \in Pthreads, u # t, NEW v \in Workers
  PROVE  OwnerAt(u, v)'
<1> SUFFICES ASSUME heap'[v] = "live", infoLock'[v].owner = u
             PROVE  \/ (HoldsInfo(u) /\ Info(u) = v /\ infoLock[v].depth <= InfoDepth(u))'
                    \/ EndedInLog(u)'
  BY DEF OwnerAt
<1>1. u # NULL /\ infoLock'[v] = infoLock[v] /\ heap[v] = "live" /\ th'[v] = th[v]
  BY DEF LockFrame
<1>2. pc'[u] = pc[u] /\ cont'[u] = cont[u] /\ th'[u] = th[u]
  BY DEF LockFrame
<1>3. CASE EndedInLog(u)
  BY <1>2, <1>3 DEF EndedInLog, LockFrame
<1>4. CASE HoldsInfo(u) /\ Info(u) = v /\ infoLock[v].depth <= InfoDepth(u)
  <2>1. th[u] \in Handles
    BY <1>4 DEF HoldsInfo, Killing, Towards, Showing, IInv, TypeInv, HandlesInRange
  <2>2. th[v] = th[u]
    BY <1>4, <2>1 DEF IInv, TableInv, Info
  <2>3. Threads'[th'[v]] = v
    BY DEF IInv, TableInv
  <2>4. HoldsInfo(u)' /\ InfoDepth(u)' = InfoDepth(u)
    BY <1>2, <1>4 DEF HoldsInfo, Killing, Towards, Showing, InfoDepth
  <2> QED BY <1>1, <1>2, <1>4, <2>2, <2>3, <2>4 DEF Info
<1> QED BY <1>1, <1>3, <1>4 DEF Owners, OwnerAt

\* A thread outside the places where it owns a lock, which takes none, owns none.
LEMMA OwnsNone ==
  ASSUME Owners, NEW t \in Pthreads, NEW v \in Workers, ~HoldsInfo(t), pc[t] # "dead",
         infoLock' = infoLock, heap'[v] = "live" => heap[v] = "live"
  PROVE  OwnerAt(t, v)'
BY DEF Owners, OwnerAt, EndedInLog

\* A step that leaves the locks of the ThreadInfos alone and is taken where the
\* thread owns none.
Unlocked(t) == ~HoldsInfo(t) /\ pc[t] # "dead" /\ infoLock' = infoLock

\* The steps of thread t at which it owns no lock.
LEMMA UnlockedStep ==
  ASSUME IInv, IInv', Owners, NEW t \in Pthreads, LockFrame(t), Unlocked(t)
  PROVE  Owners'
<1> SUFFICES ASSUME NEW u \in Pthreads, NEW v \in Workers PROVE OwnerAt(u, v)'
  BY DEF Owners
<1>1. CASE u = t
  BY <1>1, OwnsNone DEF Unlocked, LockFrame
<1>2. CASE u # t
  BY <1>2, OwnersOfOthers
<1> QED BY <1>1, <1>2

\* A step of thread t after which t owns what it may own.
LEMMA OwnStep ==
  ASSUME IInv, IInv', Owners, NEW t \in Pthreads, LockFrame(t), \A v \in Workers : OwnerAt(t, v)'
  PROVE  Owners'
BY OwnersOfOthers DEF Owners

\* What a caller does where it owns no lock of a ThreadInfo.
Outside(c) ==
  \/ Check(c) \/ get_next_handle(c) \/ NoMemory(c) \/ NoThread(c) \/ ReadForWait(c)
  \/ Join(c) \/ CleanupFree(c) \/ CleanupClear(c) \/ ListLock(c) \/ ListNext(c)
  \/ \E op \in Ops, h \in ThreadHandles : Call(c, op, h)

\* Those steps leave every owner its lock.
LEMMA OutsideStep ==
  ASSUME IInv, IInv', Owners, NEW c \in Callers, Outside(c)
  PROVE  Owners'
<1> USE DEF IInv, TypeInv, TypeOK, LockFrame, Unlocked, HoldsInfo, Killing, Towards, Showing, store, locks, os,
            frame
<1>1. CASE Check(c)
  <2>1. LockFrame(c) /\ Unlocked(c)
    BY <1>1 DEF Check, Return, Goto
  <2> QED BY <2>1, UnlockedStep
<1>2. CASE get_next_handle(c)
  <2>1. LockFrame(c) /\ Unlocked(c)
    BY <1>2 DEF get_next_handle, Return, Goto
  <2> QED BY <2>1, UnlockedStep
<1>3. CASE NoMemory(c)
  <2>1. LockFrame(c) /\ Unlocked(c)
    BY <1>3 DEF NoMemory, Return, Goto
  <2> QED BY <2>1, UnlockedStep
<1>4. CASE NoThread(c)
  <2>1. LockFrame(c) /\ Unlocked(c)
    BY <1>4 DEF NoThread, Return, Goto
  <2> QED BY <2>1, UnlockedStep
<1>5. CASE ReadForWait(c)
  <2>1. LockFrame(c) /\ Unlocked(c)
    BY <1>5 DEF ReadForWait, ShowThread, Goto
  <2> QED BY <2>1, UnlockedStep
<1>6. CASE Join(c)
  <2>1. LockFrame(c) /\ Unlocked(c)
    BY <1>6 DEF Join, ShowThread, Goto
  <2> QED BY <2>1, UnlockedStep
<1>7. CASE CleanupFree(c)
  <2>1. LockFrame(c) /\ Unlocked(c)
    BY <1>7 DEF CleanupFree, Goto
  <2> QED BY <2>1, UnlockedStep
<1>8. CASE CleanupClear(c)
  <2>1. LockFrame(c) /\ Unlocked(c)
    BY <1>8 DEF CleanupClear, Return, Goto
  <2> QED BY <2>1, UnlockedStep
<1>9. CASE ListLock(c)
  <2>1. LockFrame(c) /\ Unlocked(c)
    BY <1>9 DEF ListLock, Goto
  <2> QED BY <2>1, UnlockedStep
<1>10. CASE ListNext(c)
  <2>1. LockFrame(c) /\ Unlocked(c)
    BY <1>10 DEF ListNext, Return, Goto
  <2> QED BY <2>1, UnlockedStep
<1>11. CASE \E op \in Ops, h \in ThreadHandles : Call(c, op, h)
  <2>1. LockFrame(c) /\ Unlocked(c)
    BY <1>11 DEF Call, Goto
  <2> QED BY <2>1, UnlockedStep
<1> QED BY <1>1, <1>2, <1>3, <1>4, <1>5, <1>6, <1>7, <1>8, <1>9, <1>10, <1>11 DEF Outside

\* What a worker does where it owns no lock of a ThreadInfo.
WorkerOutside(w) ==
  \/ Start(w) \/ Setup(w) \/ Started(w) \/ get_thread_name(w) \/ ReadName(w)
  \/ CancelPoint(w) \/ FuncReturn(w) \/ th_exit(w) \/ Terminate(w)

\* Those steps leave every owner its lock, a cancel in the user's function included.
LEMMA WorkerOutsideStep ==
  ASSUME IInv, IInv', Owners, NEW w \in Workers, WorkerOutside(w)
  PROVE  Owners'
<1> USE DEF IInv, TypeInv, TypeOK, LockFrame, Unlocked, HoldsInfo, Killing, Towards, Showing, store, locks, os,
            frame
<1>1. CASE Start(w)
  <2>1. LockFrame(w) /\ Unlocked(w)
    BY <1>1 DEF Start, Goto
  <2> QED BY <2>1, UnlockedStep
<1>2. CASE Setup(w)
  <2>1. LockFrame(w) /\ Unlocked(w)
    BY <1>2 DEF Setup, ShowThread, Goto
  <2> QED BY <2>1, UnlockedStep
<1>3. CASE Started(w)
  <2>1. LockFrame(w) /\ Unlocked(w)
    BY <1>3 DEF Started, Goto
  <2> QED BY <2>1, UnlockedStep
<1>4. CASE get_thread_name(w)
  <2>1. LockFrame(w) /\ Unlocked(w)
    BY <1>4 DEF get_thread_name, Goto
  <2> QED BY <2>1, UnlockedStep
<1>5. CASE ReadName(w)
  <2>1. LockFrame(w) /\ Unlocked(w)
    BY <1>5 DEF ReadName, Goto
  <2> QED BY <2>1, UnlockedStep
<1>6. CASE CancelPoint(w)
  <2>1. LockFrame(w) /\ Unlocked(w)
    BY <1>6 DEF CancelPoint, Goto
  <2> QED BY <2>1, UnlockedStep
<1>7. CASE FuncReturn(w)
  <2>1. LockFrame(w) /\ Unlocked(w)
    BY <1>7 DEF FuncReturn, Goto
  <2> QED BY <2>1, UnlockedStep
<1>8. CASE th_exit(w)
  <2>1. LockFrame(w) /\ Unlocked(w)
    BY <1>8 DEF th_exit, ShowThread, Goto
  <2> QED BY <2>1, UnlockedStep
<1>9. CASE Terminate(w)
  <2>1. LockFrame(w) /\ Unlocked(w)
    BY <1>9 DEF Terminate, Goto
  <2> QED BY <2>1, UnlockedStep
<1> QED BY <1>1, <1>2, <1>3, <1>4, <1>5, <1>6, <1>7, <1>8, <1>9 DEF WorkerOutside

\* th_execute: the new thread owns no lock, and its own is free.
LEMMA CreateOwners ==
  ASSUME IInv, IInv', Owners, NewUnlocked, NEW c \in Callers, NEW w \in Workers, Create(c, w)
  PROVE  Owners'
<1>1. /\ heap[w] = "none" /\ pc[w] = "unborn" /\ pc[c] = "create" /\ infoLock' = infoLock
      /\ infoLock[w] = Free /\ c # w
  BY DEF Create, NewUnlocked, IInv, Phases, PhaseAt, locks
<1>2. /\ pc'[c] = "idle" /\ pc'[w] = "start"
      /\ \A u \in Pthreads \ {c, w} : pc'[u] = pc[u] /\ th'[u] = th[u] /\ cont'[u] = cont[u]
      /\ \A v \in Workers \ {w} : /\ heap'[v] = heap[v] /\ th'[v] = th[v]
                                  /\ cancel'[v] = cancel[v]
  BY <1>1 DEF Create, IInv, TypeInv, TypeOK
<1> SUFFICES ASSUME NEW u \in Pthreads, NEW v \in Workers, heap'[v] = "live",
                    infoLock[v].owner = u
             PROVE  OwnerAt(u, v)'
  BY <1>1 DEF Owners, OwnerAt
<1>3. v # w /\ heap[v] = "live"
  BY <1>1, <1>2 DEF Free
<1>4. u \notin {c, w}
  BY <1>1, <1>3 DEF Owners, OwnerAt, HoldsInfo, Killing, Towards, Showing, EndedInLog
<1>5. CASE EndedInLog(u)
  BY <1>2, <1>4, <1>5 DEF EndedInLog, OwnerAt
<1>6. CASE HoldsInfo(u) /\ Info(u) = v /\ infoLock[v].depth <= InfoDepth(u)
  <2>1. th[u] \in Handles /\ th[v] = th[u]
    BY <1>6 DEF HoldsInfo, Killing, Towards, Showing, IInv, TypeInv, HandlesInRange, TableInv, Info
  <2>2. Threads'[th'[v]] = v
    BY DEF IInv, TableInv
  <2>3. Info(u)' = v
    BY <1>2, <1>3, <1>4, <2>1, <2>2 DEF Info
  <2> QED BY <1>1, <1>2, <1>4, <1>6, <2>3
      DEF OwnerAt, HoldsInfo, Killing, InfoDepth, Towards, Showing
<1> QED BY <1>3, <1>5, <1>6 DEF Owners, OwnerAt

\* What thread t's own lock is of: the ThreadInfo that its next statement reads.
LEMMA OwnedInfo ==
  ASSUME Owners, NEW t \in Pthreads, pc[t] # "dead", NEW v \in Workers, heap[v] = "live",
         infoLock[v].owner = t
  PROVE  HoldsInfo(t) /\ Info(t) = v /\ infoLock[v].depth <= InfoDepth(t)
BY DEF Owners, OwnerAt, EndedInLog

\* th_kill and get_thread_state take the lock ...
LEMMA LockForKillOwners ==
  ASSUME IInv, IInv', Owners, NEW c \in Callers, LockForKill(c) \/ get_thread_state(c)
  PROVE  Owners'
<1> USE DEF IInv, TypeInv, TypeOK
<1>1. PICK w \in Workers : /\ w = Info(c) /\ heap[w] = "live" /\ pc[c] = "lock"
                           /\ Available(infoLock[w], c)
                           /\ infoLock' = [infoLock EXCEPT ![w] = Acquired(@, c)]
                           /\ pc'[c] \in {"kill", "state"}
                           /\ pc' = [pc EXCEPT ![c] = pc'[c]]
                           /\ UNCHANGED <<Threads, heap, state, cancel, th, cont>>
  BY InfoType DEF LockForKill, get_thread_state, Live, Goto, store, os, frame
<1>2. ~HoldsInfo(c)
  BY <1>1 DEF HoldsInfo, Killing, Towards, Showing
<1>3. infoLock[w] = Free
  <2>1. infoLock[w].owner # c
    BY <1>1, <1>2, OwnedInfo
  <2>2. infoLock[w] \in Lock
    OBVIOUS
  <2> QED BY <1>1, <2>1, <2>2 DEF Lock, Free, Available
<1>4. LockFrame(c)
  BY <1>1 DEF LockFrame, Acquired
<1>5. ASSUME NEW v \in Workers PROVE OwnerAt(c, v)'
  <2>1. CASE v = w
    BY <1>1, <1>3, <2>1 DEF OwnerAt, HoldsInfo, Killing, InfoDepth, Info, Acquired, Free
  <2>2. CASE v # w
    BY <1>1, <1>2, <2>2, OwnedInfo DEF OwnerAt
  <2> QED BY <2>1, <2>2
<1> QED BY <1>4, <1>5, OwnStep

\* ... th_kill keeps it in its tests, the cancel, the store and show_thread ...
LEMMA KillOwners ==
  ASSUME IInv, IInv', Owners, NEW c \in Callers,
         ReadCancelled(c) \/ ReadFinished(c) \/ Cancel(c) \/ StoreCancelled(c)
  PROVE  Owners'
<1> USE DEF IInv, TypeInv, TypeOK
<1>1. /\ pc[c] \in {"kill", "kill_finished", "cancel", "store"}
      /\ UNCHANGED <<Threads, heap, infoLock, th>>
      /\ \A u \in Pthreads : u # c => pc'[u] = pc[u] /\ cont'[u] = cont[u]
      /\ \/ pc'[c] \in {"kill_finished", "cancel", "store"} /\ cont' = cont
         \/ pc'[c] = "show" /\ cont'[c] \in {"killed", "refused"}
      /\ \A w \in Workers : cancel[w] => cancel'[w]
  <2>1. CASE ReadCancelled(c)
    BY <2>1 DEF ReadCancelled, ShowThread, Goto, store, locks, os
  <2>2. CASE ReadFinished(c)
    BY <2>2 DEF ReadFinished, ShowThread, Goto, store, locks, os
  <2>3. CASE Cancel(c)
    BY <2>3 DEF Cancel, Goto, store, locks, frame
  <2>4. CASE StoreCancelled(c)
    BY <2>4 DEF StoreCancelled, ShowThread, Goto, locks, os
  <2> QED BY <2>1, <2>2, <2>3, <2>4
<1>2. LockFrame(c)
  BY <1>1 DEF LockFrame
<1>3. HoldsInfo(c)' /\ InfoDepth(c)' = 1
  BY <1>1 DEF HoldsInfo, Killing, InfoDepth, Towards, Showing
<1>4. ASSUME NEW v \in Workers PROVE OwnerAt(c, v)'
  <2> SUFFICES ASSUME heap[v] = "live", infoLock[v].owner = c PROVE OwnerAt(c, v)'
    BY <1>1 DEF OwnerAt
  <2>1. Info(c) = v /\ infoLock[v].depth <= InfoDepth(c)
    BY <1>1, OwnedInfo
  <2>2. InfoDepth(c) = 1
    BY <1>1 DEF InfoDepth
  <2>3. Info(c)' = v
    BY <1>1, <2>1 DEF Info
  <2> QED BY <1>1, <1>3, <2>1, <2>2, <2>3 DEF OwnerAt
<1> QED BY <1>2, <1>4, OwnStep

\* ... and both give it back.
LEMMA UnlockKilledOwners ==
  ASSUME IInv, IInv', Owners, NEW c \in Callers, UnlockKilled(c) \/ ReadState(c)
  PROVE  Owners'
<1> USE DEF IInv, TypeInv, TypeOK
<1>1. PICK w \in Workers, p \in {"check", "idle"}, h \in Handles :
        /\ w = Info(c) /\ heap[w] = "live" /\ pc[c] \in {"killed", "refused", "state"}
        /\ infoLock' = [infoLock EXCEPT ![w] = Released(@, c)]
        /\ pc' = [pc EXCEPT ![c] = p] /\ th' = [th EXCEPT ![c] = h]
        /\ UNCHANGED <<Threads, heap, state, cancel, cont>>
  <2>1. \E r \in {THD_OK, THD_ERROR} : Return(c, r)
    BY DEF UnlockKilled, ReadState
  <2>2. PICK p \in {"check", "idle"}, h \in Handles, x \in {THD_OK, THD_ERROR} :
               Returned(c, p, h, x)
    <3>1. PICK r \in {THD_OK, THD_ERROR} : Return(c, r)
      BY <2>1
    <3>2. TypeOK
      OBVIOUS
    <3> HIDE DEF IInv, TypeInv, TypeOK
    <3> QED BY <3>1, <3>2, ReturnFacts
  <2> QED BY <2>2, InfoType DEF UnlockKilled, ReadState, Live, Returned, store, os
<1>2. infoLock'[w].owner # c
  <2>1. infoLock[w].owner = c => infoLock[w].depth <= 1
    <3>1. infoLock[w].owner = c => infoLock[w].depth <= InfoDepth(c)
      BY <1>1, OwnedInfo
    <3>2. InfoDepth(c) = 1
      BY <1>1 DEF InfoDepth
    <3> QED BY <3>1, <3>2
  <2>2. infoLock[w] \in Lock /\ infoLock'[w] = Released(infoLock[w], c)
    BY <1>1
  <2>3. infoLock[w].owner = c => infoLock[w].depth = 1
    <3>1. infoLock[w].owner = c => infoLock[w].depth \in Nat \ {0}
      BY <2>2 DEF Lock, Free
    <3>2. \A d \in Nat \ {0} : d <= 1 => d = 1
      OBVIOUS
    <3> QED BY <2>1, <3>1, <3>2
  <2> QED BY <2>2, <2>3 DEF Free, Released
<1>3. LockFrame(c)
  BY <1>1 DEF LockFrame, Released, Free
<1>4. ASSUME NEW v \in Workers PROVE OwnerAt(c, v)'
  <2>1. CASE v = w
    BY <1>2, <2>1 DEF OwnerAt
  <2>2. CASE v # w
    <3>1. pc[c] # "dead" /\ Info(c) = w
      BY <1>1
    <3>2. heap[v] = "live" => infoLock[v].owner # c
      BY <2>2, <3>1, OwnedInfo
    <3> QED BY <1>1, <2>2, <3>2 DEF OwnerAt
  <2> QED BY <2>1, <2>2
<1> QED BY <1>3, <1>4, OwnStep

\* show_thread takes the lock of the ThreadInfo it reads, a second time in th_kill ...
LEMMA LockShownOwners ==
  ASSUME IInv, IInv', Owners, NEW t \in Pthreads, LockShown(t)
  PROVE  Owners'
<1> USE DEF IInv, TypeInv, TypeOK
<1>1. PICK w \in Workers : /\ w = Info(t) /\ heap[w] = "live" /\ pc[t] = "show_lock"
                           /\ Available(infoLock[w], t)
                           /\ infoLock' = [infoLock EXCEPT ![w] = Acquired(@, t)]
                           /\ pc' = [pc EXCEPT ![t] = "show_log"]
                           /\ UNCHANGED <<Threads, heap, state, cancel, th, cont>>
  BY InfoType DEF LockShown, Live, Goto, store, os, frame
<1>2. LockFrame(t)
  BY <1>1 DEF LockFrame, Acquired
<1>3. infoLock[w] \in Lock /\ infoLock'[w] = Acquired(infoLock[w], t)
  BY <1>1
<1>4. infoLock'[w].depth <= InfoDepth(t)'
  <2>1. CASE infoLock[w].owner = t
    <3>1. HoldsInfo(t) /\ infoLock[w].depth <= InfoDepth(t)
      BY <1>1, <2>1, OwnedInfo
    <3>2. cont[t] \in {"killed", "refused"} /\ InfoDepth(t) = 1 /\ InfoDepth(t)' = 2
      BY <1>1, <3>1 DEF HoldsInfo, Killing, InfoDepth, Towards, Showing
    <3> QED BY <1>3, <2>1, <3>1, <3>2 DEF Acquired, Lock, Free
  <2>2. CASE infoLock[w].owner # t
    <3>1. infoLock[w] = Free
      BY <1>1, <1>3, <2>2 DEF Available, Lock, Free
    <3> QED BY <1>3, <3>1 DEF Acquired, Free, InfoDepth
  <2> QED BY <2>1, <2>2
<1>5. ASSUME NEW v \in Workers PROVE OwnerAt(t, v)'
  <2>1. CASE v = w
    <3>1. pc'[t] = "show_log" /\ Info(t)' = w
      BY <1>1 DEF Info
    <3> QED BY <1>4, <2>1, <3>1 DEF OwnerAt, HoldsInfo, Killing
  <2>2. CASE v # w
    <3>1. SUFFICES ASSUME heap[v] = "live", infoLock[v].owner = t PROVE FALSE
      BY <1>1, <2>2 DEF OwnerAt
    <3>2. pc[t] # "dead"
      BY <1>1
    <3>3. Info(t) = v
      BY <3>1, <3>2, OwnedInfo
    <3> QED BY <1>1, <2>2, <3>3
  <2> QED BY <2>1, <2>2
<1> QED BY <1>2, <1>5, OwnStep

\* ... gives it back after the log line ...
LEMMA LogShownOwners ==
  ASSUME IInv, IInv', Owners, NEW t \in Pthreads, LogShown(t)
  PROVE  Owners'
<1> USE DEF IInv, TypeInv, TypeOK
<1>1. PICK w \in Workers : /\ w = Info(t) /\ heap[w] = "live" /\ pc[t] = "show_log"
                           /\ infoLock' = [infoLock EXCEPT ![w] = Released(@, t)]
                           /\ pc' = [pc EXCEPT ![t] = cont[t]]
                           /\ cont' = [cont EXCEPT ![t] = "idle"]
                           /\ UNCHANGED <<Threads, heap, state, cancel, th>>
  BY InfoType DEF LogShown, Live, ShowEnds, Goto, store, os
<1>2. LockFrame(t)
  BY <1>1 DEF LockFrame, Released, Free
<1>3. infoLock[w] \in Lock /\ infoLock'[w] = Released(infoLock[w], t)
  BY <1>1
<1>4. OwnerAt(t, w)'
  <2> SUFFICES ASSUME infoLock'[w].owner = t PROVE OwnerAt(t, w)'
    BY DEF OwnerAt
  <2>1. infoLock[w].owner = t
    BY <1>3 DEF Released, Free
  <2>2. infoLock[w].depth <= InfoDepth(t)
    BY <1>1, <2>1, OwnedInfo
  <2>3. infoLock[w].depth # 1 /\ infoLock'[w].depth = infoLock[w].depth - 1
    BY <1>3, <2>1 DEF Released, Lock, Free
  <2>4. infoLock[w].depth \in Nat \ {0}
    BY <1>3, <2>1 DEF Lock, Free
  <2>5. cont[t] \in {"killed", "refused"} /\ InfoDepth(t) = 2
    BY <2>2, <2>3, <2>4 DEF InfoDepth
  <2>6. pc'[t] \in {"killed", "refused"}
    BY <1>1, <2>5
  <2>7. HoldsInfo(t)' /\ InfoDepth(t)' = 1
    BY <2>6 DEF HoldsInfo, Killing, InfoDepth, Towards
  <2> QED BY <1>1, <2>2, <2>3, <2>4, <2>5, <2>7 DEF OwnerAt, Info
<1>5. ASSUME NEW v \in Workers PROVE OwnerAt(t, v)'
  <2>1. CASE v # w
    <3>1. heap[v] = "live" => infoLock[v].owner # t
      BY <1>1, <2>1, OwnedInfo
    <3> QED BY <1>1, <2>1, <3>1 DEF OwnerAt
  <2> QED BY <1>4, <2>1
<1> QED BY <1>2, <1>5, OwnStep

\* ... or finds no ThreadInfo; its test takes no lock.
LEMMA ShowOwners ==
  ASSUME IInv, IInv', Owners, NEW t \in Pthreads, Show(t)
  PROVE  Owners'
<1> USE DEF IInv, TypeInv, TypeOK
<1>1. /\ pc[t] = "show" /\ UNCHANGED <<Threads, heap, infoLock, state, cancel, th>>
      /\ \/ pc' = [pc EXCEPT ![t] = "show_lock"] /\ cont' = cont
         \/ /\ pc' = [pc EXCEPT ![t] = cont[t]]
            /\ cont' = [cont EXCEPT ![t] = "idle"]
  BY DEF Show, ShowEnds, Goto, store, locks, os
<1>2. LockFrame(t)
  BY <1>1 DEF LockFrame
<1>3. ASSUME NEW v \in Workers PROVE OwnerAt(t, v)'
  <2> SUFFICES ASSUME heap[v] = "live", infoLock[v].owner = t PROVE OwnerAt(t, v)'
    BY <1>1 DEF OwnerAt
  <2>1. HoldsInfo(t) /\ Info(t) = v /\ infoLock[v].depth <= InfoDepth(t)
    BY <1>1, OwnedInfo
  <2>2. cont[t] \in {"killed", "refused"} /\ InfoDepth(t) = 1
    BY <1>1, <2>1 DEF HoldsInfo, Killing, InfoDepth, Towards, Showing
  <2>3. HoldsInfo(t)' /\ InfoDepth(t)' = 1
    BY <1>1, <2>2 DEF HoldsInfo, Killing, InfoDepth, Towards, Showing
  <2> QED BY <1>1, <2>1, <2>2, <2>3 DEF OwnerAt, Info
<1> QED BY <1>2, <1>3, OwnStep

\* A worker that a cancel meets in the log line ends with the lock.
LEMMA CancelledOwners ==
  ASSUME IInv, IInv', Owners, NEW w \in Workers, CancelledInLog(w)
  PROVE  Owners'
<1> USE DEF IInv, TypeInv, TypeOK
<1>1. /\ pc[w] = "show_log" /\ cont[w] = "terminate" /\ cancel[w]
      /\ pc' = [pc EXCEPT ![w] = "dead"]
      /\ UNCHANGED <<Threads, heap, infoLock, state, cancel, th, cont>>
  BY DEF CancelledInLog, Cancellable, Goto, store, locks, frame
<1>2. LockFrame(w)
  BY <1>1 DEF LockFrame
<1>3. EndedInLog(w)'
  BY <1>1 DEF EndedInLog, Phases, PhaseAt, Towards, Showing
<1>4. ASSUME NEW v \in Workers PROVE OwnerAt(w, v)'
  BY <1>3 DEF OwnerAt
<1> QED BY <1>2, <1>4, OwnStep

\* Every step leaves the locks of live ThreadInfos with those that may own them.
LEMMA OwnersNext ==
  ASSUME IInv, IInv', Owners, NewUnlocked, [Next]_vars
  PROVE  Owners'
<1>1. CASE UNCHANGED <<infoLock, heap, pc, cont, th, Threads, cancel, state>>
  BY <1>1 DEF Owners, OwnerAt, HoldsInfo, Killing, InfoDepth, EndedInLog, Towards, Showing, Info
<1>2. CASE UNCHANGED vars
  BY <1>1, <1>2 DEF vars, store, locks, os, frame
<1>3. ASSUME NEW c \in Callers, CallerStep(c) PROVE Owners'
  BY <1>3, OutsideStep, CreateOwners, LockForKillOwners, KillOwners, UnlockKilledOwners
     DEF CallerStep, Outside
<1>4. ASSUME NEW c \in Callers, NEW op \in Ops, NEW h \in ThreadHandles, Call(c, op, h)
      PROVE  Owners'
  BY <1>4, OutsideStep DEF Outside
<1>5. ASSUME NEW w \in Workers, WorkerStep(w) \/ UserStep(w) PROVE Owners'
  BY <1>5, WorkerOutsideStep, CancelledOwners DEF WorkerStep, UserStep, WorkerOutside
<1>6. ASSUME NEW t \in Pthreads, Shown(t) PROVE Owners'
  BY <1>6, ShowOwners, LockShownOwners, LogShownOwners DEF Shown
<1>7. ASSUME NEW t \in Pthreads, Undefined(t) PROVE Owners'
  BY <1>1, <1>7 DEF Undefined, store, locks, os, frame
<1> QED BY <1>2, <1>3, <1>4, <1>5, <1>6, <1>7 DEF Next

\* Only th_execute makes a ThreadInfo, and only a live one is locked.
LEMMA NewUnlockedNext ==
  ASSUME IInv, NewUnlocked, [Next]_vars
  PROVE  NewUnlocked'
<1> USE DEF IInv, TypeInv, TypeOK, NewUnlocked
<1>1. CASE UNCHANGED <<heap, infoLock>>
  BY <1>1
<1>2. CASE UNCHANGED vars
  BY <1>1, <1>2 DEF vars, store, locks
<1>3. ASSUME NEW c \in Callers, CallerStep(c) PROVE NewUnlocked'
  <2>1. CASE \E w \in Workers : Create(c, w)
    BY <2>1 DEF Create, locks
  <2>2. CASE CleanupFree(c)
    BY <2>2, InfoType DEF CleanupFree
  <2>3. CASE LockForKill(c) \/ get_thread_state(c)
    BY <2>3 DEF LockForKill, get_thread_state, Live, store
  <2>4. CASE UnlockKilled(c) \/ ReadState(c)
    BY <2>4 DEF UnlockKilled, ReadState, Live, store
  <2>5. CASE \/ Check(c) \/ get_next_handle(c) \/ NoMemory(c) \/ NoThread(c) \/ ReadForWait(c)
            \/ Join(c) \/ CleanupClear(c) \/ ReadCancelled(c)
            \/ ReadFinished(c) \/ Cancel(c) \/ StoreCancelled(c) \/ ListLock(c) \/ ListNext(c)
    BY <1>1, <2>5 DEF Check, get_next_handle, NoMemory, NoThread, ReadForWait, Join,
       CleanupClear, ReadCancelled, ReadFinished, Cancel, StoreCancelled, ListLock, ListNext,
       store, locks
  <2> QED BY <1>3, <2>1, <2>2, <2>3, <2>4, <2>5 DEF CallerStep
<1>4. ASSUME NEW c \in Callers, NEW op \in Ops, NEW h \in ThreadHandles, Call(c, op, h)
      PROVE  NewUnlocked'
  BY <1>1, <1>4 DEF Call, store, locks
<1>5. ASSUME NEW w \in Workers, WorkerStep(w) \/ UserStep(w) PROVE NewUnlocked'
  BY <1>1, <1>5 DEF WorkerStep, UserStep, Start, Setup, Started, ReadName, th_exit,
     Terminate, CancelledInLog, get_thread_name, CancelPoint, FuncReturn, store, locks
<1>6. ASSUME NEW t \in Pthreads, Shown(t) PROVE NewUnlocked'
  BY <1>6 DEF Shown, Show, LockShown, LogShown, Live, store, locks
<1>7. ASSUME NEW t \in Pthreads, Undefined(t) PROVE NewUnlocked'
  BY <1>1, <1>7 DEF Undefined, store, locks
<1> QED BY <1>2, <1>3, <1>4, <1>5, <1>6, <1>7 DEF Next

\* What WorkerStore says of one worker.
OwnsStore(w) ==
  StoreLock.owner = w => /\ pc[w] = "setup" \/ Towards(w, "started")
                         /\ StoreLock.depth = 1

\* A step of a thread other than w, which takes and gives back StoreLock for
\* itself only.
LEMMA StoreOfOthers ==
  ASSUME WorkerStore, NEW w \in Workers, pc'[w] = pc[w], cont'[w] = cont[w],
         StoreLock'.owner = w => StoreLock' = StoreLock
  PROVE  OwnsStore(w)'
BY DEF WorkerStore, OwnsStore, Towards, Showing

\* A worker takes StoreLock once, in func_decorator, and gives it back there.
LEMMA WorkerStoreNext ==
  ASSUME IInv, WorkerStore, [Next]_vars
  PROVE  WorkerStore'
<1> USE DEF IInv, TypeInv, TypeOK
<1> SUFFICES ASSUME NEW v \in Workers PROVE OwnsStore(v)'
  BY DEF WorkerStore, OwnsStore
<1>1. CASE UNCHANGED vars
  BY <1>1, StoreOfOthers DEF vars, locks, frame
<1>2. ASSUME NEW t \in Pthreads, t # v, pc'[v] = pc[v], cont'[v] = cont[v],
             StoreLock' \in {StoreLock, Acquired(StoreLock, t), Released(StoreLock, t)}
      PROVE  OwnsStore(v)'
  <2>1. Acquired(StoreLock, t).owner # v
    BY <1>2 DEF Acquired
  <2>2. Released(StoreLock, t) = StoreLock \/ Released(StoreLock, t).owner # v
    BY <1>2 DEF Released, Free, Lock
  <2> QED BY <1>2, <2>1, <2>2, StoreOfOthers
<1>3. ASSUME NEW c \in Callers, CallerStep(c) PROVE OwnsStore(v)'
  <2>1. CASE \E w \in Workers : Create(c, w)
    <3>1. PICK w \in Workers : Create(c, w)
      BY <2>1
    <3>2. CASE v = w
      <4>1. pc[v] = "unborn" /\ StoreLock' = StoreLock
        BY <3>1, <3>2 DEF Create, Phases, PhaseAt, locks
      <4> QED BY <4>1 DEF WorkerStore, OwnsStore, Towards, Showing
    <3>3. CASE v # w
      BY <1>2, <3>1, <3>3 DEF Create, locks
    <3> QED BY <3>2, <3>3
  <2>2. CASE ~(\E w \in Workers : Create(c, w))
    <3>1. c # v /\ pc'[v] = pc[v] /\ cont'[v] = cont[v]
      BY <1>3, <2>2 DEF CallerStep, Check, get_next_handle, NoMemory, NoThread, ReadForWait,
         Join, CleanupFree, CleanupClear, LockForKill, ReadCancelled, ReadFinished,
         Cancel, StoreCancelled, UnlockKilled, get_thread_state, ReadState, ListLock, ListNext, Return, ShowThread, Goto, frame
    <3>2. StoreLock' \in {StoreLock, Acquired(StoreLock, c), Released(StoreLock, c)}
      BY <1>3, <2>2 DEF CallerStep, Check, get_next_handle, NoMemory, NoThread, ReadForWait,
         Join, CleanupFree, CleanupClear, LockForKill, ReadCancelled, ReadFinished,
         Cancel, StoreCancelled, UnlockKilled, get_thread_state, ReadState, ListLock, ListNext, locks
    <3> QED BY <1>2, <3>1, <3>2
  <2> QED BY <2>1, <2>2
<1>4. ASSUME NEW c \in Callers, NEW op \in Ops, NEW h \in ThreadHandles, Call(c, op, h)
      PROVE  OwnsStore(v)'
  BY <1>4, StoreOfOthers DEF Call, Goto, locks
<1>5. ASSUME NEW w \in Workers, WorkerStep(w) \/ UserStep(w) PROVE OwnsStore(v)'
  <2>1. CASE v # w
    <3>1. pc'[v] = pc[v] /\ cont'[v] = cont[v]
      BY <1>5, <2>1 DEF WorkerStep, UserStep, Start, Setup, Started, ReadName, th_exit,
         Terminate, CancelledInLog, get_thread_name, CancelPoint, FuncReturn, ShowThread,
         Goto, frame
    <3>2. StoreLock' \in {StoreLock, Acquired(StoreLock, w), Released(StoreLock, w)}
      BY <1>5 DEF WorkerStep, UserStep, Start, Setup, Started, ReadName, th_exit,
         Terminate, CancelledInLog, get_thread_name, CancelPoint, FuncReturn, locks
    <3> QED BY <1>2, <2>1, <3>1, <3>2
  <2>2. CASE v = w /\ Start(w)
    <3>1. StoreLock = Free /\ StoreLock' = Acquired(StoreLock, v) /\ pc'[v] = "setup"
      BY <2>2 DEF Start, Goto, Available, WorkerStore, Towards, Showing, Lock, Free
    <3> QED BY <3>1 DEF OwnsStore, Acquired, Free
  <2>3. CASE v = w /\ Setup(w)
    <3>1. pc[v] = "setup" /\ Towards(v, "started")' /\ StoreLock' = StoreLock
      BY <2>3 DEF Setup, ShowThread, Goto, Towards, Showing, locks
    <3> QED BY <3>1 DEF OwnsStore, WorkerStore
  <2>4. CASE v = w /\ Started(w)
    <3>1. StoreLock' = Released(StoreLock, v) /\ (StoreLock.owner = v => StoreLock.depth = 1)
      BY <2>4 DEF Started, WorkerStore
    <3> QED BY <3>1 DEF OwnsStore, Released, Free
  <2>5. CASE v = w /\ ~Start(w) /\ ~Setup(w) /\ ~Started(w)
    <3>1. StoreLock' = StoreLock /\ pc[v] \in {"run", "name", "exit", "terminate", "show_log"}
          /\ (pc[v] = "show_log" => cont[v] = "terminate")
      BY <1>5, <2>5 DEF WorkerStep, UserStep, ReadName, th_exit, Terminate, CancelledInLog,
         get_thread_name, CancelPoint, FuncReturn, Cancellable, locks
    <3> QED BY <3>1 DEF OwnsStore, WorkerStore, Towards, Showing
  <2> QED BY <2>1, <2>2, <2>3, <2>4, <2>5
<1>6. ASSUME NEW t \in Pthreads, Shown(t) PROVE OwnsStore(v)'
  <2>1. CASE v # t
    BY <1>6, <2>1, StoreOfOthers DEF Shown, Show, LockShown, LogShown, ShowEnds, Goto, locks, frame
  <2>2. CASE v = t
    <3>1. /\ Showing(v) /\ StoreLock' = StoreLock
          /\ \/ Showing(v)' /\ cont'[v] = cont[v]
             \/ pc'[v] = cont[v]
      BY <1>6, <2>2 DEF Shown, Show, LockShown, LogShown, ShowEnds, Goto, Showing, locks, frame
    <3> QED BY <3>1 DEF OwnsStore, WorkerStore, Towards, Showing
  <2> QED BY <2>1, <2>2
<1>7. ASSUME NEW t \in Pthreads, Undefined(t) PROVE OwnsStore(v)'
  BY <1>7, StoreOfOthers DEF Undefined, locks, frame
<1> QED BY <1>1, <1>3, <1>4, <1>5, <1>6, <1>7 DEF Next

\* The invariant of the mutexes holds in every state.
LEMMA LockInvAlways == ASSUME OneExecutorOneReaper PROVE Spec => [](IInv /\ LockInv)
<1>1. Init => LockInv
  BY DEF Init, LockInv, Owners, OwnerAt, NewUnlocked, WorkerStore, Free
<1>2. IInv /\ IInv' /\ LockInv /\ [Next]_vars => LockInv'
  BY OwnersNext, NewUnlockedNext, WorkerStoreNext DEF LockInv
<1> QED BY <1>1, <1>2, IInvAlways, PTL DEF Spec

\* No thread waits for StoreLock with the lock of a live ThreadInfo in its hands.
THEOREM LocksAreOrdered == ASSUME OneExecutorOneReaper PROVE Spec => []LockOrder
<1>1. IInv /\ LockInv => LockOrder
  BY DEF LockInv, Owners, OwnerAt, HoldsInfo, Killing, EndedInLog, Towards, Showing, WaitsForStore,
         LockOrder
<1> QED BY <1>1, LockInvAlways, PTL

\* Cancellation leaves no mutex locked but the one of th_exit's log line.
THEOREM CancelLeavesLocksFree == ASSUME OneExecutorOneReaper PROVE Spec => []CancelLeavesNoLock
<1>1. IInv /\ LockInv => CancelLeavesNoLock
  <2> SUFFICES ASSUME IInv, LockInv, NEW w \in Workers, life[w] \in {"dead", "joined"}
               PROVE  /\ StoreLock.owner # w
                      /\ \A v \in Workers : heap[v] = "live" /\ infoLock[v].owner = w
                                             => cancel[w] /\ cont[w] = "terminate"
    BY DEF CancelLeavesNoLock
  <2>1. pc[w] = "dead"
    BY DEF IInv, Phases, PhaseAt
  <2> QED BY <2>1 DEF LockInv, Owners, OwnerAt, HoldsInfo, Killing, EndedInLog, Towards, Showing,
          WorkerStore
<1> QED BY <1>1, LockInvAlways, PTL

(***************************************************************************)
(* th_kill and FINISHED.                                                   *)
(***************************************************************************)

\* What a step of another thread may do to the ThreadInfo that th_kill, called
\* by c, has locked: th_exit waits, th_cleanup frees it, th_execute puts a new
\* one in its place.
KillFrame(c) ==
  /\ pc'[c] = pc[c] /\ th'[c] = th[c]
  /\ \A v \in Workers :
       /\ state'[v] = "FINISHED" => state[v] = "FINISHED" \/ infoLock[v].owner # c
       /\ infoLock'[v].owner = c => infoLock[v].owner = c
       /\ heap'[v] = "live" => heap[v] = "live" \/ state'[v] = "PENDING"
  /\ \/ Info(c)' \in {Info(c), NULL}
     \/ Info(c)' \in Workers /\ state'[Info(c)'] = "PENDING"

\* Such a step does not finish a thread that th_kill has locked.
LEMMA KillFrameKeeps ==
  ASSUME TypeInv, KillsUnfinished, NEW c \in Callers, KillFrame(c)
  PROVE  KillsUnfinishedAt(c)'
<1> SUFFICES ASSUME pc[c] \in {"cancel", "store"}, Live(Info(c))', infoLock'[Info(c)'].owner = c,
                    state'[Info(c)'] = "FINISHED"
             PROVE  FALSE
  BY DEF KillsUnfinishedAt, KillFrame
<1>1. Info(c)' = Info(c) /\ Info(c) \in Workers
  BY InfoType DEF KillFrame, Live
<1>2. Live(Info(c)) /\ infoLock[Info(c)].owner = c /\ state[Info(c)] = "FINISHED"
  BY <1>1 DEF KillFrame, Live
<1> QED BY <1>2 DEF KillsUnfinished, KillsUnfinishedAt

\* A caller's own step: it reads a state that is not FINISHED, and then stores CANCELLED.
LEMMA OwnKill ==
  ASSUME TypeInv, KillsUnfinished, NEW c \in Callers,
         \/ CallerStep(c) \/ Shown(c)
         \/ \E op \in Ops, h \in ThreadHandles : Call(c, op, h)
  PROVE  KillsUnfinishedAt(c)'
<1> USE DEF TypeInv, TypeOK, store, locks, os, frame
<1>1. CASE ReadFinished(c)
  <2>1. pc'[c] = "show" \/ state[Info(c)] # "FINISHED"
    BY <1>1 DEF ReadFinished, ShowThread, Goto, Killable
  <2>2. UNCHANGED <<Threads, heap, state, infoLock, th>>
    BY <1>1 DEF ReadFinished
  <2> QED BY <2>1, <2>2 DEF KillsUnfinishedAt, Info
<1>2. CASE Cancel(c)
  <2>1. pc[c] = "cancel" /\ UNCHANGED <<Threads, heap, state, infoLock, th>>
    BY <1>2 DEF Cancel
  <2> QED BY <2>1 DEF KillsUnfinished, KillsUnfinishedAt, Info, Live
<1>3. CASE ~ReadFinished(c) /\ ~Cancel(c)
  <2>1. pc'[c] \notin {"cancel", "store"}
    <3>1. CASE Shown(c)
      BY <3>1 DEF Shown, Show, LockShown, LogShown, ShowEnds, Goto
    <3>2. CASE \E op \in Ops, h \in ThreadHandles : Call(c, op, h)
      BY <3>2 DEF Call, Entry, Goto
    <3>3. CASE \/ Check(c) \/ get_next_handle(c) \/ NoMemory(c) \/ NoThread(c)
               \/ CleanupClear(c) \/ UnlockKilled(c) \/ ReadState(c) \/ ListNext(c)
      BY <3>3 DEF Check, get_next_handle, NoMemory, NoThread, CleanupClear, UnlockKilled,
         ReadState, ListNext, Return, Goto
    <3>4. CASE \E w \in Workers : Create(c, w)
      BY <3>4, ThreadMgrAssumption DEF Create
    <3>5. CASE \/ ReadForWait(c) \/ Join(c) \/ CleanupFree(c) \/ LockForKill(c)
               \/ ReadCancelled(c) \/ StoreCancelled(c) \/ get_thread_state(c) \/ ListLock(c)
      BY <3>5 DEF ReadForWait, Join, CleanupFree, LockForKill, ReadCancelled, StoreCancelled,
         get_thread_state, ListLock, ShowThread, Goto
    <3> QED BY <1>3, <3>1, <3>2, <3>3, <3>4, <3>5 DEF CallerStep
  <2> QED BY <2>1 DEF KillsUnfinishedAt
<1> QED BY <1>1, <1>2, <1>3

\* The steps of the others leave the killer where it is.
LEMMA OthersPlace ==
  ASSUME TypeInv, NEW c \in Callers, NEW t \in Pthreads, t # c,
         \/ t \in Callers /\ CallerStep(t)
         \/ t \in Callers /\ \E op \in Ops, h \in ThreadHandles : Call(t, op, h)
         \/ t \in Workers /\ (WorkerStep(t) \/ UserStep(t))
         \/ Shown(t)
  PROVE  pc'[c] = pc[c] /\ th'[c] = th[c]
<1> USE DEF TypeInv, TypeOK, frame
<1>1. CASE t \in Callers /\ \E w \in Workers : Create(t, w)
  BY <1>1 DEF Create
<1>2. CASE t \in Callers /\ CallerStep(t) /\ ~\E w \in Workers : Create(t, w)
  <2>1. CASE \/ Check(t) \/ get_next_handle(t) \/ NoMemory(t) \/ NoThread(t)
             \/ CleanupClear(t) \/ UnlockKilled(t) \/ ReadState(t) \/ ListNext(t)
    <3>1. ASSUME NEW r, Return(t, r) PROVE pc'[c] = pc[c] /\ th'[c] = th[c]
      BY <3>1 DEF Return, Goto
    <3> QED BY <2>1, <3>1 DEF Check, get_next_handle, NoMemory, NoThread, CleanupClear,
           UnlockKilled, ReadState, ListNext, Goto
  <2>2. CASE \/ ReadForWait(t) \/ Join(t) \/ CleanupFree(t) \/ LockForKill(t)
             \/ ReadCancelled(t) \/ ReadFinished(t) \/ Cancel(t) \/ StoreCancelled(t)
             \/ get_thread_state(t) \/ ListLock(t)
    BY <2>2 DEF ReadForWait, Join, CleanupFree, LockForKill, ReadCancelled, ReadFinished, Cancel,
       StoreCancelled, get_thread_state, ListLock, ShowThread, Goto
  <2> QED BY <1>2, <2>1, <2>2 DEF CallerStep
<1>3. CASE t \in Callers /\ \E op \in Ops, h \in ThreadHandles : Call(t, op, h)
  BY <1>3 DEF Call, Goto
<1>4. CASE t \in Workers /\ (WorkerStep(t) \/ UserStep(t))
  BY <1>4 DEF WorkerStep, UserStep, Start, Setup, Started, ReadName, th_exit, Terminate,
     CancelledInLog, get_thread_name, CancelPoint, FuncReturn, ShowThread, Goto
<1>5. CASE Shown(t)
  BY <1>5 DEF Shown, Show, LockShown, LogShown, ShowEnds, Goto
<1> QED BY <1>1, <1>2, <1>3, <1>4, <1>5

\* Nor do they finish the thread that it has locked.
LEMMA OthersKill ==
  ASSUME IInv, NEW c \in Callers, NEW t \in Pthreads, t # c,
         \/ t \in Callers /\ CallerStep(t)
         \/ t \in Callers /\ \E op \in Ops, h \in ThreadHandles : Call(t, op, h)
         \/ t \in Workers /\ (WorkerStep(t) \/ UserStep(t))
         \/ Shown(t)
  PROVE  KillFrame(c)
<1>0. TypeInv
  BY DEF IInv
<1>p. pc'[c] = pc[c] /\ th'[c] = th[c]
  BY <1>0, OthersPlace
<1>t. /\ heap \in [Workers -> {"none", "live", "freed"}]
      /\ state \in [Workers -> ThreadState]
      /\ infoLock \in [Workers -> Lock]
      /\ Threads \in [Handles -> Workers \cup {NULL}]
  BY <1>0 DEF TypeInv, TypeOK
<1>q. ASSUME UNCHANGED <<Threads, heap, state, infoLock>> PROVE KillFrame(c)
  BY <1>p, <1>q DEF KillFrame, Info
<1>l. ASSUME UNCHANGED <<Threads, heap, state>>, NEW v \in Workers,
             infoLock' \in {[infoLock EXCEPT ![v] = Acquired(@, t)],
                            [infoLock EXCEPT ![v] = Released(@, t)]}
      PROVE  KillFrame(c)
  <2>1. \A u \in Workers : infoLock'[u].owner = c => infoLock[u].owner = c
    <3> SUFFICES ASSUME NEW u \in Workers, infoLock'[u].owner = c PROVE infoLock[u].owner = c
      OBVIOUS
    <3>1. infoLock'[u] \in {infoLock[u], Acquired(infoLock[u], t), Released(infoLock[u], t)}
      BY <1>t, <1>l
    <3>2. Acquired(infoLock[u], t).owner = t
      BY DEF Acquired
    <3>3. Released(infoLock[u], t).owner \in {infoLock[u].owner, NULL}
      BY <1>t DEF Released, Free, Lock
    <3> QED BY <3>1, <3>2, <3>3
  <2> QED BY <1>p, <1>l, <2>1 DEF KillFrame, Info
<1>1. CASE t \in Callers /\ CallerStep(t)
  <2>1. CASE \E w \in Workers : Create(t, w)
    <3>1. PICK w \in Workers : /\ heap' = [heap EXCEPT ![w] = "live"]
                               /\ state' = [state EXCEPT ![w] = "PENDING"]
                               /\ Threads' = [Threads EXCEPT ![th[t]] = w]
                               /\ infoLock' = infoLock /\ pc[t] = "create"
      BY <2>1 DEF Create, locks
    <3>2. th[t] \in Handles
      BY <1>0, <3>1, InfoType
    <3>3. Threads'[th[c]] = Threads[th[c]] \/ Threads'[th[c]] = w
      BY <1>t, <3>1, <3>2
    <3> QED BY <1>p, <1>t, <3>1, <3>3 DEF KillFrame, Info
  <2>2. CASE CleanupFree(t)
    <3>1. /\ UNCHANGED <<Threads, state, infoLock>>
          /\ \/ heap' = heap
             \/ \E w \in Workers : heap' = [heap EXCEPT ![w] = "freed"]
      BY <1>0, <2>2, InfoType DEF CleanupFree
    <3> QED BY <1>p, <1>t, <3>1 DEF KillFrame, Info
  <2>3. CASE CleanupClear(t)
    <3>1. UNCHANGED <<heap, state, infoLock>> /\ Threads' = [Threads EXCEPT ![th[t]] = NULL]
      BY <2>3 DEF CleanupClear
    <3>2. Threads'[th[c]] \in {Threads[th[c]], NULL}
      BY <1>t, <3>1
    <3> QED BY <1>p, <3>1, <3>2 DEF KillFrame, Info
  <2>4. CASE LockForKill(t) \/ get_thread_state(t)
    <3>1. Info(t) \in Workers
      BY <1>0, <2>4, InfoType DEF LockForKill, get_thread_state, Live
    <3> QED BY <1>l, <2>4, <3>1 DEF LockForKill, get_thread_state, store
  <2>5. CASE UnlockKilled(t) \/ ReadState(t)
    <3>1. Info(t) \in Workers
      BY <1>0, <2>5, InfoType DEF UnlockKilled, ReadState, Live
    <3> QED BY <1>l, <2>5, <3>1 DEF UnlockKilled, ReadState, store
  <2>6. CASE StoreCancelled(t)
    <3>1. UNCHANGED <<Threads, heap, infoLock>> /\ \A v \in Workers : state'[v] \in {state[v], "CANCELLED"}
      BY <1>t, <2>6 DEF StoreCancelled, locks
    <3> QED BY <1>p, <3>1 DEF KillFrame, Info
  <2>7. CASE \/ ReadCancelled(t) \/ ReadFinished(t) \/ Cancel(t) \/ Check(t) \/ get_next_handle(t)
            \/ NoMemory(t) \/ NoThread(t) \/ ReadForWait(t) \/ Join(t) \/ ListLock(t) \/ ListNext(t)
    BY <1>q, <2>7 DEF ReadCancelled, ReadFinished, Cancel, Check, get_next_handle, NoMemory,
       NoThread, ReadForWait, Join, ListLock, ListNext, store, locks
  <2> QED BY <1>1, <2>1, <2>2, <2>3, <2>4, <2>5, <2>6, <2>7 DEF CallerStep
<1>2. CASE t \in Callers /\ \E op \in Ops, h \in ThreadHandles : Call(t, op, h)
  BY <1>q, <1>2 DEF Call, store, locks
<1>3. CASE t \in Workers /\ th_exit(t)
  <2>1. Info(t) = t /\ infoLock[t].owner # c
    <3>1. life[t] = "alive"
      BY <1>0, <1>3 DEF th_exit, IInv, Phases, PhaseAt, Towards, Showing, TypeInv, TypeOK
    <3>2. Info(t) = t
      BY <1>3, <3>1, OwnInfo DEF Done
    <3> QED BY <1>3, <3>2 DEF th_exit, Available
  <2>2. /\ state' = [state EXCEPT ![t] = "FINISHED"]
        /\ UNCHANGED <<Threads, heap, infoLock>>
    BY <1>3, <2>1 DEF th_exit, locks
  <2> QED BY <1>p, <1>t, <1>3, <2>1, <2>2 DEF KillFrame, Info
<1>4. CASE t \in Workers /\ Setup(t)
  <2>1. UNCHANGED <<Threads, heap, infoLock>> /\ state' = [state EXCEPT ![t] = "RUNNING"]
    BY <1>4 DEF Setup, locks
  <2> QED BY <1>p, <1>t, <2>1 DEF KillFrame, Info
<1>5. CASE t \in Workers /\ (WorkerStep(t) \/ UserStep(t)) /\ ~th_exit(t) /\ ~Setup(t)
  BY <1>q, <1>5 DEF WorkerStep, UserStep, Start, Started, ReadName, Terminate, CancelledInLog,
     get_thread_name, CancelPoint, FuncReturn, store, locks
<1>6. CASE Shown(t)
  <2>1. CASE Show(t)
    BY <1>q, <2>1 DEF Show, store, locks
  <2>2. CASE LockShown(t) \/ LogShown(t)
    <3>1. Info(t) \in Workers
      BY <1>0, <2>2, InfoType DEF LockShown, LogShown, Live
    <3> QED BY <1>l, <2>2, <3>1 DEF LockShown, LogShown, store
  <2> QED BY <1>6, <2>1, <2>2 DEF Shown
<1> QED BY <1>1, <1>2, <1>3, <1>4, <1>5, <1>6

\* Every step keeps the threads unfinished that a th_kill, past its test, has locked.
LEMMA KillsNext == IInv /\ KillsUnfinished /\ [Next]_vars => KillsUnfinished'
<1> SUFFICES ASSUME IInv, KillsUnfinished, [Next]_vars, NEW c \in Callers
             PROVE  KillsUnfinishedAt(c)'
  BY DEF KillsUnfinished
<1>0. TypeInv
  BY DEF IInv
<1>1. CASE UNCHANGED <<Threads, heap, state, infoLock, pc, th>>
  BY <1>1 DEF KillsUnfinished, KillsUnfinishedAt, Info, Live
<1>2. CASE UNCHANGED vars
  BY <1>1, <1>2 DEF vars, store, locks, frame
<1>3. ASSUME NEW t \in Pthreads, Undefined(t) PROVE KillsUnfinishedAt(c)'
  BY <1>1, <1>3 DEF Undefined, store, locks, frame
<1>4. ASSUME NEW t \in Pthreads,
             \/ t \in Callers /\ CallerStep(t)
             \/ t \in Callers /\ \E op \in Ops, h \in ThreadHandles : Call(t, op, h)
             \/ t \in Workers /\ (WorkerStep(t) \/ UserStep(t))
             \/ Shown(t)
      PROVE  KillsUnfinishedAt(c)'
  <2>1. CASE t = c
    BY <1>0, <1>4, <2>1, OwnKill
  <2>2. CASE t # c
    BY <1>0, <1>4, <2>2, OthersKill, KillFrameKeeps
  <2> QED BY <2>1, <2>2
<1> QED BY <1>2, <1>3, <1>4 DEF Next

\* A FINISHED that a step takes back was stored over by a th_kill with a stale lock.
LEMMA FinishedStep ==
  ASSUME IInv, KillsUnfinished, [Next]_vars, NEW w \in Workers,
         state[w] = "FINISHED", state'[w] # "FINISHED"
  PROVE  \E c \in Callers : pc[c] = "store" /\ Info(c) = w /\ infoLock[w].owner # c
<1>0. TypeOK /\ PhaseAt(w)
  BY DEF IInv, TypeInv, Phases
<1>1. CASE \E c \in Callers : StoreCancelled(c)
  <2>1. PICK c \in Callers : StoreCancelled(c)
    BY <1>1
  <2>2. pc[c] = "store" /\ Live(Info(c)) /\ Info(c) = w
    BY <1>0, <2>1 DEF StoreCancelled, TypeOK
  <2>3. infoLock[w].owner # c
    BY <2>2 DEF KillsUnfinished, KillsUnfinishedAt
  <2> QED BY <2>2, <2>3
<1>2. CASE \E c \in Callers, u \in Workers : Create(c, u)
  BY <1>0, <1>2 DEF Create, PhaseAt, Done, TypeOK
<1>3. CASE \E u \in Workers : Setup(u)
  BY <1>0, <1>3 DEF Setup, PhaseAt, Done, Towards, Showing, TypeOK
<1>4. CASE \E u \in Workers : th_exit(u)
  BY <1>0, <1>4 DEF th_exit, TypeOK
<1>5. CASE state' = state
  BY <1>5
<1>6. state' = state \/ \/ \E c \in Callers : StoreCancelled(c)
                        \/ \E c \in Callers, u \in Workers : Create(c, u)
                        \/ \E u \in Workers : Setup(u) \/ th_exit(u)
  BY DEF Next, vars, CallerStep, WorkerStep, UserStep, Shown, Call, Check, get_next_handle,
     NoMemory, NoThread, ReadForWait, Join, CleanupFree, CleanupClear, LockForKill, ReadCancelled,
     ReadFinished, Cancel, UnlockKilled, get_thread_state, ReadState, ListLock, ListNext, Start,
     Started, ReadName, Terminate, CancelledInLog, get_thread_name, CancelPoint, FuncReturn, Show,
     LockShown, LogShown, Undefined, store
<1> QED BY <1>1, <1>2, <1>3, <1>4, <1>5, <1>6

\* FINISHED stays unless a th_kill whose lock is of another ThreadInfo stores over it.
THEOREM FinishedKeptUnderLock ==
  ASSUME OneExecutorOneReaper PROVE Spec => FinishedIsKeptUnderLock
<1>1. Init => KillsUnfinished
  BY DEF Init, KillsUnfinished, KillsUnfinishedAt
<1>2. IInv /\ KillsUnfinished /\ [Next]_vars =>
        [\A w \in Workers :
           state[w] = "FINISHED" /\ state'[w] # "FINISHED"
             => \E c \in Callers : pc[c] = "store" /\ Info(c) = w /\ infoLock[w].owner # c]_vars
  BY FinishedStep
<1> QED BY <1>1, <1>2, IInvAlways, KillsNext, PTL DEF Spec, FinishedIsKeptUnderLock

(***************************************************************************)
(* th_wait_all, by the one caller that creates threads, whoever reaps.     *)
(***************************************************************************)

\* After one handle a loop is at its next, or done.
LEMMA LoopReturns ==
  ASSUME TypeOK, NEW c \in Callers, call[c] = "th_wait_all", th[c] \in Handles,
         NEW r, Return(c, r), NEW h \in Handles, pc'[c] = "idle" \/ h < th'[c]
  PROVE  h <= th[c]
<1>1. CASE More(th[c])
  BY <1>1 DEF Return, Goto, AllOps, TypeOK
<1>2. CASE ~More(th[c])
  BY <1>2 DEF More
<1> QED BY <1>1, <1>2

\* ... and in either case at a handle of Threads[].
LEMMA LoopHandle ==
  ASSUME TypeOK, NEW c \in Callers, th[c] \in Handles, NEW r, Return(c, r)
  PROVE  th'[c] \in Handles
<1>1. CASE call[c] \in AllOps /\ More(th[c])
  BY <1>1 DEF Return, TypeOK, More
<1>2. CASE ~(call[c] \in AllOps /\ More(th[c]))
  BY <1>2 DEF Return, TypeOK
<1> QED BY <1>1, <1>2

\* Nobody but an executor enters a thread.
LEMMA LoopOfOthers ==
  ASSUME TypeInv, LoopInv, NEW c \in Callers, NEW t \in Pthreads, t # c,
         pc'[c] = pc[c], th'[c] = th[c], cont'[c] = cont[c], call'[c] = call[c],
         \/ \A h \in Handles : Threads'[h] \in {Threads[h], NULL}
         \/ t \in Executors
  PROVE  (LoopRoleAt(c) /\ PurgedAt(c))'
<1>1. LoopRoleAt(c)'
  BY DEF LoopInv, LoopRoleAt, Killing, Towards, Showing
<1>2. PurgedAt(c)'
  BY DEF LoopInv, PurgedAt, Executors
<1> QED BY <1>1, <1>2

\* A caller's own steps.
LEMMA OwnRole ==
  ASSUME TypeInv, LoopInv, NEW c \in Callers,
         \/ CallerStep(c) \/ Shown(c)
         \/ \E op \in Ops, h \in ThreadHandles : Call(c, op, h)
  PROVE  LoopRoleAt(c)'
<1> USE DEF TypeInv, TypeOK, CallerPC, LoopInv, LoopRoleAt, Killing, Towards, Showing, store, locks, os, frame
<1>1. CASE \/ Check(c) \/ get_next_handle(c) \/ NoMemory(c) \/ NoThread(c) \/ CleanupClear(c)
           \/ UnlockKilled(c) \/ ReadState(c)
  <2>1. PICK r \in {THD_OK, THD_ERROR} :
          /\ call' = call /\ cont' = cont
          /\ \/ Return(c, r)
             \/ /\ pc' = [pc EXCEPT ![c] = "lock"] /\ th' = th
             \/ /\ pc' = [pc EXCEPT ![c] = "create"] /\ \E h \in Handles : th' = [th EXCEPT ![c] = h]
    BY <1>1 DEF Check, get_next_handle, NoMemory, NoThread, CleanupClear, UnlockKilled,
       ReadState, Goto
  <2>2. CASE Return(c, r)
    <3>1. pc'[c] \in {"check", "idle"}
      BY <2>2 DEF Return, Goto
    <3>2. call[c] = "th_wait_all" => th'[c] \in Handles
      BY <2>2, LoopHandle
    <3> QED BY <2>1, <3>1, <3>2
  <2>3. CASE pc' = [pc EXCEPT ![c] = "lock"] /\ th' = th
    BY <2>1, <2>3
  <2>4. CASE /\ pc' = [pc EXCEPT ![c] = "create"]
              /\ \E h \in Handles : th' = [th EXCEPT ![c] = h]
    BY <2>1, <2>4
  <2> QED BY <2>1, <2>2, <2>3, <2>4
<1>2. CASE \/ ReadForWait(c) \/ Join(c) \/ CleanupFree(c) \/ LockForKill(c) \/ ReadCancelled(c)
           \/ ReadFinished(c) \/ Cancel(c) \/ StoreCancelled(c) \/ get_thread_state(c)
  BY <1>2 DEF ReadForWait, Join, CleanupFree, LockForKill, ReadCancelled, ReadFinished, Cancel,
     StoreCancelled, get_thread_state, ShowThread, Goto
<1>3. CASE ListLock(c)
  BY <1>3 DEF ListLock, Goto
<1>4. CASE ListNext(c)
  BY <1>4 DEF ListNext, Return, Goto, AllOps
<1>5. CASE \E w \in Workers : Create(c, w)
  BY <1>5 DEF Create
<1>6. CASE Shown(c)
  BY <1>6 DEF Shown, Show, LockShown, LogShown, ShowEnds, Goto
<1>7. CASE \E op \in Ops, h \in ThreadHandles : Call(c, op, h)
  BY <1>7 DEF Call, Entry, Goto, HandleOps
<1> QED BY <1>1, <1>2, <1>3, <1>4, <1>5, <1>6, <1>7 DEF CallerStep

\* Behind the loop of th_wait_all the handles are free.
LEMMA OwnPurged ==
  ASSUME TypeInv, Roles, LoopInv, NEW c \in Callers,
         \/ CallerStep(c) \/ Shown(c)
         \/ \E op \in Ops, h \in ThreadHandles : Call(c, op, h)
  PROVE  PurgedAt(c)'
<1> USE DEF TypeInv, TypeOK, CallerPC, store, locks, os, frame
<1> SUFFICES ASSUME Executors \subseteq {c}, call'[c] = "th_wait_all", NEW h \in Handles,
                    pc'[c] = "idle" \/ h < th'[c]
             PROVE  Threads'[h] = NULL
  BY DEF PurgedAt, Executors
<1>1. CASE \E op \in Ops, i \in ThreadHandles : Call(c, op, i)
  BY <1>1 DEF Call, Entry, Goto, HandleOps
<1>2. CASE CallerStep(c) \/ Shown(c)
  <2>1. call[c] = "th_wait_all"
    BY <1>2 DEF CallerStep, Shown, Show, LockShown, LogShown, Check, get_next_handle,
       NoMemory, NoThread, Create, ReadForWait, Join, CleanupFree, CleanupClear, LockForKill,
       ReadCancelled, ReadFinished, Cancel, StoreCancelled, UnlockKilled, get_thread_state,
       ReadState, ListLock, ListNext
  <2>2. /\ th[c] \in Handles
        /\ pc[c] \notin {"kill", "kill_finished", "cancel", "store", "killed", "refused", "state",
                       "list_lock", "list", "next_handle", "create", "idle"}
        /\ Showing(c) => cont[c] \notin {"idle", "killed", "refused"}
        /\ \A i \in Handles : i < th[c] => Threads[i] = NULL
    <3>1. LoopRoleAt(c) /\ PurgedAt(c) /\ RoleAt(c)
      BY DEF LoopInv, Roles
    <3>2. pc[c] # "idle"
      BY <1>2 DEF CallerStep, Shown, Show, LockShown, LogShown, Check, get_next_handle,
         NoMemory, NoThread, Create, ReadForWait, Join, CleanupFree, CleanupClear, LockForKill,
         ReadCancelled, ReadFinished, Cancel, StoreCancelled, UnlockKilled, get_thread_state,
         ReadState, ListLock, ListNext
    <3> QED BY <2>1, <3>1, <3>2 DEF LoopRoleAt, PurgedAt, RoleAt, Killing, Towards, ShownFrom
  <2>3. CASE pc'[c] # "idle" /\ th' = th /\ Threads' = Threads
    BY <2>2, <2>3
  <2>4. CASE Check(c)
    <3>1. CASE Return(c, THD_ERROR) /\ Info(c) = NULL
      <4>1. h <= th[c] /\ Threads' = Threads
        BY <2>1, <2>2, <2>4, <3>1, LoopReturns DEF Check
      <4>2. h = th[c] \/ h < th[c]
        BY <2>2, <4>1
      <4> QED BY <2>2, <3>1, <4>1, <4>2 DEF Info
    <3>2. CASE ~(Return(c, THD_ERROR) /\ Info(c) = NULL)
      BY <2>2, <2>3, <2>4, <3>2 DEF Check, Goto, th_valid_handle
    <3> QED BY <3>1, <3>2
  <2>5. CASE CleanupClear(c)
    <3>1. h <= th[c] /\ Threads' = [Threads EXCEPT ![th[c]] = NULL]
      BY <2>1, <2>2, <2>5, LoopReturns DEF CleanupClear
    <3>2. h = th[c] \/ h < th[c]
      BY <2>2, <3>1
    <3> QED BY <2>2, <3>1, <3>2
  <2>6. CASE ReadForWait(c) \/ Join(c) \/ CleanupFree(c)
    BY <2>3, <2>6 DEF ReadForWait, Join, CleanupFree, ShowThread, Goto
  <2>7. CASE Shown(c)
    <3>1. Showing(c) /\ th' = th /\ Threads' = Threads
      BY <2>7 DEF Shown, Show, LockShown, LogShown, Showing
    <3>2. pc'[c] \in {"show_lock", "show_log", cont[c]}
      BY <2>7 DEF Shown, Show, LockShown, LogShown, ShowEnds, Goto
    <3> QED BY <2>2, <2>3, <3>1, <3>2
  <2>8. CASE ~Check(c) /\ ~CleanupClear(c) /\ ~(ReadForWait(c) \/ Join(c) \/ CleanupFree(c)) /\ ~Shown(c)
    BY <1>2, <2>1, <2>2, <2>8 DEF CallerStep, get_next_handle, NoMemory, NoThread, Create,
       LockForKill, ReadCancelled, ReadFinished, Cancel, StoreCancelled, UnlockKilled,
       get_thread_state, ReadState, ListLock, ListNext
  <2> QED BY <2>4, <2>5, <2>6, <2>7, <2>8
<1> QED BY <1>1, <1>2

\* Every step keeps the handles behind each loop of th_wait_all free.
LEMMA LoopNext == TypeInv /\ Roles /\ LoopInv /\ [Next]_vars => LoopInv'
<1> SUFFICES ASSUME TypeInv, Roles, LoopInv, [Next]_vars, NEW c \in Callers
             PROVE  (LoopRoleAt(c) /\ PurgedAt(c))'
  BY DEF LoopInv
<1>1. CASE UNCHANGED <<pc, th, cont, call, Threads>>
  BY <1>1 DEF LoopInv, LoopRoleAt, PurgedAt, Killing, Towards, Showing, Executors
<1>2. CASE UNCHANGED vars
  BY <1>1, <1>2 DEF vars, store, frame
<1>3. ASSUME NEW d \in Callers, CallerStep(d) PROVE (LoopRoleAt(c) /\ PurgedAt(c))'
  <2>1. CASE d = c
    BY <1>3, <2>1, OwnRole, OwnPurged
  <2>2. CASE d # c /\ \E w \in Workers : Create(d, w)
    <3>1. PICK w \in Workers : Create(d, w)
      BY <2>2
    <3>2. d \in Executors
      BY <3>1 DEF Create, Executors, Roles, RoleAt
    <3>3. pc'[c] = pc[c] /\ th'[c] = th[c] /\ cont'[c] = cont[c] /\ call'[c] = call[c]
      BY <2>2, <3>1 DEF Create, TypeInv, TypeOK
    <3> QED BY <2>2, <3>2, <3>3, LoopOfOthers
  <2>3. CASE d # c /\ ~\E w \in Workers : Create(d, w)
    <3>1. /\ pc'[c] = pc[c] /\ th'[c] = th[c] /\ cont'[c] = cont[c] /\ call'[c] = call[c]
          /\ \A h \in Handles : Threads'[h] \in {Threads[h], NULL}
      BY <1>3, <2>3 DEF CallerStep, Check, get_next_handle, NoMemory, NoThread, ReadForWait,
         Join, CleanupFree, CleanupClear, LockForKill, ReadCancelled, ReadFinished,
         Cancel, StoreCancelled, UnlockKilled, get_thread_state, ReadState, ListLock, ListNext, Return, ShowThread, Goto, store, frame,
         TypeInv, TypeOK
    <3> QED BY <2>3, <3>1, LoopOfOthers
  <2> QED BY <2>1, <2>2, <2>3
<1>4. ASSUME NEW d \in Callers, NEW op \in Ops, NEW h \in ThreadHandles, Call(d, op, h)
      PROVE  (LoopRoleAt(c) /\ PurgedAt(c))'
  <2>1. CASE d = c
    BY <1>4, <2>1, OwnRole, OwnPurged
  <2>2. CASE d # c
    BY <1>4, <2>2, LoopOfOthers DEF Call, Goto, store, TypeInv, TypeOK
  <2> QED BY <2>1, <2>2
<1>5. ASSUME NEW w \in Workers, WorkerStep(w) \/ UserStep(w)
      PROVE  (LoopRoleAt(c) /\ PurgedAt(c))'
  <2>1. /\ w # c /\ pc'[c] = pc[c] /\ th'[c] = th[c] /\ cont'[c] = cont[c] /\ call'[c] = call[c]
        /\ Threads' = Threads
    BY <1>5 DEF WorkerStep, UserStep, Start, Setup, Started, ReadName, th_exit, Terminate,
       CancelledInLog, get_thread_name, CancelPoint, FuncReturn, ShowThread, Goto, store, frame,
       TypeInv, TypeOK
  <2> QED BY <2>1, LoopOfOthers
<1>6. ASSUME NEW t \in Pthreads, Shown(t) PROVE (LoopRoleAt(c) /\ PurgedAt(c))'
  <2>1. CASE t = c
    BY <1>6, <2>1, OwnRole, OwnPurged
  <2>2. CASE t # c
    <3>1. /\ pc'[c] = pc[c] /\ th'[c] = th[c] /\ cont'[c] = cont[c] /\ call'[c] = call[c]
          /\ Threads' = Threads
      BY <1>6, <2>2 DEF Shown, Show, LockShown, LogShown, ShowEnds, Goto, store, frame,
         TypeInv, TypeOK
    <3> QED BY <2>2, <3>1, LoopOfOthers
  <2> QED BY <2>1, <2>2
<1>7. ASSUME NEW t \in Pthreads, Undefined(t) PROVE (LoopRoleAt(c) /\ PurgedAt(c))'
  BY <1>1, <1>7 DEF Undefined, store, frame
<1> QED BY <1>2, <1>3, <1>4, <1>5, <1>6, <1>7 DEF Next

\* After th_wait_all by the one caller that creates threads, nothing is managed,
\* however many callers reap.
THEOREM WaitAllLeavesNothing == Spec => []WaitAllPurges
<1>1. Init => Roles /\ LoopInv
  BY DEF Init, Roles, RoleAt, LoopInv, LoopRoleAt, PurgedAt, Killing, Towards, Showing, Executors
<1>2. LoopInv => WaitAllPurges
  BY DEF LoopInv, PurgedAt, WaitAllPurges
<1> QED BY <1>1, <1>2, TypeInit, TypeNext, RolesNext, LoopNext, PTL DEF Spec
===============================================================================
