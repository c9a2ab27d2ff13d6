--------------------------- MODULE ThreadMgrProofs ---------------------------
(***************************************************************************)
(* Proofs about ThreadMgr, for any callers, workers, MaxThreads and        *)
(* MaxFailures.  TypeCorrect and StoreExclusion hold whatever the callers  *)
(* do; the others when one caller creates and one caller reaps.            *)
(***************************************************************************)
EXTENDS ThreadMgrInv, TLAPS

USE ThreadMgrAssumption DEF Pthreads, Handles, ThreadHandles, THD_OK, THD_ERROR

\* The initial state is typed.
LEMMA TypeInit == Init => TypeInv
BY DEF Init, TypeInv, TypeOK, HandlesInRange, ShownFrom, Showing, Lock, Free, CallerPC,
       WorkerPC, ThreadState, Ops

\* What Return does.
Returned(c, p, h, x) ==
  /\ pc' = [pc EXCEPT ![c] = p]
  /\ th' = [th EXCEPT ![c] = h]
  /\ rc' = [rc EXCEPT ![c] = x]

\* Return leaves a caller idle or at the next handle of its loop.
LEMMA ReturnFacts ==
  ASSUME TypeOK, NEW c \in Callers, NEW r \in {THD_OK, THD_ERROR}, Return(c, r)
  PROVE  \E p \in {"check", "idle"}, h \in Handles, x \in {THD_OK, THD_ERROR} :
            Returned(c, p, h, x)
<1>1. th[c] \in ThreadHandles /\ 0 \in Handles
  BY DEF TypeOK
<1>2. CASE call[c] \in AllOps /\ More(th[c])
  <2>1. th[c] + 1 \in Handles
    BY <1>1, <1>2 DEF More
  <2> QED BY <1>2, <2>1 DEF Return, Returned, Goto, AndReturn
<1>3. CASE call[c] \in AllOps /\ ~More(th[c])
  BY <1>1, <1>3 DEF Return, Returned, Goto, AndReturn
<1>4. CASE call[c] \notin AllOps
  BY <1>1, <1>4 DEF Return, Returned, Goto
<1> QED BY <1>2, <1>3, <1>4

\* pthread_mutex_lock keeps a mutex a mutex ...
LEMMA AcquiredType ==
  ASSUME NEW m \in Lock, NEW t \in Pthreads, Available(m, t)
  PROVE  Acquired(m, t) \in Lock
BY DEF Lock, Free, Available, Acquired

\* ... and so does pthread_mutex_unlock.
LEMMA ReleasedType ==
  ASSUME NEW m \in Lock, NEW t \in Pthreads
  PROVE  Released(m, t) \in Lock
BY DEF Lock, Free, Released

\* A pointer that is read from Threads[] at a handle in range.
LEMMA InfoType ==
  ASSUME TypeInv, NEW t \in Pthreads, pc[t] \notin {"check", "next_handle"}
  PROVE  /\ th[t] \in Handles
         /\ Info(t) \in Workers \cup {NULL}
         /\ Info(t) # NULL => infoLock[Info(t)] \in Lock
BY DEF TypeInv, TypeOK, HandlesInRange, Info

\* Every step keeps the types, the handles in range and where show_thread returns to.
LEMMA TypeNext == TypeInv /\ [Next]_vars => TypeInv'
<1> SUFFICES ASSUME TypeInv, [Next]_vars PROVE TypeInv'
  OBVIOUS
<1> USE DEF TypeInv, TypeOK, HandlesInRange, ShownFrom, Showing, CallerPC, WorkerPC,
            ThreadState, Ops, Returned
<1>1. CASE UNCHANGED vars
  BY <1>1 DEF vars, store, locks, os, frame
<1>2. ASSUME NEW c \in Callers, Check(c) PROVE TypeInv'
  <2>1. CASE th_valid_handle(th[c]) /\ Goto(c, "lock") /\ UNCHANGED <<th, rc>>
    BY <1>2, <2>1 DEF Check, th_valid_handle, Goto, store, locks, os
  <2>2. CASE Return(c, THD_ERROR)
    <3>1. PICK p \in {"check", "idle"}, h \in Handles, x \in {THD_OK, THD_ERROR} :
                 Returned(c, p, h, x)
      BY <2>2, ReturnFacts
    <3> QED BY <1>2, <3>1 DEF Check, store, locks, os
  <2> QED BY <1>2, <2>1, <2>2 DEF Check
<1>3. ASSUME NEW c \in Callers, get_next_handle(c) PROVE TypeInv'
  <2>1. CASE \E h \in Handles : /\ th' = [th EXCEPT ![c] = h]
                                /\ Goto(c, "create")
                                /\ UNCHANGED rc
    BY <1>3, <2>1 DEF get_next_handle, Goto, store, locks, os
  <2>2. CASE Return(c, THD_ERROR)
    <3>1. PICK p \in {"check", "idle"}, h \in Handles, x \in {THD_OK, THD_ERROR} :
                 Returned(c, p, h, x)
      BY <2>2, ReturnFacts
    <3> QED BY <1>3, <3>1 DEF get_next_handle, store, locks, os
  <2> QED BY <1>3, <2>1, <2>2 DEF get_next_handle
<1>4. ASSUME NEW c \in Callers, NoMemory(c) PROVE TypeInv'
  <2>1. PICK p \in {"check", "idle"}, h \in Handles, x \in {THD_OK, THD_ERROR} :
               Returned(c, p, h, x)
    BY <1>4, ReturnFacts DEF NoMemory
  <2> QED BY <1>4, <2>1, AcquiredType, ReleasedType, InfoType DEF NoMemory, store,
     locks, os
<1>5. ASSUME NEW c \in Callers, NoThread(c) PROVE TypeInv'
  <2>1. PICK p \in {"check", "idle"}, h \in Handles, x \in {THD_OK, THD_ERROR} :
               Returned(c, p, h, x)
    BY <1>5, ReturnFacts DEF NoThread
  <2> QED BY <1>5, <2>1, AcquiredType, ReleasedType, InfoType DEF NoThread, store, os
<1>6. ASSUME NEW c \in Callers, ReadForWait(c) PROVE TypeInv'
  <2>1. joinee' \in [Callers -> Workers \cup {NULL}]
    BY <1>6, InfoType DEF ReadForWait
  <2>2. PICK p \in {"show", "join"}, k \in {"idle", "join", "cleanup", "killed", "refused"} :
               /\ pc' = [pc EXCEPT ![c] = p]
               /\ cont' = [cont EXCEPT ![c] = k]
               /\ p = "show" => k # "idle"
    <3>1. CASE state[Info(c)] = "CANCELLED"
      <4>1. /\ pc' = [pc EXCEPT ![c] = "join"]
            /\ cont' = [cont EXCEPT ![c] = cont[c]]
        BY <1>6, <3>1 DEF ReadForWait, Goto, Joins
      <4> QED BY <4>1
    <3>2. CASE state[Info(c)] # "CANCELLED"
      BY <1>6, <3>2 DEF ReadForWait, ShowThread, Goto
    <3> QED BY <3>1, <3>2
  <2>3. th' = th /\ th[c] \in Handles
    BY <1>6, InfoType DEF ReadForWait
  <2>4. TypeOK'
    BY <1>6, <2>1, <2>2 DEF ReadForWait, store, locks, os
  <2>5. HandlesInRange'
    BY <2>2, <2>3
  <2>6. ShownFrom'
    BY <2>2
  <2> QED BY <2>4, <2>5, <2>6
<1>7. ASSUME NEW c \in Callers, Join(c) PROVE TypeInv'
  BY <1>7, AcquiredType, ReleasedType, InfoType DEF Join, ShowThread, Goto, store, locks
<1>8. ASSUME NEW c \in Callers, CleanupFree(c) PROVE TypeInv'
  BY <1>8, AcquiredType, ReleasedType, InfoType DEF CleanupFree, Goto, os, frame
<1>9. ASSUME NEW c \in Callers, CleanupClear(c) PROVE TypeInv'
  <2>1. PICK p \in {"check", "idle"}, h \in Handles, x \in {THD_OK, THD_ERROR} :
               Returned(c, p, h, x)
    BY <1>9, ReturnFacts DEF CleanupClear
  <2>2. Threads' \in [Handles -> Workers \cup {NULL}] /\ StoreLock' \in Lock
    BY <1>9, ReleasedType DEF CleanupClear
  <2> QED BY <1>9, <2>1, <2>2 DEF CleanupClear, os
<1>10. ASSUME NEW c \in Callers, LockForKill(c) PROVE TypeInv'
  BY <1>10, AcquiredType, ReleasedType, InfoType DEF LockForKill, Live, Goto, store, os,
     frame
<1>11. ASSUME NEW c \in Callers, ReadCancelled(c) \/ ReadFinished(c) PROVE TypeInv'
  <2>1. UNCHANGED <<Threads, heap, state, infoLock, StoreLock, life, cancel, th, call, rc,
                    joinee, failures, fault>>
    BY <1>11 DEF ReadCancelled, ReadFinished, store, locks, os
  <2>2. th[c] \in Handles
    BY <1>11, InfoType DEF ReadCancelled, ReadFinished
  <2>3. CASE /\ pc' = [pc EXCEPT ![c] = "show"]
             /\ cont' = [cont EXCEPT ![c] = "refused"]
    BY <2>1, <2>2, <2>3
  <2>4. CASE cont' = cont /\ \E p \in {"kill_finished", "cancel"} : pc' = [pc EXCEPT ![c] = p]
    BY <2>1, <2>2, <2>4
  <2> QED BY <1>11, <2>3, <2>4 DEF ReadCancelled, ReadFinished, ShowThread, Goto
<1>12. ASSUME NEW c \in Callers, Cancel(c) \/ StoreCancelled(c) PROVE TypeInv'
  <2>1. CASE Cancel(c)
    BY <2>1 DEF Cancel, Goto, store, locks, frame
  <2>2. CASE StoreCancelled(c)
    BY <2>2 DEF StoreCancelled, ShowThread, Goto, locks, os
  <2> QED BY <1>12, <2>1, <2>2
<1>13. ASSUME NEW c \in Callers, UnlockKilled(c) \/ ReadState(c) PROVE TypeInv'
  <2>1. PICK p \in {"check", "idle"}, h \in Handles, x \in {THD_OK, THD_ERROR} :
               Returned(c, p, h, x)
    BY <1>13, ReturnFacts DEF UnlockKilled, ReadState
  <2>2. infoLock' \in [Workers -> Lock]
    <3>1. /\ Info(c) \in Workers
          /\ infoLock' = [infoLock EXCEPT ![Info(c)] = Released(@, c)]
      BY <1>13, InfoType DEF UnlockKilled, ReadState, Live
    <3> QED BY <3>1, ReleasedType
  <2>3. cont' = cont /\ UNCHANGED <<store, StoreLock, os, call, joinee, failures, fault>>
    BY <1>13 DEF UnlockKilled, ReadState
  <2>4. TypeOK'
    BY <2>1, <2>2, <2>3 DEF store, os
  <2>5. HandlesInRange'
    BY <2>1
  <2>6. ShownFrom'
    BY <2>1, <2>3
  <2> QED BY <2>4, <2>5, <2>6
<1>14. ASSUME NEW c \in Callers, get_thread_state(c) PROVE TypeInv'
  BY <1>14, AcquiredType, ReleasedType, InfoType DEF get_thread_state, Live, Goto, store, os,
     frame
<1>15. ASSUME NEW c \in Callers, ListLock(c) PROVE TypeInv'
  BY <1>15, AcquiredType, ReleasedType, InfoType DEF ListLock, Goto, store, os, frame
<1>16. ASSUME NEW c \in Callers, ListNext(c) PROVE TypeInv'
  <2>1. CASE More(th[c])
    <3>1. th[c] + 1 \in Handles
      BY <1>16, <2>1, InfoType DEF ListNext, More
    <3>2. /\ th' = [th EXCEPT ![c] = th[c] + 1]
          /\ UNCHANGED <<StoreLock, rc, pc>>
      BY <1>16, <2>1 DEF ListNext
    <3>4. TypeOK'
      BY <1>16, <3>1, <3>2 DEF ListNext, store, os
    <3>3. HandlesInRange'
      BY <3>1, <3>2
    <3>5. ShownFrom'
      BY <1>16, <3>2 DEF ListNext
    <3> QED BY <3>3, <3>4, <3>5
  <2>2. CASE ~More(th[c])
    <3>1. PICK p \in {"check", "idle"}, h \in Handles, x \in {THD_OK, THD_ERROR} :
                 Returned(c, p, h, x)
      BY <1>16, <2>2, ReturnFacts DEF ListNext
    <3>2. StoreLock' \in Lock
      BY <1>16, <2>2, ReleasedType DEF ListNext
    <3>3. UNCHANGED <<store, infoLock, os, cont, call, joinee, failures, fault>>
      BY <1>16 DEF ListNext
    <3> QED BY <3>1, <3>2, <3>3 DEF store, os
  <2> QED BY <2>1, <2>2
<1>17. ASSUME NEW w \in Workers, Start(w) PROVE TypeInv'
  BY <1>17, AcquiredType, ReleasedType, InfoType DEF Start, Goto, store, os, frame
<1>18. ASSUME NEW w \in Workers, Setup(w) PROVE TypeInv'
  BY <1>18, AcquiredType, ReleasedType, InfoType DEF Setup, ShowThread, Goto, locks, os
<1>19. ASSUME NEW w \in Workers, Started(w) PROVE TypeInv'
  BY <1>19, AcquiredType, ReleasedType, InfoType DEF Started, Goto, store, os, frame
<1>20. ASSUME NEW w \in Workers, get_thread_name(w) PROVE TypeInv'
  BY <1>20, AcquiredType, ReleasedType, InfoType DEF get_thread_name, Goto, store,
     locks, os, frame
<1>21. ASSUME NEW w \in Workers, ReadName(w) PROVE TypeInv'
  BY <1>21, AcquiredType, ReleasedType, InfoType DEF ReadName, Goto, store, locks, os,
     frame
<1>22. ASSUME NEW w \in Workers, CancelPoint(w) PROVE TypeInv'
  BY <1>22, AcquiredType, ReleasedType, InfoType DEF CancelPoint, Goto, store, locks,
     frame
<1>23. ASSUME NEW w \in Workers, FuncReturn(w) PROVE TypeInv'
  BY <1>23, AcquiredType, ReleasedType, InfoType DEF FuncReturn, Goto, store, locks, os,
     frame
<1>24. ASSUME NEW w \in Workers, th_exit(w) PROVE TypeInv'
  BY <1>24, AcquiredType, ReleasedType, InfoType DEF th_exit, ShowThread, Goto, locks, os
<1>25. ASSUME NEW w \in Workers, Terminate(w) PROVE TypeInv'
  BY <1>25, AcquiredType, ReleasedType, InfoType DEF Terminate, Goto, store, locks, frame
<1>26. ASSUME NEW w \in Workers, CancelledInLog(w) PROVE TypeInv'
  BY <1>26, AcquiredType, ReleasedType, InfoType DEF CancelledInLog, Goto, store, locks,
     frame
<1>27. ASSUME NEW t \in Pthreads, Show(t) PROVE TypeInv'
  <2>1. pc[t] = "show" /\ th' = th
    BY <1>27 DEF Show
  <2>2. CASE Info(t) # NULL
    <3>1. pc' = [pc EXCEPT ![t] = "show_lock"] /\ cont' = cont
      BY <1>27, <2>2 DEF Show, Goto
    <3>2. TypeOK'
      <4>1. /\ pc' \in [Pthreads -> CallerPC \cup WorkerPC]
            /\ \A u \in Callers : pc'[u] \in CallerPC
            /\ \A u \in Workers : pc'[u] \in WorkerPC
        BY <3>1
      <4>2. UNCHANGED <<store, locks, os, th, cont, call, rc, joinee, failures, fault>>
        BY <1>27, <3>1 DEF Show
      <4> QED BY <4>1, <4>2 DEF store, locks, os
    <3>3. HandlesInRange'
      BY <2>1, <3>1
    <3>4. ShownFrom'
      BY <3>1, <2>1
    <3> QED BY <3>2, <3>3, <3>4
  <2>3. CASE Info(t) = NULL
    <3>1. pc' = [pc EXCEPT ![t] = cont[t]] /\ cont' = [cont EXCEPT ![t] = "idle"]
      BY <1>27, <2>3 DEF Show, ShowEnds, Goto
    <3>2. TypeOK'
      BY <1>27, <2>1, <3>1 DEF Show, store, locks, os
    <3>3. cont[t] \notin {"show", "show_lock", "show_log", "check", "next_handle"}
      OBVIOUS
    <3>4. HandlesInRange'
      BY <2>1, <3>1
    <3>5. ShownFrom'
      BY <2>1, <3>1, <3>3
    <3> QED BY <3>2, <3>4, <3>5
  <2> QED BY <2>2, <2>3
<1>28. ASSUME NEW t \in Pthreads, LockShown(t) PROVE TypeInv'
  BY <1>28, AcquiredType, ReleasedType, InfoType DEF LockShown, Live, Goto, store, os,
     frame
<1>29. ASSUME NEW t \in Pthreads, LogShown(t) PROVE TypeInv'
  BY <1>29, AcquiredType, ReleasedType, InfoType DEF LogShown, Live, ShowEnds, Goto,
     store, os
<1>30. ASSUME NEW t \in Pthreads, Undefined(t) PROVE TypeInv'
  BY <1>30, AcquiredType, ReleasedType, InfoType DEF Undefined, store, locks, os, frame
<1>31. ASSUME NEW c \in Callers, NEW w \in Workers, Create(c, w) PROVE TypeInv'
  <2>1. /\ life' \in [Workers -> {"none", "alive", "exiting", "dead", "joined"}]
        /\ heap' \in [Workers -> {"none", "live", "freed"}]
        /\ state' \in [Workers -> ThreadState]
    BY <1>31 DEF Create
  <2>2. Threads' \in [Handles -> Workers \cup {NULL}]
    BY <1>31 DEF Create
  <2>3. th[c] \in Handles /\ c # w
    BY <1>31 DEF Create
  <2>4. /\ pc' = [pc EXCEPT ![c] = "idle", ![w] = "start"]
        /\ th' = [th EXCEPT ![w] = th[c], ![c] = 0]
        /\ rc' = [rc EXCEPT ![c] = th[c]]
        /\ cont' = cont
    BY <1>31 DEF Create
  <2>5. /\ pc' \in [Pthreads -> CallerPC \cup WorkerPC]
        /\ \A t \in Callers : pc'[t] \in CallerPC
        /\ \A t \in Workers : pc'[t] \in WorkerPC
    <3>1. /\ pc \in [Pthreads -> CallerPC \cup WorkerPC]
          /\ \A t \in Callers : pc[t] \in CallerPC
          /\ \A t \in Workers : pc[t] \in WorkerPC
          /\ "idle" \in CallerPC /\ "start" \in WorkerPC
      OBVIOUS
    <3>2. c \notin Workers /\ w \notin Callers
      OBVIOUS
    <3> HIDE DEF TypeInv, TypeOK, HandlesInRange, ShownFrom, CallerPC, WorkerPC
    <3> QED BY <2>3, <2>4, <3>1, <3>2
  <2>6. th' \in [Pthreads -> ThreadHandles]
    <3>1. th[c] \in ThreadHandles /\ 0 \in ThreadHandles
      OBVIOUS
    <3> HIDE DEF ThreadHandles
    <3> QED BY <2>4, <3>1
  <2>10. rc' \in [Callers -> ThreadHandles]
    BY <2>3, <2>4
  <2>7. TypeOK'
    <3>1. UNCHANGED <<infoLock, StoreLock, cancel, cont, call, joinee, failures, fault>>
      BY <1>31 DEF Create, locks
    <3> QED BY <2>1, <2>2, <2>5, <2>6, <2>10, <3>1
  <2>8. HandlesInRange'
    BY <2>3, <2>4
  <2>9. ShownFrom'
    BY <2>3, <2>4
  <2> QED BY <2>7, <2>8, <2>9
<1>32. ASSUME NEW c \in Callers, NEW op \in Ops, NEW h \in ThreadHandles, Call(c, op, h)
      PROVE  TypeInv'
  BY <1>32 DEF Call, Entry, HandleOps, Goto, store, locks, os
<1>33. ASSUME NEW c \in Callers, CallerStep(c) PROVE TypeInv'
  BY <1>33, <1>2, <1>3, <1>4, <1>5, <1>6, <1>7, <1>8, <1>9, <1>10, <1>11, <1>12, <1>13,
     <1>14, <1>15, <1>16, <1>31 DEF CallerStep
<1>34. ASSUME NEW w \in Workers, WorkerStep(w) \/ UserStep(w) PROVE TypeInv'
  BY <1>34, <1>17, <1>18, <1>19, <1>20, <1>21, <1>22, <1>23, <1>24, <1>25, <1>26
     DEF WorkerStep, UserStep
<1>35. ASSUME NEW t \in Pthreads, Shown(t) \/ Undefined(t) PROVE TypeInv'
  BY <1>35, <1>27, <1>28, <1>29, <1>30 DEF Shown
<1> HIDE DEF TypeInv
<1> QED BY <1>1, <1>32, <1>33, <1>34, <1>35 DEF Next

\* A caller is where its operation brought it.
LEMMA RolesNext == TypeInv /\ Roles /\ [Next]_vars => Roles'
<1> SUFFICES ASSUME TypeInv, Roles, [Next]_vars PROVE Roles'
  OBVIOUS
<1> USE DEF Roles, RoleAt, TypeInv, TypeOK, CallerPC, WorkerPC, Towards, Showing, os, frame
<1>1. CASE UNCHANGED vars
  BY <1>1 DEF vars
<1>2. ASSUME NEW c \in Callers, Check(c) PROVE Roles'
  BY <1>2 DEF Check, Return, Goto
<1>3. ASSUME NEW c \in Callers, get_next_handle(c) PROVE Roles'
  <2>1. /\ UNCHANGED <<call, cont>> /\ pc[c] = "next_handle"
        /\ \/ pc' = [pc EXCEPT ![c] = "create"]
           \/ pc' = [pc EXCEPT ![c] = "check"] /\ call[c] \in AllOps
           \/ pc' = [pc EXCEPT ![c] = "idle"]
    BY <1>3 DEF get_next_handle, Return, Goto
  <2> QED BY <2>1
<1>4. ASSUME NEW c \in Callers, NoMemory(c) PROVE Roles'
  BY <1>4 DEF NoMemory, Return, Goto
<1>5. ASSUME NEW c \in Callers, NoThread(c) PROVE Roles'
  BY <1>5 DEF NoThread, Return, Goto
<1>6. ASSUME NEW c \in Callers, ReadForWait(c) PROVE Roles'
  BY <1>6 DEF ReadForWait, ShowThread, Goto
<1>7. ASSUME NEW c \in Callers, Join(c) PROVE Roles'
  BY <1>7 DEF Join, ShowThread, Goto
<1>8. ASSUME NEW c \in Callers, CleanupFree(c) PROVE Roles'
  BY <1>8 DEF CleanupFree, Goto
<1>9. ASSUME NEW c \in Callers, CleanupClear(c) PROVE Roles'
  BY <1>9 DEF CleanupClear, Return, Goto
<1>10. ASSUME NEW c \in Callers, LockForKill(c) PROVE Roles'
  BY <1>10 DEF LockForKill, Goto
<1>11. ASSUME NEW c \in Callers, ReadCancelled(c) \/ ReadFinished(c) PROVE Roles'
  BY <1>11 DEF ReadCancelled, ReadFinished, ShowThread, Goto
<1>12. ASSUME NEW c \in Callers, Cancel(c) \/ StoreCancelled(c) PROVE Roles'
  BY <1>12 DEF Cancel, StoreCancelled, ShowThread, Goto
<1>13. ASSUME NEW c \in Callers, UnlockKilled(c) \/ ReadState(c) PROVE Roles'
  BY <1>13 DEF UnlockKilled, ReadState, Return, Goto
<1>14. ASSUME NEW c \in Callers, get_thread_state(c) PROVE Roles'
  BY <1>14 DEF get_thread_state, Goto
<1>15. ASSUME NEW c \in Callers, ListLock(c) PROVE Roles'
  BY <1>15 DEF ListLock, Goto
<1>16. ASSUME NEW c \in Callers, ListNext(c) PROVE Roles'
  BY <1>16 DEF ListNext, Return, Goto
<1>17. ASSUME NEW w \in Workers, Start(w) PROVE Roles'
  BY <1>17 DEF Start, Goto
<1>18. ASSUME NEW w \in Workers, Setup(w) PROVE Roles'
  BY <1>18 DEF Setup, ShowThread, Goto
<1>19. ASSUME NEW w \in Workers, Started(w) PROVE Roles'
  BY <1>19 DEF Started, Goto
<1>20. ASSUME NEW w \in Workers, get_thread_name(w) PROVE Roles'
  BY <1>20 DEF get_thread_name, Goto
<1>21. ASSUME NEW w \in Workers, ReadName(w) PROVE Roles'
  BY <1>21 DEF ReadName, Goto
<1>22. ASSUME NEW w \in Workers, CancelPoint(w) PROVE Roles'
  BY <1>22 DEF CancelPoint, Goto
<1>23. ASSUME NEW w \in Workers, FuncReturn(w) PROVE Roles'
  BY <1>23 DEF FuncReturn, Goto
<1>24. ASSUME NEW w \in Workers, th_exit(w) PROVE Roles'
  BY <1>24 DEF th_exit, ShowThread, Goto
<1>25. ASSUME NEW w \in Workers, Terminate(w) PROVE Roles'
  BY <1>25 DEF Terminate, Goto
<1>26. ASSUME NEW w \in Workers, CancelledInLog(w) PROVE Roles'
  BY <1>26 DEF CancelledInLog, Goto
<1>27. ASSUME NEW t \in Pthreads, Shown(t) PROVE Roles'
  <2>1. \/ pc' = [pc EXCEPT ![t] = "show_lock"] /\ UNCHANGED cont
        \/ pc' = [pc EXCEPT ![t] = "show_log"] /\ UNCHANGED cont
        \/ pc' = [pc EXCEPT ![t] = cont[t]] /\ cont' = [cont EXCEPT ![t] = "idle"]
    BY <1>27 DEF Shown, Show, LockShown, LogShown, ShowEnds, Goto
  <2>2. Showing(t) /\ UNCHANGED <<th, call, StoreLock>>
    BY <1>27 DEF Shown, Show, LockShown, LogShown, locks, frame
  <2>3. ASSUME NEW c \in Callers PROVE RoleAt(c)'
    <3>1. CASE c # t
      BY <2>1, <2>2, <3>1
    <3>2. CASE c = t
      <4>1. RoleAt(t) /\ Showing(t) /\ t \in Callers
        BY <2>2, <3>2
      <4>2. cont[t] \in {"idle", "join", "cleanup", "killed", "refused"}
        BY <4>1
      <4>3. call'[t] = call[t] /\ pc[t] # "idle"
        BY <2>2, <4>1
      <4>4. CASE pc' = [pc EXCEPT ![t] = cont[t]] /\ cont' = [cont EXCEPT ![t] = "idle"]
        <5>1. pc'[t] = cont[t] /\ cont'[t] = "idle"
          BY <4>4
        <5> QED BY <3>2, <4>1, <4>2, <4>3, <5>1
      <4>5. CASE pc' = [pc EXCEPT ![t] = "show_lock"] /\ UNCHANGED cont
        BY <3>2, <4>1, <4>3, <4>5
      <4>6. CASE pc' = [pc EXCEPT ![t] = "show_log"] /\ UNCHANGED cont
        BY <3>2, <4>1, <4>3, <4>6
      <4> QED BY <2>1, <4>4, <4>5, <4>6
    <3> QED BY <3>1, <3>2
  <2> QED BY <2>3
<1>28. ASSUME NEW t \in Pthreads, Undefined(t) PROVE Roles'
  BY <1>28 DEF Undefined
<1>29. ASSUME NEW c \in Callers, NEW w \in Workers, Create(c, w) PROVE Roles'
  BY <1>29 DEF Create
<1>30. ASSUME NEW c \in Callers, NEW op \in Ops, NEW h \in ThreadHandles, Call(c, op, h)
      PROVE  Roles'
  BY <1>30 DEF Call, Entry, Goto
<1>31. ASSUME NEW c \in Callers, CallerStep(c) PROVE Roles'
  BY <1>31, <1>2, <1>3, <1>4, <1>5, <1>6, <1>7, <1>8, <1>9, <1>10, <1>11, <1>12, <1>13,
     <1>14, <1>15, <1>16, <1>29 DEF CallerStep
<1>32. ASSUME NEW w \in Workers, WorkerStep(w) \/ UserStep(w) PROVE Roles'
  BY <1>32, <1>17, <1>18, <1>19, <1>20, <1>21, <1>22, <1>23, <1>24, <1>25, <1>26
     DEF WorkerStep, UserStep
<1> HIDE DEF Roles
<1> QED BY <1>1, <1>27, <1>28, <1>30, <1>31, <1>32 DEF Next

\* StoreLock excludes: any number of callers, no hypothesis on who calls what.
LEMMA StoreNext == TypeInv /\ StoreInv /\ [Next]_vars => StoreInv'
<1> SUFFICES ASSUME TypeInv, StoreInv, [Next]_vars PROVE StoreInv'
  OBVIOUS
<1> USE DEF StoreInv, HoldsStore, TypeInv, TypeOK, CallerPC, WorkerPC, Towards, Showing, locks, frame
<1>1. CASE UNCHANGED vars
  BY <1>1 DEF vars
<1>2. ASSUME NEW c \in Callers, Check(c) PROVE StoreInv'
  BY <1>2 DEF Check, Return, Goto
<1>3. ASSUME NEW c \in Callers, get_next_handle(c) PROVE StoreInv'
  BY <1>3 DEF get_next_handle, Return, Goto
<1>4. ASSUME NEW c \in Callers, NoMemory(c) PROVE StoreInv'
  BY <1>4 DEF NoMemory, Return, Goto
<1>5. ASSUME NEW c \in Callers, NoThread(c) PROVE StoreInv'
  BY <1>5 DEF NoThread, Return, Goto, Available, Acquired, Released, Free
<1>6. ASSUME NEW c \in Callers, ReadForWait(c) PROVE StoreInv'
  BY <1>6 DEF ReadForWait, ShowThread, Goto
<1>7. ASSUME NEW c \in Callers, Join(c) PROVE StoreInv'
  BY <1>7 DEF Join, ShowThread, Goto
<1>8. ASSUME NEW c \in Callers, CleanupFree(c) PROVE StoreInv'
  BY <1>8 DEF CleanupFree, Goto, Available, Acquired, Released, Free
<1>9. ASSUME NEW c \in Callers, CleanupClear(c) PROVE StoreInv'
  BY <1>9 DEF CleanupClear, Return, Goto, Available, Acquired, Released, Free
<1>10. ASSUME NEW c \in Callers, LockForKill(c) PROVE StoreInv'
  BY <1>10 DEF LockForKill, Goto
<1>11. ASSUME NEW c \in Callers, ReadCancelled(c) \/ ReadFinished(c) PROVE StoreInv'
  BY <1>11 DEF ReadCancelled, ReadFinished, ShowThread, Goto
<1>12. ASSUME NEW c \in Callers, Cancel(c) \/ StoreCancelled(c) PROVE StoreInv'
  BY <1>12 DEF Cancel, StoreCancelled, ShowThread, Goto
<1>13. ASSUME NEW c \in Callers, UnlockKilled(c) \/ ReadState(c) PROVE StoreInv'
  BY <1>13 DEF UnlockKilled, ReadState, Return, Goto
<1>14. ASSUME NEW c \in Callers, get_thread_state(c) PROVE StoreInv'
  BY <1>14 DEF get_thread_state, Goto
<1>15. ASSUME NEW c \in Callers, ListLock(c) PROVE StoreInv'
  BY <1>15 DEF ListLock, Goto, Available, Acquired, Released, Free
<1>16. ASSUME NEW c \in Callers, ListNext(c) PROVE StoreInv'
  BY <1>16 DEF ListNext, Return, Goto, Available, Acquired, Released, Free
<1>17. ASSUME NEW w \in Workers, Start(w) PROVE StoreInv'
  BY <1>17 DEF Start, Goto, Available, Acquired, Released, Free
<1>18. ASSUME NEW w \in Workers, Setup(w) PROVE StoreInv'
  BY <1>18 DEF Setup, ShowThread, Goto
<1>19. ASSUME NEW w \in Workers, Started(w) PROVE StoreInv'
  BY <1>19 DEF Started, Goto, Available, Acquired, Released, Free
<1>20. ASSUME NEW w \in Workers, get_thread_name(w) PROVE StoreInv'
  BY <1>20 DEF get_thread_name, Goto
<1>21. ASSUME NEW w \in Workers, ReadName(w) PROVE StoreInv'
  BY <1>21 DEF ReadName, Goto
<1>22. ASSUME NEW w \in Workers, CancelPoint(w) PROVE StoreInv'
  BY <1>22 DEF CancelPoint, Goto
<1>23. ASSUME NEW w \in Workers, FuncReturn(w) PROVE StoreInv'
  BY <1>23 DEF FuncReturn, Goto
<1>24. ASSUME NEW w \in Workers, th_exit(w) PROVE StoreInv'
  BY <1>24 DEF th_exit, ShowThread, Goto
<1>25. ASSUME NEW w \in Workers, Terminate(w) PROVE StoreInv'
  BY <1>25 DEF Terminate, Goto
<1>26. ASSUME NEW w \in Workers, CancelledInLog(w) PROVE StoreInv'
  BY <1>26 DEF CancelledInLog, Goto
<1>27. ASSUME NEW t \in Pthreads, Shown(t) PROVE StoreInv'
  <2>1. \/ pc' = [pc EXCEPT ![t] = "show_lock"] /\ UNCHANGED cont
        \/ pc' = [pc EXCEPT ![t] = "show_log"] /\ UNCHANGED cont
        \/ pc' = [pc EXCEPT ![t] = cont[t]] /\ cont' = [cont EXCEPT ![t] = "idle"]
    BY <1>27 DEF Shown, Show, LockShown, LogShown, ShowEnds, Goto
  <2>2. Showing(t) /\ UNCHANGED <<th, call, StoreLock>>
    BY <1>27 DEF Shown, Show, LockShown, LogShown, locks, frame
  <2>3. ASSUME NEW u \in Pthreads, HoldsStore(u)' PROVE HoldsStore(u)
    <3>1. CASE u # t
      BY <2>1, <2>3, <3>1
    <3>2. CASE u = t
      <4>1. cont[t] \in {"idle", "join", "cleanup", "killed", "refused", "started", "terminate"}
        BY DEF Pthreads
      <4>4. CASE pc' = [pc EXCEPT ![t] = cont[t]] /\ cont' = [cont EXCEPT ![t] = "idle"]
        <5>1. pc'[t] = cont[t] /\ cont'[t] = "idle"
          BY <4>4
        <5> QED BY <2>2, <2>3, <3>2, <4>1, <5>1
      <4>5. CASE pc' = [pc EXCEPT ![t] = "show_lock"] /\ UNCHANGED cont
        BY <2>2, <2>3, <3>2, <4>5
      <4>6. CASE pc' = [pc EXCEPT ![t] = "show_log"] /\ UNCHANGED cont
        BY <2>2, <2>3, <3>2, <4>6
      <4> QED BY <2>1, <4>4, <4>5, <4>6
    <3> QED BY <3>1, <3>2
  <2> QED BY <2>2, <2>3
<1>28. ASSUME NEW t \in Pthreads, Undefined(t) PROVE StoreInv'
  BY <1>28 DEF Undefined
<1>29. ASSUME NEW c \in Callers, NEW w \in Workers, Create(c, w) PROVE StoreInv'
  BY <1>29 DEF Create
<1>30. ASSUME NEW c \in Callers, NEW op \in Ops, NEW h \in ThreadHandles, Call(c, op, h)
      PROVE  StoreInv'
  BY <1>30 DEF Call, Entry, Goto
<1>31. ASSUME NEW c \in Callers, CallerStep(c) PROVE StoreInv'
  BY <1>31, <1>2, <1>3, <1>4, <1>5, <1>6, <1>7, <1>8, <1>9, <1>10, <1>11, <1>12, <1>13,
     <1>14, <1>15, <1>16, <1>29 DEF CallerStep
<1>32. ASSUME NEW w \in Workers, WorkerStep(w) \/ UserStep(w) PROVE StoreInv'
  BY <1>32, <1>17, <1>18, <1>19, <1>20, <1>21, <1>22, <1>23, <1>24, <1>25, <1>26
     DEF WorkerStep, UserStep
<1> HIDE DEF StoreInv
<1> QED BY <1>1, <1>27, <1>28, <1>30, <1>31, <1>32 DEF Next

\* The variables keep their types, and th is an index of Threads[] wherever the
\* library uses it as one.
THEOREM TypeCorrect == Spec => []TypeOK
<1>1. TypeInv => TypeOK
  BY DEF TypeInv
<1> QED BY <1>1, TypeInit, TypeNext, PTL DEF Spec

\* Nobody holds StoreLock at first.
LEMMA StoreInit == Init => StoreInv
BY DEF Init, StoreInv, HoldsStore, Towards, Showing

\* Two threads are never both inside the regions that StoreLock guards.
THEOREM StoreExclusion ==
  Spec => [](\A t, u \in Pthreads : HoldsStore(t) /\ HoldsStore(u) => t = u)
<1>1. StoreInv => \A t, u \in Pthreads : HoldsStore(t) /\ HoldsStore(u) => t = u
  BY DEF StoreInv
<1> QED BY <1>1, TypeInit, TypeNext, StoreInit, StoreNext, PTL DEF Spec

(***************************************************************************)
(* Every step preserves the rest of the invariant, and is a step of the    *)
(* table.                                                                  *)
(***************************************************************************)

\* The abstract variables.
born == {w \in Workers : life[w] # "none"}
done == {w \in Workers : Done(w)}

TableStep == Table!Next \/ UNCHANGED <<Threads, born, done>>

GoodStep ==
  /\ (Phases /\ TableInv /\ FreedInv /\ Entries /\ JoinedInv /\ Stays)'
  /\ TableStep

HIDE DEF ThreadHandles, THD_OK, THD_ERROR

\* The steps of a caller that change nothing but its own frame and locks.
Private(c) ==
  \/ Check(c) \/ get_next_handle(c) \/ NoMemory(c) \/ NoThread(c) \/ ReadForWait(c)
  \/ LockForKill(c) \/ ReadCancelled(c) \/ ReadFinished(c) \/ Cancel(c) \/ UnlockKilled(c)
  \/ get_thread_state(c) \/ ReadState(c) \/ ListLock(c) \/ ListNext(c) \/ Shown(c)
  \/ \E op \in Ops, h \in ThreadHandles : Call(c, op, h)

\* The same of a worker.
WorkerPrivate(w) ==
  Start(w) \/ Started(w) \/ get_thread_name(w) \/ ReadName(w) \/ FuncReturn(w) \/ Shown(w)

\* Nobody's frame but t's changes.
Others(t) ==
  /\ \A u \in Pthreads : u # t => pc'[u] = pc[u] /\ th'[u] = th[u] /\ cont'[u] = cont[u]
  /\ \A u \in Callers : u # t => joinee'[u] = joinee[u]

\* A private step changes only the places of the thread that takes it.
LEMMA PrivateFrame ==
  ASSUME TypeInv, NEW c \in Callers, Private(c)
  PROVE  /\ UNCHANGED <<Threads, heap, state, life, fault>>
         /\ Others(c)
         /\ pc[c] # "purge" /\ pc'[c] # "purge"
         /\ Towards(c, "cleanup") => Towards(c, "cleanup")' /\ th'[c] = th[c]
<1> USE DEF TypeInv, TypeOK, CallerPC, Others, Towards, Showing, store, os, frame
<1>1. CASE Check(c)
  BY <1>1 DEF Check, Goto, Return
<1>2. CASE get_next_handle(c)
  BY <1>2 DEF get_next_handle, Goto, Return
<1>3. CASE NoMemory(c)
  BY <1>3 DEF NoMemory, Goto, Return
<1>4. CASE NoThread(c)
  BY <1>4 DEF NoThread, Goto, Return
<1>5. CASE ReadForWait(c)
  BY <1>5 DEF ReadForWait, Goto, ShowThread
<1>6. CASE LockForKill(c)
  BY <1>6 DEF LockForKill, Goto
<1>7. CASE ReadCancelled(c) \/ ReadFinished(c) \/ Cancel(c)
  BY <1>7 DEF ReadCancelled, ReadFinished, Cancel, ShowThread, Goto
<1>8. CASE UnlockKilled(c) \/ ReadState(c)
  BY <1>8 DEF UnlockKilled, ReadState, Goto, Return
<1>9. CASE get_thread_state(c)
  BY <1>9 DEF get_thread_state, Goto
<1>10. CASE ListLock(c)
  BY <1>10 DEF ListLock, Goto
<1>11. CASE ListNext(c)
  BY <1>11 DEF ListNext, Goto, Return
<1>12. CASE Shown(c)
  BY <1>12 DEF Shown, Show, LockShown, LogShown, ShowEnds, Goto
<1>13. CASE \E op \in Ops, h \in ThreadHandles : Call(c, op, h)
  BY <1>13 DEF Call, Entry, Goto
<1> QED BY <1>1, <1>2, <1>3, <1>4, <1>5, <1>6, <1>7, <1>8, <1>9, <1>10, <1>11, <1>12,
   <1>13
        DEF Private

\* With one reaper, a live ThreadInfo is joined only on the way to th_cleanup.
LEMMA NotJoined ==
  ASSUME OneExecutorOneReaper, JoinedInv, NEW c \in Reapers, ~Towards(c, "cleanup"),
         NEW w \in Workers, heap[w] = "live"
  PROVE  life[w] # "joined"
BY DEF OneExecutorOneReaper, JoinedInv

\* What a caller knows of its entry survives its own private steps ...
LEMMA PrivateEntry ==
  ASSUME TypeInv, Roles, Entries, TableInv, FreedInv, Phases, JoinedInv, OneExecutorOneReaper, NEW c \in Callers, Private(c)
  PROVE  EntryAt(c)'
<1> USE DEF TypeInv, TypeOK, CallerPC, HandlesInRange, ShownFrom, Towards, Showing, Entries, EntryAt, store, os, frame, Done
<1>1. CASE Check(c)
  BY <1>1 DEF Check, Return, Goto, Info
<1>2. CASE get_next_handle(c)
  BY <1>2 DEF get_next_handle, Return, Goto, FirstFree
<1>3. CASE NoMemory(c)
  BY <1>3 DEF NoMemory, Return, Goto
<1>4. CASE NoThread(c)
  BY <1>4 DEF NoThread, Return, Goto
<1>5. CASE ReadForWait(c)
  <2>1. /\ pc[c] = "lock" /\ Info(c) \in Workers /\ heap[Info(c)] = "live"
        /\ th' = th /\ UNCHANGED <<Threads, heap, state, life>>
    BY <1>5 DEF ReadForWait, Live, Info
  <2>2. life[Info(c)] # "joined"
    <3>1. c \in Reapers /\ ~Towards(c, "cleanup")
      BY <1>5 DEF ReadForWait, Roles, RoleAt, Reapers
    <3> QED BY <2>1, <3>1, NotJoined
  <2>3. CASE Joins(state[Info(c)])
    <3>1. joinee'[c] = Info(c) /\ ~Towards(c, "cleanup")' /\ pc'[c] \notin {"purge", "create"}
      BY <1>5, <2>3 DEF ReadForWait, Goto, ShowThread
    <3> QED BY <2>1, <2>2, <3>1 DEF Info
  <2>4. CASE ~Joins(state[Info(c)])
    <3>1. ~Towards(c, "join")' /\ pc'[c] \notin {"purge", "create"}
      BY <1>5, <2>4 DEF ReadForWait, Goto, ShowThread, Joins
    <3>2. Done(Info(c))
      BY <2>1, <2>4 DEF Joins, Phases, PhaseAt
    <3> QED BY <2>1, <3>1, <3>2 DEF Info
  <2> QED BY <2>3, <2>4
<1>6. CASE LockForKill(c)
  BY <1>6 DEF LockForKill, Goto, Info, Live
<1>7. CASE ReadCancelled(c) \/ ReadFinished(c) \/ Cancel(c)
  BY <1>7 DEF ReadCancelled, ReadFinished, Cancel, ShowThread, Goto, Info, Live
<1>8. CASE UnlockKilled(c) \/ ReadState(c)
  BY <1>8 DEF UnlockKilled, ReadState, Return, Goto
<1>9. CASE get_thread_state(c)
  BY <1>9 DEF get_thread_state, Goto, Info, Live
<1>10. CASE ListLock(c)
  BY <1>10 DEF ListLock, Goto
<1>11. CASE ListNext(c)
  BY <1>11 DEF ListNext, Goto, Return
<1>12. CASE Show(c)
  <2>1. CASE Info(c) # NULL
    BY <1>12, <2>1 DEF Show, Goto, Info
  <2>2. CASE Info(c) = NULL
    <3>1. /\ pc[c] = "show" /\ pc'[c] = cont[c] /\ cont'[c] = "idle"
          /\ UNCHANGED <<Threads, heap, life, state, th, joinee>>
      BY <1>12, <2>2 DEF Show, ShowEnds, Goto
    <3>2. cont[c] \in {"killed", "refused"}
      BY <2>2, <3>1 DEF Info
    <3> QED BY <3>1, <3>2
  <2> QED BY <2>1, <2>2
<1>13. CASE LockShown(c)
  BY <1>13 DEF LockShown, Goto, Info, Live
<1>14. CASE LogShown(c)
  BY <1>14 DEF LogShown, ShowEnds, Goto, Info, Live
<1>15. CASE \E op \in Ops, h \in ThreadHandles : Call(c, op, h)
  BY <1>15 DEF Call, Entry, Goto
<1> QED BY <1>1, <1>2, <1>3, <1>4, <1>5, <1>6, <1>7, <1>8, <1>9, <1>10, <1>11, <1>12,
   <1>13, <1>14, <1>15 DEF Private, Shown

\* ... and so does the reaper's knowledge that the entry stays.
LEMMA PrivateStays ==
  ASSUME TypeInv, Stays, Entries, NEW c \in Callers, Private(c)
  PROVE  c \in Reapers => StaysAt(c)'
<1> USE DEF TypeInv, TypeOK, CallerPC, Towards, Showing, Stays, StaysAt, Killing, Entries, EntryAt, store, os, frame
<1>1. CASE Check(c)
  BY <1>1 DEF Check, Return, Goto, Info
<1>2. CASE get_next_handle(c)
  BY <1>2 DEF get_next_handle, Return, Goto, FirstFree
<1>3. CASE NoMemory(c)
  BY <1>3 DEF NoMemory, Return, Goto
<1>4. CASE NoThread(c)
  BY <1>4 DEF NoThread, Return, Goto
<1>5. CASE ReadForWait(c)
  BY <1>5 DEF ReadForWait, Goto, ShowThread, Info, Live, Joins
<1>6. CASE LockForKill(c)
  BY <1>6 DEF LockForKill, Goto, Info, Live
<1>7. CASE ReadCancelled(c) \/ ReadFinished(c) \/ Cancel(c)
  BY <1>7 DEF ReadCancelled, ReadFinished, Cancel, ShowThread, Goto, Info, Live
<1>8. CASE UnlockKilled(c) \/ ReadState(c)
  BY <1>8 DEF UnlockKilled, ReadState, Return, Goto
<1>9. CASE get_thread_state(c)
  BY <1>9 DEF get_thread_state, Goto, Info, Live
<1>10. CASE ListLock(c)
  BY <1>10 DEF ListLock, Goto
<1>11. CASE ListNext(c)
  BY <1>11 DEF ListNext, Goto, Return
<1>12. CASE Show(c)
  BY <1>12 DEF Show, ShowEnds, Goto, Info
<1>13. CASE LockShown(c)
  BY <1>13 DEF LockShown, Goto, Info, Live
<1>14. CASE LogShown(c)
  BY <1>14 DEF LogShown, ShowEnds, Goto, Info, Live
<1>15. CASE \E op \in Ops, h \in ThreadHandles : Call(c, op, h)
  BY <1>15 DEF Call, Entry, Goto
<1> QED BY <1>1, <1>2, <1>3, <1>4, <1>5, <1>6, <1>7, <1>8, <1>9, <1>10, <1>11, <1>12,
   <1>13, <1>14, <1>15 DEF Private, Shown

\* A private step of a caller.
LEMMA PrivateStep ==
  ASSUME IInv, OneExecutorOneReaper, NEW c \in Callers, Private(c)
  PROVE  GoodStep
<1> USE DEF IInv
<1>1. /\ UNCHANGED <<Threads, heap, state, life>>
      /\ Others(c)
      /\ pc[c] # "purge"
      /\ Towards(c, "cleanup") => Towards(c, "cleanup")' /\ th'[c] = th[c]
  BY PrivateFrame
<1>3. Phases'
  BY <1>1 DEF Others, Phases, PhaseAt, Done, Towards, Showing
<1>4. TableInv'
  <2>1. \A w \in Workers : th'[w] = th[w]
    BY <1>1, ThreadMgrAssumption DEF Others, Pthreads
  <2>2. \A h \in Handles : Threads[h] # NULL => Threads[h] \in Workers
    BY DEF TypeInv, TypeOK
  <2> QED BY <1>1, <2>1, <2>2 DEF TableInv, Done
<1>5. FreedInv'
  BY <1>1 DEF Others, FreedInv, Reapers
<1>6. JoinedInv'
  BY <1>1 DEF Others, JoinedInv, Reapers, Towards, Showing
<1>7. Entries'
  <2>1. EntryAt(c)'
    BY PrivateEntry
  <2>2. \A d \in Callers : d # c => EntryAt(d)'
    BY <1>1 DEF Others, Entries, EntryAt, Done, Towards, Showing
  <2> QED BY <2>1, <2>2 DEF Entries
<1>8. Stays'
  <2>1. c \in Reapers => StaysAt(c)'
    BY PrivateStays
  <2>2. \A d \in Reapers : d # c => StaysAt(d)'
    BY <1>1 DEF Others, Stays, StaysAt, Killing, Reapers, Towards, Showing
  <2> QED BY <2>1, <2>2 DEF Stays
<1>31. TableStep
  <2>1. UNCHANGED <<Threads, born, done>>
    BY <1>1 DEF born, done, Done
  <2> QED BY <2>1 DEF TableStep
<1> QED BY <1>3, <1>4, <1>5, <1>6, <1>7, <1>8, <1>31 DEF GoodStep

\* A private step of a worker.
LEMMA WorkerPrivateStep ==
  ASSUME IInv, NEW w \in Workers, WorkerPrivate(w)
  PROVE  GoodStep
<1> USE DEF IInv
<1>1. /\ UNCHANGED <<Threads, heap, state, life, th, joinee>>
      /\ \A u \in Pthreads : u # w => pc'[u] = pc[u] /\ cont'[u] = cont[u]
      /\ pc'[w] \notin {"unborn", "dead"} /\ pc[w] \notin {"unborn", "dead"}
      /\ Towards(w, "terminate")' <=> Towards(w, "terminate")
  BY DEF TypeInv, TypeOK, WorkerPC, ShownFrom, Towards, Showing, store, os, frame, Goto,
         ShowEnds, WorkerPrivate, Shown, Start, Started, get_thread_name, ReadName,
         FuncReturn, Show, LockShown, LogShown
<1>2. \A u \in Callers : pc'[u] = pc[u] /\ cont'[u] = cont[u]
  BY <1>1
<1>3. \A u \in Workers : u # w => (Towards(u, "terminate")' <=> Towards(u, "terminate"))
  BY <1>1 DEF Towards, Showing
<1>4. Phases'
  BY <1>1, <1>3 DEF Phases, PhaseAt, Done
<1>5. TableInv'
  BY <1>1 DEF TableInv, Done
<1>6. FreedInv'
  BY <1>1 DEF FreedInv, Reapers
<1>7. JoinedInv'
  BY <1>1, <1>2 DEF JoinedInv, Reapers, Towards, Showing
<1>8. Entries'
  BY <1>1, <1>2 DEF Entries, EntryAt, Done, Towards, Showing
<1>9. Stays'
  BY <1>1, <1>2 DEF Stays, StaysAt, Killing, Reapers, Towards, Showing
<1>31. TableStep
  <2>1. UNCHANGED <<Threads, born, done>>
    BY <1>1 DEF born, done, Done
  <2> QED BY <2>1 DEF TableStep
<1> QED BY <1>4, <1>5, <1>6, <1>7, <1>8, <1>9, <1>31 DEF GoodStep

\* A worker ends, by pthread_exit or cancelled.
LEMMA EndStep ==
  ASSUME IInv, NEW w \in Workers, CancelPoint(w) \/ Terminate(w) \/ CancelledInLog(w)
  PROVE  GoodStep
<1> USE DEF IInv
<1>1. /\ UNCHANGED <<Threads, heap, state, th, joinee, cont>>
      /\ pc[w] \in {"run", "terminate", "show_log"}
      /\ pc' = [pc EXCEPT ![w] = "dead"]
      /\ life' = [life EXCEPT ![w] = "dead"]
  BY DEF CancelPoint, Terminate, CancelledInLog, store, frame, Goto
<1>2. /\ \A u \in Pthreads : pc'[u] = IF u = w THEN "dead" ELSE pc[u]
      /\ \A u \in Workers : life'[u] = IF u = w THEN "dead" ELSE life[u]
      /\ Threads \in [Handles -> Workers \cup {NULL}]
      /\ \A c \in Callers : joinee[c] \in Workers \cup {NULL}
      /\ \A c \in Callers : th[c] \in Handles \/ pc[c] \in {"check", "next_handle"}
  BY <1>1 DEF TypeInv, TypeOK, HandlesInRange
<1>3. life[w] \in {"alive", "exiting"}
  BY <1>1 DEF Phases, PhaseAt, TypeInv, TypeOK
<1>a. UNCHANGED <<Threads, heap, state, th, joinee, cont>>
  BY <1>1
<1>4. Phases'
  BY <1>a, <1>2, <1>3, <1>1 DEF Phases, PhaseAt, Done, Towards, Showing
<1>5. TableInv'
  BY <1>a, <1>2, <1>3, <1>1 DEF TableInv, Done
<1>6. FreedInv'
  BY <1>a, <1>2, <1>3, <1>1 DEF FreedInv, Reapers
<1>7. Entries'
  BY <1>a, <1>2, <1>3, <1>1 DEF Entries, EntryAt, Done, Towards, Showing
<1>8. JoinedInv'
  BY <1>a, <1>2, <1>3, <1>1 DEF JoinedInv, Reapers, Towards, Showing
<1>9. Stays'
  BY <1>a, <1>2, <1>3, <1>1 DEF Stays, StaysAt, Killing, Reapers, Towards, Showing
<1>31. TableStep
  <2>1. born' = born /\ done' = done \cup {w} /\ w \in born
    BY <1>a, <1>2, <1>3 DEF born, done, Done
  <2>2. CASE w \in done
    BY <1>a, <2>1, <2>2 DEF TableStep
  <2>3. CASE w \notin done
    BY <1>a, <2>1, <2>3 DEF TableStep, Table!Next, Table!Finish, born, done
  <2> QED BY <2>2, <2>3
<1> QED BY <1>4, <1>5, <1>6, <1>7, <1>8, <1>9, <1>31 DEF GoodStep

\* The stores of RUNNING and CANCELLED
StoresState(t) ==
  \/ t \in Workers /\ Setup(t)
  \/ t \in Callers /\ StoreCancelled(t)

\* A state other than FINISHED is stored: func_decorator's or th_kill's.
LEMMA StateStep ==
  ASSUME IInv, NEW t \in Pthreads, StoresState(t)
  PROVE  GoodStep
<1> USE DEF IInv, StoresState
<1>1. PICK w \in Workers, s \in {"RUNNING", "CANCELLED"}, k \in {"started", "killed"} :
        /\ UNCHANGED <<Threads, heap, life, th, joinee>>
        /\ pc[t] \in {"setup", "store"} /\ (k = "killed" <=> pc[t] = "store")
        /\ pc' = [pc EXCEPT ![t] = "show"]
        /\ cont' = [cont EXCEPT ![t] = k]
        /\ state' = [state EXCEPT ![w] = s]
  <2>1. CASE t \in Workers /\ Setup(t)
    BY <2>1 DEF Setup, ShowThread, Goto, os
  <2>2. CASE t \in Callers /\ StoreCancelled(t)
    <3>1. Info(t) \in Workers
      BY <2>2, InfoType DEF StoreCancelled, Live
    <3> QED BY <2>2, <3>1 DEF StoreCancelled, ShowThread, Goto, os
  <2> QED BY <2>1, <2>2
<1>2. /\ \A u \in Pthreads : pc'[u] = IF u = t THEN "show" ELSE pc[u]
      /\ \A u \in Pthreads : cont'[u] = IF u = t THEN k ELSE cont[u]
      /\ \A u \in Workers : state'[u] = IF u = w THEN s ELSE state[u]
      /\ Threads \in [Handles -> Workers \cup {NULL}]
      /\ \A c \in Callers : joinee[c] \in Workers \cup {NULL}
      /\ \A c \in Callers : th[c] \in Handles \/ pc[c] \in {"check", "next_handle"}
  BY <1>1 DEF TypeInv, TypeOK, HandlesInRange
<1>a. UNCHANGED <<Threads, heap, life, th, joinee>>
  BY <1>1
<1>3. Phases'
  BY <1>a, <1>2, <1>1 DEF Phases, PhaseAt, Done, Towards, Showing
<1>4. TableInv'
  BY <1>a, <1>2, <1>1 DEF TableInv, Done
<1>5. FreedInv'
  BY <1>a, <1>2, <1>1 DEF FreedInv, Reapers
<1>6. Entries'
  BY <1>a, <1>2, <1>1 DEF Entries, EntryAt, Done, Towards, Showing
<1>7. JoinedInv'
  BY <1>a, <1>2, <1>1 DEF JoinedInv, Reapers, Towards, Showing
<1>8. Stays'
  BY <1>a, <1>2, <1>1 DEF Stays, StaysAt, Killing, Reapers, Towards, Showing
<1>31. TableStep
  <2>1. UNCHANGED <<Threads, born, done>>
    BY <1>a DEF born, done, Done
  <2> QED BY <2>1 DEF TableStep
<1> QED BY <1>3, <1>4, <1>5, <1>6, <1>7, <1>8, <1>31 DEF GoodStep

\* Until it has called th_exit a worker finds its own ThreadInfo at its handle.
LEMMA OwnInfo ==
  ASSUME IInv, NEW w \in Workers, life[w] # "none", ~Done(w)
  PROVE  heap[w] = "live" /\ Info(w) = w
<1>1. heap[w] = "live"
  BY DEF IInv, Phases, PhaseAt, TableInv, TypeInv, TypeOK
<1> QED BY <1>1 DEF IInv, TableInv, Info

\* A worker calls th_exit.
LEMMA ExitStep ==
  ASSUME IInv, NEW w \in Workers, th_exit(w)
  PROVE  GoodStep
<1>0. life[w] = "alive" /\ Info(w) = w
  <2>1. life[w] = "alive"
    BY DEF th_exit, IInv, Phases, PhaseAt, Towards, Showing, TypeInv, TypeOK
  <2> QED BY <2>1, OwnInfo DEF Done
<1> USE DEF IInv
<1>1. /\ UNCHANGED <<Threads, heap, th, joinee>>
      /\ pc[w] = "exit"
      /\ pc' = [pc EXCEPT ![w] = "show"]
      /\ cont' = [cont EXCEPT ![w] = "terminate"]
      /\ state' = [state EXCEPT ![w] = "FINISHED"]
      /\ life' = [life EXCEPT ![w] = "exiting"]
  BY <1>0 DEF th_exit, ShowThread, Goto
<1>2. /\ \A u \in Pthreads : pc'[u] = IF u = w THEN "show" ELSE pc[u]
      /\ \A u \in Pthreads : cont'[u] = IF u = w THEN "terminate" ELSE cont[u]
      /\ \A u \in Workers : state'[u] = IF u = w THEN "FINISHED" ELSE state[u]
      /\ \A u \in Workers : life'[u] = IF u = w THEN "exiting" ELSE life[u]
      /\ Threads \in [Handles -> Workers \cup {NULL}]
      /\ \A c \in Callers : joinee[c] \in Workers \cup {NULL}
      /\ \A c \in Callers : th[c] \in Handles \/ pc[c] \in {"check", "next_handle"}
  BY <1>1 DEF TypeInv, TypeOK, HandlesInRange
<1>a. UNCHANGED <<Threads, heap, th, joinee>>
  BY <1>1
<1>3. Phases'
  BY <1>a, <1>0, <1>2, <1>1 DEF Phases, PhaseAt, Done, Towards, Showing
<1>4. TableInv'
  BY <1>a, <1>0, <1>2, <1>1 DEF TableInv, Done
<1>5. FreedInv'
  BY <1>a, <1>2, <1>1 DEF FreedInv, Reapers
<1>6. Entries'
  BY <1>a, <1>0, <1>2, <1>1 DEF Entries, EntryAt, Done, Towards, Showing
<1>7. JoinedInv'
  BY <1>a, <1>0, <1>2, <1>1 DEF JoinedInv, Reapers, Towards, Showing
<1>8. Stays'
  BY <1>a, <1>2, <1>1 DEF Stays, StaysAt, Killing, Reapers, Towards, Showing
<1>31. TableStep
  <2>1. born' = born /\ w \in born \ done
    BY <1>0, <1>2 DEF born, done, Done
  <2>2. done' = done \cup {w}
    BY <1>0, <1>2 DEF done, Done
  <2> QED BY <1>a, <2>1, <2>2 DEF TableStep, Table!Next, Table!Finish, born, done
<1> QED BY <1>3, <1>4, <1>5, <1>6, <1>7, <1>8, <1>31 DEF GoodStep

\* th_wait joins a thread.
LEMMA JoinStep ==
  ASSUME IInv, OneExecutorOneReaper, NEW c \in Callers, Join(c)
  PROVE  GoodStep
<1> USE DEF IInv
<1>1. PICK w \in Workers :
        /\ w = joinee[c] /\ Threads[th[c]] = w /\ heap[w] = "live" /\ life[w] = "dead"
        /\ c \in Reapers
        /\ UNCHANGED <<Threads, heap, state, th>>
        /\ pc[c] = "join"
        /\ pc' = [pc EXCEPT ![c] = "show"]
        /\ cont' = [cont EXCEPT ![c] = "cleanup"]
        /\ life' = [life EXCEPT ![w] = "joined"]
        /\ joinee' = [joinee EXCEPT ![c] = NULL]
  <2>1. pc[c] = "join" /\ life[joinee[c]] = "dead"
    BY DEF Join
  <2>2. joinee[c] \in Workers
    BY <2>1 DEF Entries, EntryAt, Towards, TypeInv, TypeOK
  <2>3. c \in Reapers
    BY <2>1 DEF Towards, Roles, RoleAt, Reapers
  <2> QED BY <2>1, <2>2, <2>3 DEF Join, ShowThread, Goto, store, Entries, EntryAt, Towards
<1>2. /\ \A u \in Pthreads : pc'[u] = IF u = c THEN "show" ELSE pc[u]
      /\ \A u \in Pthreads : cont'[u] = IF u = c THEN "cleanup" ELSE cont[u]
      /\ \A u \in Workers : life'[u] = IF u = w THEN "joined" ELSE life[u]
      /\ \A d \in Callers : d # c => joinee'[d] = joinee[d]
      /\ Threads \in [Handles -> Workers \cup {NULL}]
      /\ \A d \in Callers : joinee[d] \in Workers \cup {NULL}
      /\ \A d \in Callers : th[d] \in Handles \/ pc[d] \in {"check", "next_handle"}
  BY <1>1 DEF TypeInv, TypeOK, HandlesInRange
<1>a. UNCHANGED <<Threads, heap, state, th>>
  BY <1>1
\* No other caller is in th_wait.
<1>3. \A d \in Callers : d # c =>
        ~Towards(d, "join") /\ ~Towards(d, "cleanup") /\ pc[d] # "purge"
  BY <1>1 DEF OneExecutorOneReaper, Roles, RoleAt, Reapers, Towards, Showing, TypeInv,
     ShownFrom
<1>4. Phases'
  BY <1>a, <1>2, <1>3, <1>1 DEF Phases, PhaseAt, Done, Towards, Showing
<1>5. TableInv'
  BY <1>a, <1>2, <1>3, <1>1 DEF TableInv, Done
<1>6. FreedInv'
  BY <1>a, <1>2, <1>3, <1>1 DEF FreedInv, Reapers
<1>7. Entries'
  BY <1>a, <1>2, <1>3, <1>1 DEF Entries, EntryAt, Done, Towards, Showing
<1>8. JoinedInv'
  BY <1>a, <1>2, <1>3, <1>1 DEF JoinedInv, Reapers, Towards, Showing
<1>9. Stays'
  BY <1>a, <1>2, <1>3, <1>1 DEF Stays, StaysAt, Killing, Reapers, Towards, Showing
<1>31. TableStep
  <2>1. UNCHANGED <<Threads, born, done>>
    BY <1>a, <1>2, <1>1 DEF born, done, Done
  <2> QED BY <2>1 DEF TableStep
<1> QED BY <1>4, <1>5, <1>6, <1>7, <1>8, <1>9, <1>31 DEF GoodStep

\* th_cleanup frees a ThreadInfo.
LEMMA CleanupFreeStep ==
  ASSUME IInv, OneExecutorOneReaper, NEW c \in Callers, CleanupFree(c)
  PROVE  GoodStep
<1> USE DEF IInv
<1>1. PICK w \in Workers :
        /\ Threads[th[c]] = w /\ heap[w] = "live" /\ Done(w) /\ th[c] \in Handles
        /\ c \in Reapers
        /\ UNCHANGED <<Threads, life, state, th, joinee, cont>>
        /\ pc[c] = "cleanup"
        /\ pc' = [pc EXCEPT ![c] = "purge"]
        /\ heap' = [heap EXCEPT ![w] = "freed"]
  BY InfoType DEF CleanupFree, Goto, os, frame, Entries, EntryAt, Towards, Info, Roles,
     RoleAt, Reapers
<1>2. /\ \A u \in Pthreads : pc'[u] = IF u = c THEN "purge" ELSE pc[u]
      /\ \A u \in Workers : heap'[u] = IF u = w THEN "freed" ELSE heap[u]
      /\ Threads \in [Handles -> Workers \cup {NULL}]
      /\ \A d \in Callers : joinee[d] \in Workers \cup {NULL}
      /\ \A d \in Callers : th[d] \in Handles \/ pc[d] \in {"check", "next_handle"}
  BY <1>1 DEF TypeInv, TypeOK, HandlesInRange
<1>a. UNCHANGED <<Threads, life, state, th, joinee, cont>>
  BY <1>1
<1>3. \A d \in Callers : d # c =>
        ~Towards(d, "join") /\ ~Towards(d, "cleanup") /\ pc[d] # "purge"
  BY <1>1 DEF OneExecutorOneReaper, Roles, RoleAt, Reapers, Towards, Showing
<1>4. Phases'
  BY <1>a, <1>2, <1>3, <1>1 DEF Phases, PhaseAt, Done, Towards, Showing
<1>5. TableInv'
  BY <1>a, <1>2, <1>3, <1>1 DEF TableInv, Done
<1>6. FreedInv'
  <2>1. \A h \in Handles : Threads[h] = w => h = th[c]
    BY <1>1 DEF TableInv
  <2>2. \A h \in Handles : Threads[h] # NULL /\ heap[Threads[h]] # "freed" /\ heap'[Threads[h]] = "freed"
                            => h = th[c]
    BY <1>2, <2>1
  <2>3. \A h \in Handles : Threads[h] # NULL => heap[Threads[h]] # "freed"
    BY <1>1, <1>3 DEF FreedInv, Reapers
  <2> QED BY <1>a, <1>1, <1>2, <2>2, <2>3 DEF FreedInv, Reapers
<1>7. Entries'
  BY <1>a, <1>2, <1>3, <1>1 DEF Entries, EntryAt, Done, Towards, Showing
<1>8. JoinedInv'
  BY <1>a, <1>2, <1>3, <1>1 DEF JoinedInv, Reapers, Towards, Showing
<1>9. Stays'
  BY <1>a, <1>2, <1>3, <1>1 DEF Stays, StaysAt, Killing, Reapers, Towards, Showing
<1>31. TableStep
  <2>1. UNCHANGED <<Threads, born, done>>
    BY <1>a, <1>2, <1>1 DEF born, done, Done
  <2> QED BY <2>1 DEF TableStep
<1> QED BY <1>4, <1>5, <1>6, <1>7, <1>8, <1>9, <1>31 DEF GoodStep

\* The entries, the joinees and the handles in range, of a typed state.
TypedTable ==
  /\ Threads \in [Handles -> Workers \cup {NULL}]
  /\ \A d \in Callers : joinee[d] \in Workers \cup {NULL}
  /\ \A d \in Callers : th[d] \in Handles \/ pc[d] \in {"check", "next_handle"}
  /\ \A v \in Workers : th[v] \in Handles

LEMMA TypedTableHolds == TypeInv => TypedTable
<1> SUFFICES ASSUME TypeInv PROVE TypedTable
  OBVIOUS
<1>1. Threads \in [Handles -> Workers \cup {NULL}] /\ joinee \in [Callers -> Workers \cup {NULL}]
  BY DEF TypeInv, TypeOK
<1>2. \A t \in Pthreads : pc[t] \in {"check", "next_handle"} \/ th[t] \in Handles
  BY DEF TypeInv, HandlesInRange
<1>3. \A v \in Workers : pc[v] \notin {"check", "next_handle"}
  BY DEF TypeInv, TypeOK, WorkerPC
<1> QED BY <1>1, <1>2, <1>3 DEF TypedTable

\* th_cleanup clears the entry.
LEMMA CleanupClearStep ==
  ASSUME IInv, OneExecutorOneReaper, NEW c \in Callers, CleanupClear(c)
  PROVE  GoodStep
<1> USE DEF IInv
<1>1. PICK p \in {"check", "idle"}, h \in Handles :
        /\ th[c] \in Handles /\ Threads[th[c]] # NULL /\ heap[Threads[th[c]]] = "freed"
        /\ c \in Reapers
        /\ UNCHANGED <<heap, life, state, joinee, cont>>
        /\ pc[c] = "purge"
        /\ pc' = [pc EXCEPT ![c] = p]
        /\ th' = [th EXCEPT ![c] = h]
        /\ Threads' = [Threads EXCEPT ![th[c]] = NULL]
  BY ReturnFacts, InfoType DEF CleanupClear, Returned, os, Entries, EntryAt, Roles,
     RoleAt, Reapers, TypeInv
<1>2. /\ \A u \in Pthreads : pc'[u] = IF u = c THEN p ELSE pc[u]
      /\ \A u \in Pthreads : u # c => th'[u] = th[u]
      /\ \A k \in Handles : Threads'[k] = IF k = th[c] THEN NULL ELSE Threads[k]
      /\ Threads \in [Handles -> Workers \cup {NULL}]
      /\ \A d \in Callers : joinee[d] \in Workers \cup {NULL}
      /\ \A d \in Callers : th[d] \in Handles \/ pc[d] \in {"check", "next_handle"}
      /\ \A v \in Workers : th[v] \in Handles
  <2> HIDE DEF IInv
  <2>1. TypeInv
    BY DEF IInv
  <2>2. TypedTable
    BY <2>1, TypedTableHolds
  <2>3. pc \in [Pthreads -> CallerPC \cup WorkerPC] /\ th \in [Pthreads -> ThreadHandles]
    BY <2>1 DEF TypeInv, TypeOK
  <2>4. Threads \in [Handles -> Workers \cup {NULL}]
    BY <2>2 DEF TypedTable
  <2>5. \A u \in Pthreads : pc'[u] = IF u = c THEN p ELSE pc[u]
    BY <1>1, <2>3
  <2>6. \A u \in Pthreads : u # c => th'[u] = th[u]
    BY <1>1, <2>3
  <2>7. \A k \in Handles : Threads'[k] = IF k = th[c] THEN NULL ELSE Threads[k]
    BY <1>1, <2>4
  <2> QED BY <2>2, <2>5, <2>6, <2>7 DEF TypedTable
<1>a. UNCHANGED <<heap, life, state, joinee, cont>>
  BY <1>1
<1>3. \A d \in Callers : d # c =>
        ~Towards(d, "join") /\ ~Towards(d, "cleanup") /\ pc[d] # "purge"
  BY <1>1 DEF OneExecutorOneReaper, Roles, RoleAt, Reapers, Towards, Showing
<1>4. Phases'
  BY <1>a, <1>2, <1>3, <1>1 DEF Phases, PhaseAt, Done, Towards, Showing
<1>5. TableInv'
  BY <1>a, <1>2, <1>3, <1>1 DEF TableInv, Done
<1>6. FreedInv'
  BY <1>a, <1>2, <1>3, <1>1 DEF FreedInv, Reapers
<1>7. Entries'
  BY <1>a, <1>2, <1>3, <1>1 DEF Entries, EntryAt, Done, Towards, Showing
<1>8. JoinedInv'
  BY <1>a, <1>2, <1>3, <1>1 DEF JoinedInv, Reapers, Towards, Showing
<1>9. Stays'
  <2>1. \A d \in Reapers : d = c
    BY <1>1 DEF OneExecutorOneReaper
  <2> QED BY <1>2, <2>1 DEF Stays, StaysAt, Killing, Towards, Showing, Reapers
<1>31. TableStep
  <2>1. UNCHANGED <<born, done>>
    BY <1>a DEF born, done, Done
  <2>2. Threads[th[c]] \in done
    BY <1>1, <1>2 DEF TableInv, done
  <2> QED BY <1>1, <2>1, <2>2 DEF TableStep, Table!Next, Table!Reap, Table!Handles,
     born, done
<1> QED BY <1>4, <1>5, <1>6, <1>7, <1>8, <1>9, <1>31 DEF GoodStep

\* th_execute enters a new thread.
LEMMA CreateStep ==
  ASSUME IInv, OneExecutorOneReaper, NEW c \in Callers, NEW w \in Workers, Create(c, w)
  PROVE  GoodStep
<1> USE DEF IInv
<1>1. /\ th[c] \in Handles /\ Threads[th[c]] = NULL /\ c # w
      /\ c \in Executors
      /\ life[w] = "none" /\ heap[w] = "none" /\ pc[w] = "unborn"
      /\ UNCHANGED <<joinee, cont>>
      /\ pc[c] = "create"
  BY InfoType DEF Create, Entries, EntryAt, Phases, PhaseAt, Roles, RoleAt, Executors
<1>2. /\ \A u \in Pthreads : pc'[u] = IF u = w THEN "start" ELSE IF u = c THEN "idle" ELSE pc[u]
      /\ \A u \in Pthreads : u \notin {c, w} => th'[u] = th[u]
      /\ th'[w] = th[c]
      /\ \A k \in Handles : Threads'[k] = IF k = th[c] THEN w ELSE Threads[k]
      /\ \A u \in Workers : life'[u] = IF u = w THEN "alive" ELSE life[u]
      /\ \A u \in Workers : heap'[u] = IF u = w THEN "live" ELSE heap[u]
      /\ \A u \in Workers : state'[u] = IF u = w THEN "PENDING" ELSE state[u]
      /\ Threads \in [Handles -> Workers \cup {NULL}]
      /\ \A d \in Callers : joinee[d] \in Workers \cup {NULL}
      /\ \A d \in Callers : th[d] \in Handles \/ pc[d] \in {"check", "next_handle"}
      /\ \A v \in Workers : th[v] \in Handles
  <2> HIDE DEF IInv
  <2>1. TypeInv
    BY DEF IInv
  <2>2. TypedTable
    BY <2>1, TypedTableHolds
  <2>3. pc \in [Pthreads -> CallerPC \cup WorkerPC] /\ th \in [Pthreads -> ThreadHandles]
    BY <2>1 DEF TypeInv, TypeOK
  <2>4. /\ life \in [Workers -> {"none", "alive", "exiting", "dead", "joined"}]
        /\ heap \in [Workers -> {"none", "live", "freed"}]
        /\ state \in [Workers -> ThreadState]
    BY <2>1 DEF TypeInv, TypeOK
  <2>5. Threads \in [Handles -> Workers \cup {NULL}]
    BY <2>2 DEF TypedTable
  <2>6. /\ pc' = [pc EXCEPT ![c] = "idle", ![w] = "start"]
        /\ th' = [th EXCEPT ![w] = th[c], ![c] = 0]
        /\ Threads' = [Threads EXCEPT ![th[c]] = w]
        /\ life' = [life EXCEPT ![w] = "alive"]
        /\ heap' = [heap EXCEPT ![w] = "live"]
        /\ state' = [state EXCEPT ![w] = "PENDING"]
    BY DEF Create
  <2>7. \A u \in Pthreads : pc'[u] = IF u = w THEN "start" ELSE IF u = c THEN "idle" ELSE pc[u]
    BY <1>1, <2>3, <2>6
  <2>8. (\A u \in Pthreads : u \notin {c, w} => th'[u] = th[u]) /\ th'[w] = th[c]
    BY <1>1, <2>3, <2>6
  <2>9. \A k \in Handles : Threads'[k] = IF k = th[c] THEN w ELSE Threads[k]
    BY <1>1, <2>5, <2>6
  <2>10. /\ \A u \in Workers : life'[u] = IF u = w THEN "alive" ELSE life[u]
         /\ \A u \in Workers : heap'[u] = IF u = w THEN "live" ELSE heap[u]
         /\ \A u \in Workers : state'[u] = IF u = w THEN "PENDING" ELSE state[u]
    BY <2>4, <2>6
  <2> QED BY <2>2, <2>7, <2>8, <2>9, <2>10 DEF TypedTable
<1>a. UNCHANGED <<joinee, cont>>
  BY <1>1
<1>3. \A d \in Callers : d # c => pc[d] # "create"
  BY <1>1 DEF OneExecutorOneReaper, Roles, RoleAt, Executors
<1>4. Phases'
  BY <1>a, <1>2, <1>3, <1>1 DEF Phases, PhaseAt, Done, Towards, Showing
<1>5. TableInv'
  <2>1. \A u \in Workers : u # w => th'[u] = th[u] /\ u # c
    BY <1>2, ThreadMgrAssumption DEF Pthreads
  <2>2. \A h \in Handles : Threads'[h] # NULL =>
          th'[Threads'[h]] = h /\ heap'[Threads'[h]] # "none"
    BY <1>1, <1>2, <2>1 DEF TableInv
  <2>3. \A u \in Workers : heap'[u] = "live" => Threads'[th'[u]] = u
    BY <1>1, <1>2, <2>1 DEF TableInv
  <2>4. \A u \in Workers : heap'[u] = "freed" => Done(u)'
    BY <1>1, <1>2 DEF TableInv, Done
  <2> QED BY <2>2, <2>3, <2>4 DEF TableInv
<1>6. FreedInv'
  BY <1>a, <1>2, <1>3, <1>1 DEF FreedInv, Reapers
<1>7. Entries'
  BY <1>a, <1>2, <1>3, <1>1 DEF Entries, EntryAt, Done, Towards, Showing
<1>8. JoinedInv'
  BY <1>a, <1>2, <1>3, <1>1 DEF JoinedInv, Reapers, Towards, Showing
<1>9. Stays'
  BY <1>a, <1>2, <1>3, <1>1 DEF Stays, StaysAt, Killing, Reapers, Towards, Showing
<1>31. TableStep
  <2>1. born' = born \cup {w} /\ w \notin born /\ done' = done
    BY <1>1, <1>2 DEF born, done, Done, Phases, PhaseAt, Towards, Showing
  <2>2. Threads' = [Threads EXCEPT ![th[c]] = w]
    BY DEF Create
  <2> QED BY <1>1, <2>1, <2>2 DEF TableStep, Table!Next, Table!Execute, Table!Handles,
     born, done
<1> QED BY <1>4, <1>5, <1>6, <1>7, <1>8, <1>9, <1>31 DEF GoodStep

\* What is in Threads[] is live, unless the reaper is taking it away.
LEMMA LiveEntry ==
  ASSUME IInv, NEW h \in Handles, Threads[h] # NULL
  PROVE  \/ heap[Threads[h]] = "live"
         \/ \E c \in Reapers : pc[c] = "purge"
BY DEF IInv, TypeInv, TypeOK, TableInv, FreedInv

\* Only a worker in th_exit, or a caller that does not reap, dereferences a
\* ThreadInfo that th_cleanup took away.
LEMMA FaultStep ==
  ASSUME IInv, OneExecutorOneReaper, NEW t \in Pthreads, Undefined(t)
  PROVE  FaultScope'
<1> USE DEF IInv
<1>1. fault' = t /\ UNCHANGED <<life, pc>> /\ NextIsUndefined(t)
  BY DEF Undefined, os
<1>2. pc[t] # "list"
  <2> SUFFICES ASSUME pc[t] = "list" PROVE FALSE
    OBVIOUS
  <2>1. th[t] \in Handles /\ Info(t) # NULL /\ ~Live(Info(t))
    BY <1>1, InfoType DEF NextIsUndefined, Dereferencing
  <2>2. PICK c \in Reapers : pc[c] = "purge"
    BY <2>1, LiveEntry DEF Live, Info
  <2>3. c = t
    BY <2>2 DEF StoreInv, HoldsStore, Reapers
  <2> QED BY <2>2, <2>3
<1>3. ASSUME t \in Workers PROVE life[t] = "exiting"
  <2> SUFFICES ASSUME life[t] # "exiting" PROVE FALSE
    OBVIOUS
  <2>1. pc[t] \in Dereferencing \cup {"setup"} /\ pc[t] \notin {"unborn", "dead"}
    BY <1>1, <1>3 DEF NextIsUndefined, Dereferencing, TypeInv, TypeOK, WorkerPC
  <2>2. ~Done(t) /\ life[t] # "none"
    BY <1>3, <2>1 DEF Phases, PhaseAt, Done
  <2>3. heap[t] = "live" /\ Info(t) = t
    BY <1>3, <2>2, OwnInfo
  <2> QED BY <1>1, <1>3, <2>1, <2>3 DEF NextIsUndefined, Live, Dereferencing, TypeInv,
     TypeOK, WorkerPC
<1>4. ASSUME t \in Reapers PROVE FALSE
  <2>1. \A c \in Reapers : c = t
    BY <1>4 DEF OneExecutorOneReaper
  <2>2. pc[t] \in {"lock", "kill", "kill_finished", "cancel", "store", "killed", "refused",
                   "state", "show_lock", "show_log", "join"}
    BY <1>1, <1>2, <1>4 DEF NextIsUndefined, Dereferencing, TypeInv, TypeOK, CallerPC,
       Reapers
  <2>3. CASE pc[t] = "join"
    BY <1>1, <1>4, <2>3 DEF NextIsUndefined, Dereferencing, Entries, EntryAt, Towards,
       Reapers
  <2>4. CASE pc[t] # "join"
    <3>1. th[t] \in Handles /\ Info(t) # NULL
      BY <1>4, <2>2, <2>4, InfoType DEF Stays, StaysAt, Killing, Towards, Info
    <3>2. heap[Info(t)] = "live" /\ Info(t) \in Workers
      BY <2>1, <2>2, <3>1, LiveEntry, InfoType DEF Info
    <3>3. pc[t] = "cancel" /\ life[Info(t)] = "joined"
      BY <1>1, <1>2, <2>2, <2>4, <3>1, <3>2 DEF NextIsUndefined, Live
    <3> QED BY <1>4, <3>2, <3>3, NotJoined DEF Towards, Showing
  <2> QED BY <2>2, <2>3, <2>4
<1> QED BY <1>1, <1>2, <1>3, <1>4 DEF FaultScope, Reapers

\* The invariant holds at first ...
LEMMA IInvInit == Init => IInv
<1> SUFFICES ASSUME Init PROVE IInv
  OBVIOUS
<1>1. TypeInv /\ StoreInv
  BY TypeInit, StoreInit
<1>2. Roles /\ Phases /\ Entries /\ Stays /\ FaultScope
  BY DEF Init, Roles, RoleAt, Phases, PhaseAt, Entries, EntryAt, Stays, StaysAt, Killing, Towards,
         Showing, FaultScope, Reapers
<1>3. TableInv /\ FreedInv /\ JoinedInv
  BY DEF Init, TableInv, FreedInv, JoinedInv
<1> QED BY <1>1, <1>2, <1>3 DEF IInv

\* All but the steps that fault are good.
LEMMA StepIsGood ==
  ASSUME IInv, OneExecutorOneReaper, Next
  PROVE  FaultScope' /\ (GoodStep \/ UNCHANGED <<store, life, pc, th, cont, joinee>>)
<1>1. fault = NULL
  BY DEF Next
<1>2. FaultScope' \/ \E t \in Pthreads : Undefined(t)
  <2>1. fault' = NULL \/ \E t \in Pthreads : Undefined(t)
    BY <1>1 DEF Next, CallerStep, WorkerStep, UserStep, Shown, Call, Check,
       get_next_handle,
       NoMemory, NoThread, Create, ReadForWait, Join, CleanupFree, CleanupClear, LockForKill,
       ReadCancelled, ReadFinished, Cancel, StoreCancelled, UnlockKilled, get_thread_state,
       ReadState, ListLock, ListNext, Start, Setup,
       Started, ReadName, th_exit, Terminate, CancelledInLog, get_thread_name, CancelPoint,
       FuncReturn, Show, LockShown, LogShown
  <2> QED BY <2>1 DEF FaultScope, Reapers
<1>3. ASSUME NEW t \in Pthreads, Undefined(t)
      PROVE  FaultScope' /\ UNCHANGED <<store, life, pc, th, cont, joinee>>
  BY <1>3, FaultStep DEF Undefined, os, frame
<1>4. ASSUME NEW c \in Callers, CallerStep(c) PROVE GoodStep
  BY <1>4, PrivateStep, JoinStep, CleanupFreeStep, CleanupClearStep, StateStep, CreateStep
     DEF CallerStep, Private, StoresState
<1>5. ASSUME NEW c \in Callers, NEW op \in Ops, NEW h \in ThreadHandles, Call(c, op, h)
      PROVE  GoodStep
  BY <1>5, PrivateStep DEF Private
<1>6. ASSUME NEW w \in Workers, WorkerStep(w) \/ UserStep(w) PROVE GoodStep
  <2>1. CASE Setup(w)
    BY <2>1, StateStep DEF StoresState
  <2>2. CASE th_exit(w)
    BY <2>2, ExitStep
  <2>3. CASE Terminate(w) \/ CancelledInLog(w) \/ CancelPoint(w)
    BY <2>3, EndStep
  <2>4. CASE ~Setup(w) /\ ~th_exit(w) /\ ~Terminate(w) /\ ~CancelledInLog(w) /\ ~CancelPoint(w)
    BY <1>6, <2>4, WorkerPrivateStep DEF WorkerStep, UserStep, WorkerPrivate
  <2> QED BY <2>1, <2>2, <2>3, <2>4
<1>7. ASSUME NEW t \in Pthreads, Shown(t) PROVE GoodStep
  BY <1>7, PrivateStep, WorkerPrivateStep DEF Private, WorkerPrivate
<1> QED BY <1>2, <1>3, <1>4, <1>5, <1>6, <1>7 DEF Next

\* ... and every step preserves it, the undefined ones included.
LEMMA IInvNext == OneExecutorOneReaper /\ IInv /\ [Next]_vars => IInv'
<1> SUFFICES ASSUME OneExecutorOneReaper, IInv, [Next]_vars PROVE IInv'
  OBVIOUS
<1>1. (TypeInv /\ Roles /\ StoreInv)'
  BY TypeNext, RolesNext, StoreNext DEF IInv
<1>2. ASSUME UNCHANGED <<store, life, pc, th, cont, joinee>>
      PROVE  (Phases /\ TableInv /\ FreedInv /\ Entries /\ JoinedInv /\ Stays)'
  <2>1. UNCHANGED <<Threads, heap, state, life, pc, th, cont, joinee>>
    BY <1>2 DEF store
  <2>2. Phases'
    BY <2>1 DEF IInv, Phases, PhaseAt, Done, Towards, Showing
  <2>3. TableInv'
    BY <2>1 DEF IInv, TableInv, Done
  <2>4. FreedInv'
    BY <2>1 DEF IInv, FreedInv
  <2>5. Entries'
    BY <2>1 DEF IInv, Entries, EntryAt, Towards, Showing, Done
  <2>6. JoinedInv'
    BY <2>1 DEF IInv, JoinedInv, Towards, Showing
  <2>7. Stays'
    BY <2>1 DEF IInv, Stays, StaysAt, Killing, Towards, Showing
  <2> QED BY <2>2, <2>3, <2>4, <2>5, <2>6, <2>7
<1>3. CASE UNCHANGED vars
  <2>1. UNCHANGED <<store, life, pc, th, cont, joinee>>
    BY <1>3 DEF vars, os, frame
  <2>2. FaultScope'
    BY <1>3 DEF vars, os, FaultScope, IInv
  <2> QED BY <1>1, <1>2, <2>1, <2>2 DEF IInv
<1>4. CASE Next
  <2>1. FaultScope' /\ (GoodStep \/ UNCHANGED <<store, life, pc, th, cont, joinee>>)
    BY <1>4, StepIsGood
  <2>2. CASE GoodStep
    BY <1>1, <2>1, <2>2 DEF IInv, GoodStep
  <2> QED BY <1>1, <1>2, <2>1, <2>2 DEF IInv
<1> QED BY <1>3, <1>4

\* The invariant holds in every state (OneExecutorOneReaper is about constants).
LEMMA IInvAlways == ASSUME OneExecutorOneReaper PROVE Spec => []IInv
<1>1. Init => IInv
  BY IInvInit
<1>2. IInv /\ [Next]_vars => IInv'
  BY IInvNext
<1> QED BY <1>1, <1>2, PTL DEF Spec

\* The races on Threads[] never lose a thread that is not done: it stays in
\* Threads[] at its handle, and its ThreadInfo allocated.
THEOREM NoThreadForgotten == ASSUME OneExecutorOneReaper PROVE Spec => []NotForgotten
<1>1. IInv => NotForgotten
  BY DEF IInv, TypeInv, TypeOK, Phases, PhaseAt, TableInv, NotForgotten, Done
<1> QED BY <1>1, IInvAlways, PTL

\* What thread_mgr.h says of handles, "unique", is true with one creator: what
\* refutes it in handle_not_unique is a second one between get_next_handle and
\* the entry of th_execute.
THEOREM HandlesAreUnique == ASSUME OneExecutorOneReaper PROVE Spec => []UniqueHandle
<1>1. NotForgotten => UniqueHandle
  BY DEF NotForgotten, UniqueHandle
<1> QED BY <1>1, NoThreadForgotten, PTL

\* The unlocked reads of Threads[] harm neither a worker before th_exit, nor the
\* reaper, nor show_all_threads.
THEOREM FaultsAreScoped == ASSUME OneExecutorOneReaper PROVE Spec => []FaultScope
<1>1. IInv => FaultScope
  BY DEF IInv
<1> QED BY <1>1, IInvAlways, PTL

\* The manager implements ThreadTable: entries appear in free places for new
\* threads, stay while the thread is not done and are taken away once.
THEOREM TableRefinement == ASSUME OneExecutorOneReaper PROVE Spec => ImplementsThreadTable
<1>1. Init => Table!Init
  <2> SUFFICES ASSUME Init PROVE Table!Init
    OBVIOUS
  <2>1. Threads = [h \in Table!Handles |-> NULL]
    BY DEF Init, Handles, Table!Handles
  <2>2. born = {} /\ done = {}
    BY DEF Init, Done, born, done
  <2> QED BY <2>1, <2>2 DEF Table!Init, born, done
<1>2. IInv /\ [Next]_vars => [Table!Next]_<<Threads, born, done>>
  <2> SUFFICES ASSUME IInv, [Next]_vars PROVE TableStep
    BY DEF TableStep
  <2>1. CASE UNCHANGED <<store, life>>
    BY <2>1 DEF TableStep, store, born, done, Done
  <2>2. CASE Next
    <3>1. GoodStep \/ UNCHANGED <<store, life>>
      BY <2>2, StepIsGood
    <3> QED BY <2>1, <3>1 DEF GoodStep
  <2>3. CASE UNCHANGED vars
    BY <2>1, <2>3 DEF vars, os
  <2> QED BY <2>2, <2>3
<1> QED BY <1>1, <1>2, IInvAlways, PTL DEF Spec, ImplementsThreadTable, Table!Spec,
   born, done
=============================================================================
