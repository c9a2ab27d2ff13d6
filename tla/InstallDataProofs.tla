------------------------- MODULE InstallDataProofs -------------------------
(***************************************************************************)
(* The theorems about install_data.  It only takes steps of ThreadMgr, and *)
(* main() is the one creator and the one reaper, so the theorems of        *)
(* ThreadMgrProofs and ThreadLockProofs hold of the program.  On them rest *)
(* its own: one installer at a time, teardown after the work, the order of *)
(* the installed points.                                                   *)
(***************************************************************************)
EXTENDS InstallData, ThreadLockProofs

\* main() alone creates and reaps.
LEMMA MainCreatesAndReaps == OneExecutorOneReaper
<1>1. Executors = {main} /\ Reapers = {main}
  BY InstallDataAssumption DEF AppCalls, Executors, Reapers
<1> QED BY <1>1 DEF OneExecutorOneReaper

\* The calls of the program are calls that ThreadMgr knows.
LEMMA CallsAreSteps ==
  ASSUME fault = NULL,
         \/ Call(main, "th_execute", 0)
         \/ Call(main, "th_kill_all", 0)
         \/ Call(main, "th_wait_all", 0)
         \/ Call(mgr, "th_kill_all", 0)
  PROVE  Next
<1>1. 0 \in ThreadHandles /\ {"th_execute", "th_kill_all", "th_wait_all"} \subseteq Ops
  BY ThreadMgrAssumption DEF ThreadHandles, Ops
<1>2. main \in Callers /\ mgr \in Callers
  BY InstallDataAssumption
<1> QED BY <1>1, <1>2 DEF Next

\* Every step of the program is a step of the thread manager or leaves the
\* thread manager alone.
LEMMA StepOfThreadMgr == [AppNext]_appVars => [Next]_vars
<1> SUFFICES ASSUME AppNext PROVE Next \/ UNCHANGED vars
  BY DEF appVars
<1>1. fault = NULL
  BY DEF AppNext, Running
<1>2. CASE MainStep
  <2>1. main \in Callers /\ main \in Pthreads
    BY InstallDataAssumption DEF Pthreads
  <2>2. CASE Execute \/ KillAll \/ WaitAll
    BY <1>1, <2>2, CallsAreSteps DEF Execute, KillAll, WaitAll
  <2>3. CASE InLibrary(CallerStep(main) \/ Shown(main))
    BY <1>1, <2>1, <2>3 DEF InLibrary, Next
  <2>4. CASE \/ InstallHandlers \/ Connect \/ Loop \/ ThreadInit \/ Executed \/ CondWait
             \/ Again \/ Uninstall \/ CondDestroy \/ DestroyShm \/ Exit
    BY <2>4 DEF InstallHandlers, Connect, Loop, ThreadInit, Executed, CondWait, Again,
                Uninstall, CondDestroy, DestroyShm, Exit
  <2> QED BY <1>2, <2>2, <2>3, <2>4 DEF MainStep
<1>3. CASE MgrStep
  <2>1. mgr \in Callers /\ mgr \in Pthreads
    BY InstallDataAssumption DEF Pthreads
  <2>2. CASE MgrKillAll
    BY <1>1, <2>2, CallsAreSteps DEF MgrKillAll
  <2>3. CASE InLibrary(CallerStep(mgr) \/ Shown(mgr))
    BY <1>1, <2>1, <2>3 DEF InLibrary, Next
  <2>4. CASE Read \/ Invoke \/ Reinstall \/ Clear \/ MgrSignal
    BY <2>4 DEF Read, Invoke, Reinstall, Clear, MgrSignal
  <2> QED BY <1>3, <2>2, <2>3, <2>4 DEF MgrStep
<1>4. ASSUME NEW w \in Workers, InstallerStep(w) PROVE Next \/ UNCHANGED vars
  <2>1. w \in Pthreads
    BY DEF Pthreads
  <2>2. CASE AskName(w) \/ Finish(w) \/ Cancelled(w)
    <3>1. UserStep(w)
      BY <2>2 DEF AskName, Finish, Cancelled, UserStep
    <3> QED BY <1>1, <3>1 DEF Next
  <2>3. CASE InLibrary(WorkerStep(w) \/ Shown(w))
    BY <1>1, <2>1, <2>3 DEF InLibrary, Next
  <2>4. CASE Sleep(w) \/ Install(w) \/ Complete(w)
    BY <2>4 DEF Sleep, Install, Complete
  <2> QED BY <1>4, <2>2, <2>3, <2>4 DEF InstallerStep
<1>5. ASSUME NEW t \in Pthreads, InLibrary(Undefined(t)) \/ Crash(t)
      PROVE  Next \/ UNCHANGED vars
  BY <1>1, <1>5 DEF InLibrary, Crash, Next
<1>6. CASE SpuriousWakeup \/ \E s \in Signals : Send(s) \/ Deliver(s) \/ DeliverEarly(s)
  BY <1>6 DEF SpuriousWakeup, Send, Deliver, DeliverEarly
<1> QED BY <1>2, <1>3, <1>4, <1>5, <1>6 DEF AppNext

\* install_data runs the thread manager: every behaviour of the program is a
\* behaviour of ThreadMgr.
THEOREM AppRunsThreadMgr == AppSpec => Spec
<1>1. AppInit => Init
  BY DEF AppInit
<1> QED BY <1>1, StepOfThreadMgr, PTL DEF AppSpec, Spec

\* In install_data, th_kill_all by the manager thread and th_wait_all by main()
\* never lose a worker that may still install points.
THEOREM AppForgetsNoThread == AppSpec => []NotForgotten
BY AppRunsThreadMgr, MainCreatesAndReaps, NoThreadForgotten, PTL

\* In install_data two workers that are not done never have one handle, across
\* restarts too.
THEOREM AppHandlesAreUnique == AppSpec => []UniqueHandle
BY AppRunsThreadMgr, MainCreatesAndReaps, HandlesAreUnique, PTL

\* In install_data only the manager thread, or a worker on its way out of th_exit,
\* can be hit by the unlocked reads of Threads[]: never main(), nor a worker at work.
THEOREM AppFaultsAreScoped ==
  AppSpec => [](fault \in {NULL, mgr} \/ (fault \in Workers /\ life[fault] = "exiting"))
<1>1. IInv => fault \in {NULL, mgr} \/ (fault \in Workers /\ life[fault] = "exiting")
  <2> SUFFICES ASSUME IInv PROVE fault # main
    BY InstallDataAssumption DEF IInv, TypeInv, TypeOK, FaultScope, Pthreads
  <2>1. main \in Reapers
    BY InstallDataAssumption DEF AppCalls, Reapers
  <2> QED BY <2>1 DEF IInv, FaultScope
<1> QED BY <1>1, AppRunsThreadMgr, MainCreatesAndReaps, IInvAlways, PTL

\* The two mutexes cannot deadlock main(), graceful_exit and the worker.
THEOREM AppLocksAreOrdered == AppSpec => []LockOrder
BY AppRunsThreadMgr, MainCreatesAndReaps, LocksAreOrdered, PTL

(***************************************************************************)
(* Rounds.  main() creates a worker when Threads[] is empty, and goes on   *)
(* to the next round, or to teardown, when th_wait_all has emptied it.     *)
(***************************************************************************)

\* Where main() is when it is inside the thread manager (nothing happens after
\* "failed").
MainPlace ==
  /\ pc[main] # "idle" => \/ at = "executing" /\ call[main] = "th_execute"
                          \/ at = "killing" /\ call[main] = "th_kill_all"
                          \/ at = "joining" /\ call[main] = "th_wait_all"
                          \/ at = "failed"
  /\ at = "joining" => call[main] = "th_wait_all"

\* Between two rounds, and until th_execute has created the worker of a round
RoundIsOver ==
  \/ at \in {"install", "connect", "loop", "execute", "uninstall"} \cup Teardown
  \/ at = "executing" /\ pc[main] # "idle"

\* No worker is managed then, and never more than one.
Rounds ==
  /\ RoundIsOver => \A h \in Handles : Threads[h] = NULL
  /\ \A g, h \in Handles : Threads[g] # NULL /\ Threads[h] # NULL => g = h

\* What a step of the library may do to what Rounds is about.
LEMMA RoundsInLibrary ==
  ASSUME TypeInv, Roles, MainPlace, Rounds, Running, at' = at,
         call'[main] = call[main],
         pc[main] = "idle" => pc'[main] = "idle",
         \/ \A h \in Handles : Threads'[h] \in {Threads[h], NULL}
         \/ \E c \in Callers, w \in Workers : Create(c, w)
  PROVE  (MainPlace /\ Rounds)'
<1>1. MainPlace'
  BY DEF MainPlace
<1>2. CASE \A h \in Handles : Threads'[h] \in {Threads[h], NULL}
  BY <1>1, <1>2 DEF Rounds, RoundIsOver, Teardown
<1>3. ASSUME NEW c \in Callers, NEW w \in Workers, Create(c, w) PROVE Rounds'
  <2>1. c = main /\ pc[main] # "idle" /\ at = "executing"
    BY <1>3, MainCreatesAndReaps, InstallDataAssumption
       DEF Create, Roles, RoleAt, AppCalls, MainPlace, Running
  <2>2. \A h \in Handles : Threads[h] = NULL
    BY <2>1 DEF Rounds, RoundIsOver
  <2>3. pc'[main] = "idle" /\ Threads' = [Threads EXCEPT ![th[c]] = w]
    BY <1>3, <2>1 DEF Create, TypeInv, TypeOK, Pthreads
  <2> QED BY <2>1, <2>2, <2>3 DEF Rounds, RoundIsOver, Teardown, TypeInv, TypeOK
<1> QED BY <1>1, <1>2, <1>3

\* A caller's steps in the library: none begins a call of main()'s.
LEMMA CallerInLibrary ==
  ASSUME TypeInv, NEW c \in Callers, InLibrary(CallerStep(c) \/ Shown(c))
  PROVE  /\ at' = at /\ call' = call
         /\ pc[main] = "idle" => pc'[main] = "idle"
         /\ c # main => pc'[main] = pc[main] /\ rc'[main] = rc[main]
         /\ \/ \A h \in Handles : Threads'[h] \in {Threads[h], NULL}
            \/ \E w \in Workers : Create(c, w)
<1>1. at' = at /\ (CallerStep(c) \/ Shown(c)) /\ main \in Callers
  BY InstallDataAssumption DEF InLibrary, mainVars
<1>2. call' = call /\ pc[c] # "idle"
  BY <1>1 DEF CallerStep, Shown, Show, LockShown, LogShown, Check, get_next_handle, NoMemory,
     NoThread, Create, ReadForWait, Join, CleanupFree, CleanupClear, LockForKill,
     ReadCancelled, ReadFinished, Cancel, StoreCancelled, UnlockKilled, get_thread_state,
     ReadState, ListLock, ListNext, frame
<1>3. c # main => pc'[main] = pc[main]
  <2>1. ASSUME NEW w \in Workers, Create(c, w) PROVE c # main => pc'[main] = pc[main]
    BY <1>1, <2>1, ThreadMgrAssumption DEF Create, TypeInv, TypeOK, Pthreads
  <2>2. CASE Shown(c)
    BY <1>1, <2>2 DEF Shown, Show, LockShown, LogShown, ShowEnds, Goto, TypeInv, TypeOK, Pthreads
  <2>3. CASE \/ Check(c) \/ get_next_handle(c) \/ NoMemory(c) \/ NoThread(c) \/ CleanupClear(c)
             \/ UnlockKilled(c) \/ ReadState(c) \/ ListNext(c)
    <3>1. PICK p \in {"check", "idle", "lock", "create", pc[c]} : pc' = [pc EXCEPT ![c] = p]
      BY <1>1, <2>3 DEF Check, get_next_handle, NoMemory, NoThread, CleanupClear, UnlockKilled,
         ReadState, ListNext, Return, Goto, TypeInv, TypeOK
    <3> QED BY <1>1, <3>1 DEF TypeInv, TypeOK, Pthreads
  <2>4. CASE \/ ReadForWait(c) \/ Join(c) \/ CleanupFree(c) \/ LockForKill(c) \/ ListLock(c)
             \/ get_thread_state(c) \/ ReadCancelled(c) \/ ReadFinished(c) \/ Cancel(c)
             \/ StoreCancelled(c)
    BY <1>1, <2>4 DEF ReadForWait, Join, CleanupFree, LockForKill, ListLock, get_thread_state,
       ReadCancelled, ReadFinished, Cancel, StoreCancelled, ShowThread, Goto, TypeInv, TypeOK, Pthreads
  <2> QED BY <1>1, <2>1, <2>2, <2>3, <2>4 DEF CallerStep
<1>4. \/ \A h \in Handles : Threads'[h] \in {Threads[h], NULL}
      \/ \E w \in Workers : Create(c, w)
  BY <1>1 DEF CallerStep, Shown, Show, LockShown, LogShown, Check, get_next_handle, NoMemory,
     NoThread, ReadForWait, Join, CleanupFree, CleanupClear, LockForKill,
     ReadCancelled, ReadFinished, Cancel, StoreCancelled, UnlockKilled, get_thread_state,
     ReadState, ListLock, ListNext, store, TypeInv, TypeOK
<1>5. c # main => rc'[main] = rc[main]
  <2>1. ASSUME NEW r, Return(c, r), c # main PROVE rc'[main] = rc[main]
    BY <1>1, <2>1 DEF Return, TypeInv, TypeOK
  <2>2. CASE \/ Check(c) \/ get_next_handle(c) \/ NoMemory(c) \/ NoThread(c) \/ CleanupClear(c)
             \/ UnlockKilled(c) \/ ReadState(c) \/ ListNext(c)
    BY <2>1, <2>2 DEF Check, get_next_handle, NoMemory, NoThread, CleanupClear, UnlockKilled,
       ReadState, ListNext
  <2>3. CASE \E w \in Workers : Create(c, w)
    BY <1>1, <2>3 DEF Create, TypeInv, TypeOK
  <2>4. rc' = rc \/ \/ Check(c) \/ get_next_handle(c) \/ NoMemory(c) \/ NoThread(c)
                   \/ CleanupClear(c) \/ UnlockKilled(c) \/ ReadState(c) \/ ListNext(c)
                   \/ \E w \in Workers : Create(c, w)
    BY <1>1 DEF CallerStep, Shown, Show, LockShown, LogShown, ReadForWait, Join, CleanupFree,
       LockForKill, ReadCancelled, ReadFinished, Cancel, StoreCancelled, get_thread_state,
       ListLock, frame
  <2> QED BY <2>2, <2>3, <2>4
<1> QED BY <1>1, <1>2, <1>3, <1>4, <1>5

\* A worker's steps there leave main() and Threads[] alone.
LEMMA WorkerInLibrary ==
  ASSUME TypeInv, NEW w \in Workers, WorkerStep(w) \/ Shown(w) \/ UserStep(w)
  PROVE  Threads' = Threads /\ call' = call /\ rc' = rc /\ pc'[main] = pc[main]
<1>1. w # main /\ main \in Callers
  BY InstallDataAssumption, ThreadMgrAssumption
<1> QED
  BY <1>1 DEF WorkerStep, UserStep, Start, Setup, Started, ReadName, th_exit, Terminate,
     CancelledInLog, get_thread_name, CancelPoint, FuncReturn, Shown, Show, LockShown, LogShown,
     ShowThread, ShowEnds, Goto, store, frame, TypeInv, TypeOK, Pthreads

\* Every step of the program keeps the rounds apart.
LEMMA RoundsNext ==
  TypeInv /\ Roles /\ WaitAllPurges /\ MainPlace /\ Rounds /\ [AppNext]_appVars
    => (MainPlace /\ Rounds)'
<1> SUFFICES ASSUME TypeInv, Roles, WaitAllPurges, MainPlace, Rounds, [AppNext]_appVars
             PROVE  (MainPlace /\ Rounds)'
  OBVIOUS
<1> USE DEF MainPlace, Rounds, RoundIsOver, Teardown
<1>1. main \in Callers /\ mgr \in Callers /\ main # mgr /\ Executors \subseteq {main}
  BY InstallDataAssumption DEF Executors, AppCalls
<1>2. CASE UNCHANGED <<Threads, pc, call, at>>
  BY <1>2
<1>3. CASE UNCHANGED appVars
  BY <1>2, <1>3 DEF appVars, mainVars, vars, store, frame
<1>4. CASE AppNext
  <2>1. Running
    BY <1>4 DEF AppNext
  <2>2. CASE InstallHandlers \/ Connect \/ Loop \/ Uninstall \/ DestroyShm
    BY <2>2 DEF InstallHandlers, Connect, Loop, Uninstall, DestroyShm, Goes, vars, store, frame
  <2>3. CASE CondDestroy \/ Exit \/ CondWait \/ Executed
    BY <2>3 DEF CondDestroy, Exit, CondWait, Executed, Moves, Goes, vars, store, frame
  <2>4. CASE Execute
    BY <1>1, <2>4 DEF Execute, Moves, Goes, Call, Goto, Entry, store, TypeInv, TypeOK, Pthreads
  <2>5. CASE KillAll \/ WaitAll
    BY <1>1, <2>5 DEF KillAll, WaitAll, Moves, Goes, Call, Goto, Entry, store, TypeInv, TypeOK, Pthreads
  <2>6. CASE Again
    <3>1. \A h \in Handles : Threads[h] = NULL
      BY <1>1, <2>6 DEF Again, Moves, Goes, WaitAllPurges
    <3> QED BY <2>6, <3>1 DEF Again, Moves, Goes, vars, store, frame
  <2>7. CASE MgrKillAll
    BY <1>1, <2>7 DEF MgrKillAll, Call, Goto, store, TypeInv, TypeOK, Pthreads
  <2>8. ASSUME NEW w \in Workers, InstallerStep(w) PROVE (MainPlace /\ Rounds)'
    <3>1. CASE AskName(w) \/ Finish(w) \/ Cancelled(w)
      <4>1. UserStep(w) /\ at' = at
        BY <3>1 DEF AskName, Finish, Cancelled, UserStep, mainVars
      <4> QED BY <2>1, <4>1, WorkerInLibrary, RoundsInLibrary
    <3>2. CASE InLibrary(WorkerStep(w) \/ Shown(w))
      <4>1. (WorkerStep(w) \/ Shown(w)) /\ at' = at
        BY <3>2 DEF InLibrary, mainVars
      <4> QED BY <2>1, <4>1, WorkerInLibrary, RoundsInLibrary
    <3>3. CASE Sleep(w) \/ Install(w)
      BY <1>2, <3>3 DEF Sleep, Install, vars, store, frame, mainVars
    <3>4. CASE Complete(w)
      BY <3>4 DEF Complete, SignalCompletion, vars, store, frame
    <3> QED BY <2>8, <3>1, <3>2, <3>3, <3>4 DEF InstallerStep
  <2>9. CASE InLibrary(CallerStep(main) \/ Shown(main)) \/ InLibrary(CallerStep(mgr) \/ Shown(mgr))
    BY <1>1, <2>1, <2>9, CallerInLibrary, RoundsInLibrary
  <2>10. CASE ThreadInit \/ Read \/ Invoke \/ Reinstall \/ Clear
    BY <1>2, <2>10 DEF ThreadInit, Read, Invoke, Reinstall, Clear, vars, store, frame, mainVars
  <2>11. CASE MgrSignal
    BY <2>11 DEF MgrSignal, SignalCompletion, vars, store, frame
  <2>12. CASE SpuriousWakeup
    BY <2>12 DEF SpuriousWakeup, Goes, vars, store, frame
  <2>13. CASE \E s \in Signals : Send(s) \/ Deliver(s)
    BY <1>2, <2>13 DEF Send, Deliver, vars, store, frame, mainVars
  <2>14. CASE \E s \in Signals : DeliverEarly(s)
    BY <2>14 DEF DeliverEarly, vars, store, frame
  <2>15. ASSUME NEW t \in Pthreads, InLibrary(Undefined(t)) \/ Crash(t) PROVE (MainPlace /\ Rounds)'
    BY <1>2, <2>15 DEF InLibrary, Undefined, Crash, vars, store, frame, mainVars
  <2> QED BY <1>4, <2>2, <2>3, <2>4, <2>5, <2>6, <2>7, <2>8, <2>9, <2>10, <2>11, <2>12, <2>13,
             <2>14, <2>15 DEF AppNext, MainStep, MgrStep
<1> QED BY <1>3, <1>4

\* The rounds are apart in every state.
LEMMA RoundsAlways == AppSpec => [](IInv /\ MainPlace /\ Rounds)
<1>1. AppInit => MainPlace /\ Rounds
  BY InstallDataAssumption DEF AppInit, Init, MainPlace, Rounds, Pthreads
<1>2. IInv => TypeInv /\ Roles
  BY DEF IInv
<1> QED BY <1>1, <1>2, RoundsNext, AppRunsThreadMgr, MainCreatesAndReaps, IInvAlways,
           WaitAllLeavesNothing, PTL DEF AppSpec

\* A worker that still installs is in Threads[].
LEMMA InstallerIsManaged ==
  ASSUME IInv, NEW w \in Workers, Installing(w)
  PROVE  th[w] \in Handles /\ Threads[th[w]] = w /\ w # NULL
<1>1. th[w] \in Handles /\ w # NULL
  BY ThreadMgrAssumption DEF IInv, TypeInv, TypeOK, WorkerPC, HandlesInRange, Pthreads
<1>2. heap[w] = "live"
  BY DEF IInv, TypeInv, TypeOK, Phases, PhaseAt, TableInv, Installing
<1> QED BY <1>1, <1>2 DEF IInv, TableInv

\* Two workers never install tasks at the same time: a restart creates the next
\* one when the one before it is done.
THEOREM AppHasOneInstaller == AppSpec => []OneInstaller
<1>1. IInv /\ Rounds => OneInstaller
  BY InstallerIsManaged DEF OneInstaller, Rounds
<1> QED BY <1>1, RoundsAlways, PTL

\* main() tears down when no worker can use the segment, the condition variable
\* or the tasks any more.
THEOREM AppTearsDownAfterWork == AppSpec => []TeardownAfterWork
<1>1. IInv /\ Rounds => TeardownAfterWork
  BY InstallerIsManaged DEF TeardownAfterWork, Rounds, RoundIsOver
<1> QED BY <1>1, RoundsAlways, PTL
(***************************************************************************)
(* Failure.  Once the manager thread runs, only a th_execute that cannot   *)
(* create a thread ends the program with an error.                         *)
(***************************************************************************)

\* th_execute has returned an error to main().
NotExecuted == at = "executing" /\ pc[main] = "idle" /\ rc[main] = THD_ERROR

\* main() has attached the segment before the manager thread exists, and nothing
\* is managed when th_execute fails.
Failures ==
  /\ at \in {"install", "connect"} => ~PipeExists
  /\ NotExecuted => \A h \in Handles : Threads[h] = NULL

\* A step that begins nothing: main() stays where it is, or leaves th_execute with
\* an error, and Threads[] does not grow.
LEMMA FailuresQuiet ==
  ASSUME Rounds, Failures, mgrAt' = mgrAt, at' = at,
         NotExecuted' => NotExecuted \/ pc[main] # "idle",
         \A h \in Handles : Threads'[h] \in {Threads[h], NULL}
  PROVE  Failures'
<1>1. NotExecuted' => at = "executing"
  BY DEF NotExecuted
<1>2. NotExecuted' => \A h \in Handles : Threads[h] = NULL
  BY <1>1 DEF Failures, Rounds, RoundIsOver
<1> QED BY <1>2 DEF Failures, PipeExists

\* Every step: th_execute was called with nothing managed.
LEMMA FailuresNext ==
  ASSUME IInv, MainPlace, Rounds, Failures, [AppNext]_appVars
  PROVE  Failures'
<1>0. TypeInv /\ Roles
  BY DEF IInv
<1>1. main \in Callers /\ mgr \in Callers /\ main # mgr
  BY InstallDataAssumption
<1>2. CASE UNCHANGED <<mgrAt, at, pc, rc, Threads>>
  BY <1>2 DEF Failures, PipeExists, NotExecuted
<1>3. CASE UNCHANGED appVars
  BY <1>2, <1>3 DEF appVars, mainVars, others, vars, store, frame
<1>4. ASSUME NEW c \in Callers, InLibrary(CallerStep(c) \/ Shown(c)) PROVE Failures'
  <2>1. mgrAt' = mgrAt /\ at' = at
    BY <1>4 DEF InLibrary, mainVars, others
  <2>2. CASE \E w \in Workers : Create(c, w)
    <3>1. c = main /\ rc'[main] = th[main] /\ th[main] \in Handles
      BY <1>0, <2>2, InfoType, MainCreatesAndReaps, InstallDataAssumption
         DEF Create, Roles, RoleAt, AppCalls, TypeInv, TypeOK, Pthreads
    <3>2. ~NotExecuted'
      BY <3>1 DEF NotExecuted, Handles, THD_ERROR
    <3> QED BY <2>1, <3>2 DEF Failures, PipeExists
  <2>3. CASE ~\E w \in Workers : Create(c, w)
    <3>1. \A h \in Handles : Threads'[h] \in {Threads[h], NULL}
      BY <1>0, <1>4, <2>3, CallerInLibrary
    <3>2. NotExecuted' => NotExecuted \/ pc[main] # "idle"
      <4>1. CASE c = main
        BY <1>4, <4>1 DEF InLibrary, CallerStep, Shown, Show, LockShown, LogShown, Check,
           get_next_handle, NoMemory, NoThread, Create, ReadForWait, Join, CleanupFree,
           CleanupClear, LockForKill, ReadCancelled, ReadFinished, Cancel, StoreCancelled,
           UnlockKilled, get_thread_state, ReadState, ListLock, ListNext
      <4>2. CASE c # main
        BY <1>0, <1>4, <2>1, <4>2, CallerInLibrary DEF NotExecuted
      <4> QED BY <4>1, <4>2
    <3> QED BY <2>1, <3>1, <3>2, FailuresQuiet
  <2> QED BY <2>2, <2>3
<1>5. CASE MainStep
  <2>1. CASE InstallHandlers \/ Connect \/ Loop \/ Executed \/ CondWait \/ Again \/ Uninstall
             \/ CondDestroy \/ DestroyShm \/ Exit
    BY <2>1 DEF Failures, NotExecuted, PipeExists, InstallHandlers, Connect, Loop, Executed,
       CondWait, Again, Uninstall, CondDestroy, DestroyShm, Exit, Moves, Goes, others
  <2>2. CASE Execute
    <3>1. at' = "executing" /\ mgrAt' = mgrAt /\ pc' = [pc EXCEPT ![main] = "next_handle"]
      BY <2>2 DEF Execute, Moves, Goes, Call, Goto, Entry, others
    <3>2. pc'[main] # "idle"
      BY <1>0, <1>1, <3>1 DEF TypeInv, TypeOK, Pthreads
    <3> QED BY <3>1, <3>2 DEF Failures, NotExecuted
  <2>3. CASE KillAll \/ WaitAll
    BY <2>3 DEF Failures, NotExecuted, KillAll, WaitAll, Moves, Goes
  <2>4. CASE ThreadInit
    BY <2>4 DEF Failures, NotExecuted, ThreadInit, mainVars, vars, frame, store
  <2> QED BY <1>1, <1>4, <1>5, <2>1, <2>2, <2>3, <2>4 DEF MainStep
<1>6. CASE MgrStep
  <2>1. CASE MgrKillAll
    BY <1>0, <1>1, <2>1 DEF Failures, NotExecuted, PipeExists, MgrKillAll, MgrGoes, Call, Goto,
       store, TypeInv, TypeOK, Pthreads
  <2>2. CASE MgrSignal
    BY <2>2 DEF Failures, NotExecuted, PipeExists, MgrSignal, MgrGoes, SignalCompletion, vars,
       store, frame
  <2>3. CASE Read \/ Invoke \/ Reinstall \/ Clear
    BY <2>3 DEF Failures, NotExecuted, PipeExists, Read, Invoke, Reinstall, Clear, MgrGoes,
       mainVars, vars, store, frame
  <2> QED BY <1>1, <1>4, <1>6, <2>1, <2>2, <2>3 DEF MgrStep
<1>7. ASSUME NEW w \in Workers, InstallerStep(w) PROVE Failures'
  <2>1. CASE AskName(w) \/ Finish(w) \/ Cancelled(w) \/ InLibrary(WorkerStep(w) \/ Shown(w))
    <3>1. (WorkerStep(w) \/ Shown(w) \/ UserStep(w)) /\ at' = at /\ mgrAt' = mgrAt
      BY <2>1 DEF AskName, Finish, Cancelled, UserStep, InLibrary, mainVars, others
    <3>2. Threads' = Threads /\ rc' = rc /\ pc'[main] = pc[main]
      BY <1>0, <3>1, WorkerInLibrary
    <3> QED BY <3>1, <3>2 DEF Failures, NotExecuted, PipeExists
  <2>2. CASE Sleep(w) \/ Install(w)
    BY <1>2, <2>2 DEF Sleep, Install, vars, store, frame, mainVars
  <2>3. CASE Complete(w)
    BY <2>3 DEF Failures, NotExecuted, PipeExists, Complete, SignalCompletion, vars, store, frame
  <2> QED BY <1>7, <2>1, <2>2, <2>3 DEF InstallerStep
<1>8. CASE SpuriousWakeup \/ \E s \in Signals : Send(s) \/ Deliver(s) \/ DeliverEarly(s)
  BY <1>8 DEF Failures, NotExecuted, PipeExists, SpuriousWakeup, Send, Deliver, DeliverEarly,
     Goes, others, mainVars, vars, store, frame
<1>9. CASE \E t \in Pthreads : InLibrary(Undefined(t)) \/ Crash(t)
  BY <1>2, <1>9 DEF InLibrary, Undefined, Crash, mainVars, others, vars, store, frame
<1> QED BY <1>3, <1>5, <1>6, <1>7, <1>8, <1>9 DEF AppNext

\* Once the manager thread runs, no signal ends the program and no restart wants
\* for a handle: it fails when pthread_create or malloc does.
THEOREM AppFailsOnlyToStart == AppSpec => FailsOnlyToStart
<1>1. AppInit => Failures
  BY DEF AppInit, Failures, NotExecuted, PipeExists
<1>2. Failures /\ [AppNext]_appVars =>
        [PipeExists /\ at # "failed" /\ at' = "failed"
           => at = "executing" /\ \A h \in Handles : Threads[h] = NULL]_appVars
  <2> SUFFICES ASSUME Failures, AppNext, PipeExists, at # "failed", at' = "failed"
               PROVE  at = "executing" /\ \A h \in Handles : Threads[h] = NULL
    OBVIOUS
  <2>1. InstallHandlers \/ Connect \/ Executed
    BY DEF AppNext, MainStep, MgrStep, InstallerStep, Loop, ThreadInit, Execute, CondWait,
       KillAll, WaitAll, Again, Uninstall, CondDestroy, DestroyShm, Exit, InLibrary, Moves, Goes,
       Read, Invoke, MgrKillAll, Reinstall, Clear, MgrSignal, SignalCompletion, AskName, Sleep,
       Install, Complete, Finish, Cancelled, SpuriousWakeup, Send, Deliver, DeliverEarly, Crash,
       mainVars
  <2>2. Executed
    BY <2>1 DEF Failures, InstallHandlers, Connect, Goes
  <2> QED BY <2>2 DEF Failures, NotExecuted, Executed, Moves, Goes
<1> QED BY <1>1, <1>2, RoundsAlways, FailuresNext, PTL DEF AppSpec, FailsOnlyToStart

(***************************************************************************)
(* The variables of the program, and what the worker has installed.        *)
(***************************************************************************)

\* The worker's place in the list: before a task there is one left, and at a task
\* it has a number.
WorkPlace ==
  \A w \in Workers : /\ work[w] = "entry" => item[w] < Len(Tasks)
                     /\ work[w] \in {"sleep", "write"} => item[w] # 0
                     /\ work[w] = "enter" => item[w] = 0

\* What the constants are.
LEMMA TaskFacts ==
  /\ Len(Tasks) \in Nat
  /\ \A k \in 1 .. Len(Tasks) : /\ k \in DOMAIN Tasks /\ Tasks[k].index \in Indices
                               /\ Tasks[k].install \in BOOLEAN
  /\ PipeCapacity \in Nat \ {0} /\ MaxSignals \in Nat /\ MaxSpurious \in Nat
  /\ NextItem(0) \in {"entry", "finish"}
<1>1. Len(Tasks) \in Nat /\ DOMAIN Tasks = 1 .. Len(Tasks)
  BY InstallDataAssumption
<1>2. \A k \in 1 .. Len(Tasks) : Tasks[k] \in [index : Nat, install : BOOLEAN]
  <2>1. ASSUME NEW S, NEW s \in Seq(S), NEW k \in 1 .. Len(s) PROVE s[k] \in S
    OBVIOUS
  <2> QED BY <2>1, InstallDataAssumption
<1>3. \A k \in 1 .. Len(Tasks) : Tasks[k].index \in Indices
  BY <1>1 DEF Indices
<1> QED BY <1>1, <1>2, <1>3, InstallDataAssumption DEF NextItem

\* A step that is not the worker's own leaves its place alone.
LEMMA OthersKeepPlace ==
  ASSUME AppNext, ~\E w \in Workers : InstallerStep(w)
  PROVE  UNCHANGED <<work, item>>
<1>1. ASSUME MainStep PROVE UNCHANGED <<work, item>>
  BY <1>1 DEF MainStep, InstallHandlers, Connect, Loop, ThreadInit, Execute, Executed,
     CondWait, KillAll, WaitAll, Again, Uninstall, CondDestroy, DestroyShm, Exit, InLibrary,
     Moves, Goes, others
<1>2. ASSUME MgrStep PROVE UNCHANGED <<work, item>>
  BY <1>2 DEF MgrStep, Read, Invoke, MgrKillAll, Reinstall, Clear, MgrSignal, InLibrary,
     MgrGoes, others
<1>3. ASSUME NEW t \in Pthreads, InLibrary(Undefined(t)) \/ Crash(t)
      PROVE  UNCHANGED <<work, item>>
  BY <1>3 DEF InLibrary, Crash, others
<1>4. ASSUME NEW s \in Signals, Send(s) \/ Deliver(s) \/ DeliverEarly(s)
      PROVE  UNCHANGED <<work, item>>
  BY <1>4 DEF Send, Deliver, DeliverEarly
<1>5. ASSUME SpuriousWakeup PROVE UNCHANGED <<work, item>>
  BY <1>5 DEF SpuriousWakeup, Goes, others
<1> QED BY <1>1, <1>2, <1>3, <1>4, <1>5 DEF AppNext

\* What one step of a worker does to its place, and to the segment.
LEMMA PlaceStep ==
  ASSUME NEW w \in Workers, InstallerStep(w)
  PROVE  \/ UNCHANGED <<work, item, shm>>
         \/ /\ pc[w] = "run" /\ UNCHANGED <<item, shm>>
            /\ \/ work[w] = "enter" /\ work' = [work EXCEPT ![w] = NextItem(0)]
               \/ work[w] = "sleep" /\ work' = [work EXCEPT ![w] = "write"]
               \/ work[w] = "finish" /\ work' = [work EXCEPT ![w] = "return"]
         \/ /\ pc[w] = "run" /\ work[w] = "entry" /\ UNCHANGED shm
            /\ work' = [work EXCEPT ![w] = "sleep"]
            /\ item' = [item EXCEPT ![w] = @ + 1]
         \/ /\ pc[w] = "run" /\ work[w] = "write" /\ UNCHANGED item
            /\ work' = [work EXCEPT ![w] = NextItem(item[w])]
            /\ shm' = Applied(shm, item[w])
BY DEF InstallerStep, AskName, Sleep, Install, Complete, Finish, Cancelled, InLibrary,
   WorkerAt, others

\* The places of a worker keep their types.
LEMMA PlacesNext ==
  ASSUME AppTypeOK, WorkPlace, [AppNext]_appVars
  PROVE  /\ work' \in [Workers -> {"enter", "entry", "sleep", "write", "finish", "return"}]
         /\ item' \in [Workers -> 0 .. Len(Tasks)]
         /\ WorkPlace'
<1> USE DEF WorkPlace
<1>1. CASE UNCHANGED <<work, item>>
  BY <1>1 DEF AppTypeOK
<1>2. ASSUME NEW w \in Workers, InstallerStep(w)
      PROVE  /\ work' \in [Workers -> {"enter", "entry", "sleep", "write", "finish", "return"}]
             /\ item' \in [Workers -> 0 .. Len(Tasks)]
             /\ WorkPlace'
  <2>1. CASE /\ UNCHANGED item
             /\ \/ work[w] = "enter" /\ work' = [work EXCEPT ![w] = NextItem(0)]
                \/ work[w] = "sleep" /\ work' = [work EXCEPT ![w] = "write"]
                \/ work[w] = "finish" /\ work' = [work EXCEPT ![w] = "return"]
                \/ work[w] = "write" /\ work' = [work EXCEPT ![w] = NextItem(item[w])]
    <3>1. /\ NextItem(0) \in {"entry", "finish"} /\ NextItem(item[w]) \in {"entry", "finish"}
          /\ NextItem(item[w]) = "entry" => item[w] < Len(Tasks)
      BY DEF NextItem
    <3>2. work[w] = "enter" => item[w] = 0
      OBVIOUS
    <3>3. PICK p \in {"entry", "write", "finish", "return"} :
            /\ work' = [work EXCEPT ![w] = p]
            /\ p = "entry" => item[w] < Len(Tasks)
            /\ p = "write" => item[w] # 0
      BY <2>1, <3>1, <3>2
    <3> QED BY <2>1, <3>3 DEF AppTypeOK
  <2>2. CASE /\ work[w] = "entry" /\ work' = [work EXCEPT ![w] = "sleep"]
             /\ item' = [item EXCEPT ![w] = @ + 1]
    BY <2>2, TaskFacts DEF AppTypeOK
  <2> QED BY <1>1, <1>2, <2>1, <2>2, PlaceStep
<1> QED BY <1>1, <1>2, OthersKeepPlace DEF appVars, others

\* install_point and invalidate_point write a point.
LEMMA AppliedType ==
  ASSUME NEW s \in [Indices -> {-1, 0} \cup DOMAIN Tasks], NEW k \in 1 .. Len(Tasks)
  PROVE  Applied(s, k) \in [Indices -> {-1, 0} \cup DOMAIN Tasks]
BY TaskFacts DEF Applied
\* What AppTypeOK says of main(), of the signals and of the manager thread
MainTypes ==
  /\ at \in {"install", "connect", "loop", "execute", "executing", "wait", "waiting", "woken",
             "killing", "joining", "uninstall", "failed"} \cup Teardown
  /\ handler \in [Caught -> {"none", "live", "freed"}]
  /\ attached \in BOOLEAN /\ ReinstallTasks \in BOOLEAN
  /\ spurious \in 0 .. MaxSpurious /\ overtaken \in BOOLEAN

SignalTypes ==
  /\ mgrAt \in {"none", "read", "invoke", "kill", "killing", "reinstall", "clear", "signal"}
  /\ signum \in Caught
  /\ pending \subseteq Signals
  /\ pipe \in Seq(Caught)
  /\ sent \in 0 .. MaxSignals
  /\ crash \in Pthreads \cup {NULL}

\* main()'s variables keep their types.
LEMMA MainTypesNext == MainTypes /\ [AppNext]_appVars => MainTypes'
<1> SUFFICES ASSUME MainTypes, [AppNext]_appVars PROVE MainTypes'
  OBVIOUS
<1> USE DEF MainTypes, Teardown, Goes, Moves, mainVars
<1>1. CASE UNCHANGED mainVars
  BY <1>1
<1>2. CASE MainStep
  <2>1. CASE InstallHandlers \/ Uninstall
    BY <2>1 DEF InstallHandlers, Uninstall, Caught
  <2>2. CASE Connect \/ Loop \/ DestroyShm
    BY <2>2 DEF Connect, Loop, DestroyShm
  <2>3. CASE Execute \/ Executed \/ CondWait \/ KillAll \/ WaitAll \/ Again \/ CondDestroy \/ Exit
    BY <2>3 DEF Execute, Executed, CondWait, KillAll, WaitAll, Again, CondDestroy, Exit
  <2> QED BY <1>1, <1>2, <2>1, <2>2, <2>3 DEF MainStep, ThreadInit, InLibrary
<1>3. CASE MgrStep
  BY <1>1, <1>3 DEF MgrStep, Read, Invoke, MgrKillAll, Reinstall, Clear, MgrSignal,
     SignalCompletion, InLibrary
<1>4. ASSUME NEW w \in Workers, InstallerStep(w) PROVE MainTypes'
  BY <1>1, <1>4 DEF InstallerStep, AskName, Sleep, Install, Complete, Finish, Cancelled,
     SignalCompletion, InLibrary
<1>5. CASE SpuriousWakeup
  BY <1>5, TaskFacts DEF SpuriousWakeup
<1>6. ASSUME NEW s \in Signals, Send(s) \/ Deliver(s) \/ DeliverEarly(s) PROVE MainTypes'
  BY <1>1, <1>6 DEF Send, Deliver, DeliverEarly
<1>7. ASSUME NEW t \in Pthreads, InLibrary(Undefined(t)) \/ Crash(t) PROVE MainTypes'
  BY <1>1, <1>7 DEF InLibrary, Crash
<1> QED BY <1>1, <1>2, <1>3, <1>4, <1>5, <1>6, <1>7 DEF AppNext, appVars

\* The pipe holds only signals that have a handler.
LEMMA SignalTypesNext == SignalTypes /\ [AppNext]_appVars => SignalTypes'
<1> SUFFICES ASSUME SignalTypes, [AppNext]_appVars PROVE SignalTypes'
  OBVIOUS
<1> USE DEF SignalTypes, others
<1>1. CASE UNCHANGED <<mgrAt, signum, pending, pipe, sent, crash>>
  BY <1>1
<1>2. CASE MainStep
  BY <1>1, <1>2 DEF MainStep, InstallHandlers, Connect, Loop, ThreadInit, Execute, Executed,
     CondWait, KillAll, WaitAll, Again, Uninstall, CondDestroy, DestroyShm, Exit, InLibrary,
     Moves, Goes
<1>3. CASE Read
  <2>1. ASSUME NEW S, NEW q \in Seq(S), q # <<>>
        PROVE  Head(q) \in S /\ Tail(q) \in Seq(S)
    BY <2>1
  <2>2. Head(pipe) \in Caught /\ Tail(pipe) \in Seq(Caught)
    BY <1>3, <2>1 DEF Read
  <2> QED BY <1>3, <2>2 DEF Read, MgrGoes
<1>4. CASE MgrStep /\ ~Read
  BY <1>1, <1>4 DEF MgrStep, Invoke, MgrKillAll, Reinstall, Clear, MgrSignal, InLibrary, MgrGoes
<1>5. ASSUME NEW w \in Workers, InstallerStep(w) PROVE SignalTypes'
  BY <1>1, <1>5 DEF InstallerStep, AskName, Sleep, Install, Complete, Finish, Cancelled, InLibrary
<1>6. ASSUME NEW s \in Signals, Send(s) \/ DeliverEarly(s) PROVE SignalTypes'
  BY <1>6, TaskFacts DEF Send, DeliverEarly
<1>7. ASSUME NEW s \in Signals, Deliver(s) PROVE SignalTypes'
  BY <1>7, TaskFacts DEF Deliver, Deliverable
<1>8. ASSUME NEW t \in Pthreads, InLibrary(Undefined(t)) \/ Crash(t) PROVE SignalTypes'
  BY <1>1, <1>8 DEF InLibrary, Crash
<1>9. CASE SpuriousWakeup
  BY <1>1, <1>9 DEF SpuriousWakeup, Goes
<1> QED BY <1>1, <1>2, <1>3, <1>4, <1>5, <1>6, <1>7, <1>8, <1>9 DEF AppNext, appVars

\* The segment holds numbers of tasks, 0 and -1.
LEMMA ShmNext ==
  ASSUME AppTypeOK, WorkPlace, [AppNext]_appVars
  PROVE  shm' \in [Indices -> {-1, 0} \cup DOMAIN Tasks]
<1>1. CASE UNCHANGED shm
  BY <1>1 DEF AppTypeOK
<1>2. ASSUME NEW w \in Workers, InstallerStep(w)
      PROVE  shm' \in [Indices -> {-1, 0} \cup DOMAIN Tasks]
  BY <1>1, <1>2, PlaceStep, AppliedType DEF AppTypeOK, WorkPlace
<1>3. CASE Clear
  BY <1>3 DEF Clear, Cleared
<1>4. CASE ~Clear /\ ~\E w \in Workers : InstallerStep(w)
  <2>1. CASE MainStep
    BY <1>1, <2>1 DEF MainStep, InstallHandlers, Connect, Loop, ThreadInit, Execute, Executed,
       CondWait, KillAll, WaitAll, Again, Uninstall, CondDestroy, DestroyShm, Exit, InLibrary,
       Moves, Goes, others
  <2>2. CASE MgrStep
    BY <1>1, <1>4, <2>2 DEF MgrStep, Read, Invoke, MgrKillAll, Reinstall, MgrSignal, InLibrary, others
  <2>3. CASE UNCHANGED appVars
    BY <1>1, <2>3 DEF appVars, others
  <2>4. ASSUME NEW t \in Pthreads, InLibrary(Undefined(t)) \/ Crash(t) PROVE UNCHANGED shm
    BY <2>4 DEF InLibrary, Crash, others
  <2>5. CASE SpuriousWakeup \/ \E s \in Signals : Send(s) \/ Deliver(s) \/ DeliverEarly(s)
    BY <1>1, <2>5 DEF SpuriousWakeup, Goes, others, Send, Deliver, DeliverEarly
  <2> QED BY <1>1, <1>4, <2>1, <2>2, <2>3, <2>4, <2>5 DEF AppNext
<1> QED BY <1>1, <1>2, <1>3, <1>4

\* The program's variables always have their types.
LEMMA AppTypesAlways == AppSpec => [](AppTypeOK /\ WorkPlace)
<1>1. AppInit => AppTypeOK /\ WorkPlace
  <2> SUFFICES ASSUME AppInit PROVE AppTypeOK /\ WorkPlace
    OBVIOUS
  <2>1. shm \in [Indices -> {-1, 0} \cup DOMAIN Tasks]
    BY DEF AppInit, Cleared, LeftOver
  <2>2. pipe \in Seq(Caught)
    BY DEF AppInit
  <2>3. handler \in [Caught -> {"none", "live", "freed"}]
    BY DEF AppInit
  <2>4. /\ work \in [Workers -> {"enter", "entry", "sleep", "write", "finish", "return"}]
        /\ item \in [Workers -> 0 .. Len(Tasks)]
        /\ WorkPlace
    BY TaskFacts DEF AppInit, WorkPlace
  <2>5. /\ at = "install" /\ mgrAt = "none" /\ signum \in Caught /\ pending = {}
        /\ attached = FALSE /\ ReinstallTasks = FALSE /\ overtaken = FALSE
        /\ sent \in 0 .. MaxSignals /\ spurious \in 0 .. MaxSpurious /\ crash = NULL
    BY TaskFacts DEF AppInit
  <2> QED BY <2>1, <2>2, <2>3, <2>4, <2>5 DEF AppTypeOK
<1>2. AppTypeOK /\ WorkPlace /\ [AppNext]_appVars => (AppTypeOK /\ WorkPlace)'
  <2> SUFFICES ASSUME AppTypeOK, WorkPlace, [AppNext]_appVars PROVE AppTypeOK' /\ WorkPlace'
    OBVIOUS
  <2>1. MainTypes /\ SignalTypes
    BY DEF AppTypeOK, MainTypes, SignalTypes
  <2> QED BY <2>1, MainTypesNext, SignalTypesNext, PlacesNext, ShmNext
          DEF AppTypeOK, MainTypes, SignalTypes
<1> QED BY <1>1, <1>2, PTL DEF AppSpec

\* The types of the program's variables, with any number of signals and restarts.
THEOREM AppTypeCorrect == AppSpec => []AppTypeOK
BY AppTypesAlways, PTL
(***************************************************************************)
(* Without a SIGHUP there is one round: the segment is what the tasks that *)
(* its worker has done leave of what it held before.                       *)
(***************************************************************************)

\* The manager thread only ever hears of SIGINT.
NoHangup ==
  /\ pipe \in Seq({"SIGINT"})
  /\ mgrAt \in {"none", "read"} \/ (mgrAt \in {"invoke", "kill", "killing"} /\ signum = "SIGINT")
  /\ ~ReinstallTasks

\* It stays so.
LEMMA NoHangupNext ==
  ASSUME "SIGHUP" \notin Signals, AppTypeOK, NoHangup, [AppNext]_appVars
  PROVE  NoHangup'
<1> USE DEF NoHangup, others, mainVars
<1>1. CASE UNCHANGED <<pipe, mgrAt, signum, ReinstallTasks>>
  BY <1>1
<1>2. CASE MainStep
  BY <1>1, <1>2 DEF MainStep, InstallHandlers, Connect, Loop, ThreadInit, Execute, Executed,
     CondWait, KillAll, WaitAll, Again, Uninstall, CondDestroy, DestroyShm, Exit, InLibrary,
     Moves, Goes
<1>3. CASE Read
  <2>1. ASSUME NEW S, NEW q \in Seq(S), q # <<>> PROVE Head(q) \in S /\ Tail(q) \in Seq(S)
    BY <2>1
  <2>2. Head(pipe) \in {"SIGINT"} /\ Tail(pipe) \in Seq({"SIGINT"})
    BY <1>3, <2>1 DEF Read
  <2> QED BY <1>3, <2>2 DEF Read, MgrGoes
<1>4. CASE MgrStep /\ ~Read
  BY <1>1, <1>4 DEF MgrStep, Invoke, MgrKillAll, Reinstall, Clear, MgrSignal, SignalCompletion,
     InLibrary, MgrGoes
<1>5. ASSUME NEW w \in Workers, InstallerStep(w) PROVE NoHangup'
  BY <1>1, <1>5 DEF InstallerStep, AskName, Sleep, Install, Complete, Finish, Cancelled,
     SignalCompletion, InLibrary
<1>6. ASSUME NEW s \in Signals, Send(s) \/ DeliverEarly(s) PROVE NoHangup'
  BY <1>1, <1>6 DEF Send, DeliverEarly
<1>7. ASSUME NEW s \in Signals, Deliver(s) PROVE NoHangup'
  <2>1. s = "SIGINT"
    BY <1>7 DEF Deliver, Deliverable, Caught
  <2> QED BY <1>7, <2>1 DEF Deliver
<1>8. ASSUME NEW t \in Pthreads, InLibrary(Undefined(t)) \/ Crash(t) PROVE NoHangup'
  BY <1>1, <1>8 DEF InLibrary, Crash
<1>9. CASE SpuriousWakeup
  BY <1>1, <1>9 DEF SpuriousWakeup, Goes
<1> QED BY <1>1, <1>2, <1>3, <1>4, <1>5, <1>6, <1>7, <1>8, <1>9 DEF AppNext, appVars

\* main() has not yet created the worker of its first round.
FirstTime ==
  \/ at \in {"install", "connect", "loop", "execute"}
  \/ at = "executing" /\ pc[main] # "idle"

\* main() does not go back to its loop.
LEMMA FirstTimeOnce ==
  ASSUME TypeInv, NoHangup, MainPlace, [AppNext]_appVars, FirstTime'
  PROVE  FirstTime
<1> USE DEF FirstTime
<1>1. main \in Callers /\ mgr \in Callers /\ main # mgr
  BY InstallDataAssumption
<1>2. CASE UNCHANGED <<pc, at>>
  BY <1>2
<1>3. CASE InstallHandlers \/ Connect \/ Loop \/ Execute
  BY <1>3 DEF InstallHandlers, Connect, Loop, Execute, Moves, Goes
<1>4. CASE \/ Executed \/ CondWait \/ KillAll \/ WaitAll \/ Uninstall \/ CondDestroy
           \/ DestroyShm \/ Exit
  BY <1>4 DEF Executed, CondWait, KillAll, WaitAll, Uninstall, CondDestroy, DestroyShm, Exit,
     Moves, Goes
<1>5. CASE Again
  BY <1>5 DEF Again, Moves, Goes, NoHangup
<1>6. CASE ThreadInit \/ Read \/ Invoke \/ Reinstall \/ Clear
  BY <1>2, <1>6 DEF ThreadInit, Read, Invoke, Reinstall, Clear, mainVars, vars
<1>7. CASE MgrSignal
  BY <1>7 DEF MgrSignal, SignalCompletion, vars
<1>8. CASE MgrKillAll
  BY <1>1, <1>8 DEF MgrKillAll, Call, Goto, TypeInv, TypeOK, Pthreads
<1>9. CASE InLibrary(CallerStep(main) \/ Shown(main)) \/ InLibrary(CallerStep(mgr) \/ Shown(mgr))
  BY <1>1, <1>9, CallerInLibrary
<1>10. ASSUME NEW w \in Workers, InstallerStep(w) PROVE FirstTime
  <2>1. CASE AskName(w) \/ Finish(w) \/ Cancelled(w)
    BY <2>1, WorkerInLibrary DEF AskName, Finish, Cancelled, UserStep, mainVars
  <2>2. CASE InLibrary(WorkerStep(w) \/ Shown(w))
    BY <2>2, WorkerInLibrary DEF InLibrary, mainVars
  <2>3. CASE Sleep(w) \/ Install(w)
    BY <1>2, <2>3 DEF Sleep, Install, vars, mainVars
  <2>4. CASE Complete(w)
    BY <2>4 DEF Complete, SignalCompletion, vars
  <2> QED BY <1>10, <2>1, <2>2, <2>3, <2>4 DEF InstallerStep
<1>11. CASE SpuriousWakeup
  BY <1>11 DEF SpuriousWakeup, Goes
<1>12. ASSUME NEW s \in Signals, Send(s) \/ Deliver(s) \/ DeliverEarly(s) PROVE FirstTime
  BY <1>2, <1>12 DEF Send, Deliver, DeliverEarly, vars, mainVars
<1>13. ASSUME NEW t \in Pthreads, InLibrary(Undefined(t)) \/ Crash(t) PROVE FirstTime
  BY <1>2, <1>13 DEF InLibrary, Undefined, Crash, vars, mainVars
<1> QED BY <1>2, <1>3, <1>4, <1>5, <1>6, <1>7, <1>8, <1>9, <1>10, <1>11, <1>12, <1>13
        DEF AppNext, MainStep, MgrStep, appVars, mainVars, vars
\* Only th_execute brings a worker to life.
LEMMA Births ==
  ASSUME TypeInv, Phases, AppNext
  PROVE  \/ \A w \in Workers : life'[w] = "none" <=> life[w] = "none"
         \/ \E c \in Callers, w \in Workers : Create(c, w) /\ UNCHANGED <<mainVars, others>>
<1> USE DEF TypeInv, TypeOK
<1>1. main \in Callers /\ mgr \in Callers
  BY InstallDataAssumption
<1>2. CASE life' = life
  BY <1>2
<1>3. ASSUME NEW c \in Callers, CallerStep(c) \/ Shown(c), ~\E w \in Workers : Create(c, w)
      PROVE  \A w \in Workers : life'[w] = "none" <=> life[w] = "none"
  <2>1. CASE Join(c)
    BY <2>1 DEF Join
  <2>2. CASE ~Join(c)
    BY <1>2, <1>3, <2>2 DEF CallerStep, Shown, Show, LockShown, LogShown, Check, get_next_handle,
       NoMemory, NoThread, ReadForWait, CleanupFree, CleanupClear, LockForKill, ReadCancelled,
       ReadFinished, Cancel, StoreCancelled, UnlockKilled, get_thread_state, ReadState, ListLock, ListNext, os
  <2> QED BY <2>1, <2>2
<1>4. ASSUME NEW w \in Workers, WorkerStep(w) \/ Shown(w) \/ UserStep(w)
      PROVE  \A v \in Workers : life'[v] = "none" <=> life[v] = "none"
  <2>1. CASE th_exit(w) \/ Terminate(w) \/ CancelledInLog(w) \/ CancelPoint(w)
    BY <2>1 DEF th_exit, Terminate, CancelledInLog, CancelPoint, Phases, PhaseAt
  <2>2. CASE ~(th_exit(w) \/ Terminate(w) \/ CancelledInLog(w) \/ CancelPoint(w))
    BY <1>2, <1>4, <2>2 DEF WorkerStep, UserStep, Shown, Show, LockShown, LogShown, Start, Setup,
       Started, ReadName, get_thread_name, FuncReturn, os
  <2> QED BY <2>1, <2>2
<1>5. CASE MainStep
  <2>1. CASE InLibrary(CallerStep(main) \/ Shown(main))
    BY <1>1, <1>3, <2>1 DEF InLibrary
  <2>2. CASE ~InLibrary(CallerStep(main) \/ Shown(main))
    BY <1>2, <1>5, <2>2 DEF MainStep, InstallHandlers, Connect, Loop, ThreadInit, Execute,
       Executed, CondWait, KillAll, WaitAll, Again, Uninstall, CondDestroy, DestroyShm, Exit,
       Call, vars, os
  <2> QED BY <2>1, <2>2
<1>6. CASE MgrStep
  <2>1. CASE InLibrary(CallerStep(mgr) \/ Shown(mgr))
    BY <1>1, <1>3, <2>1 DEF InLibrary
  <2>2. CASE ~InLibrary(CallerStep(mgr) \/ Shown(mgr))
    BY <1>2, <1>6, <2>2 DEF MgrStep, Read, Invoke, MgrKillAll, Reinstall, Clear, MgrSignal, Call,
       vars, os
  <2> QED BY <2>1, <2>2
<1>7. ASSUME NEW w \in Workers, InstallerStep(w)
      PROVE  \A v \in Workers : life'[v] = "none" <=> life[v] = "none"
  <2>1. CASE Sleep(w) \/ Install(w) \/ Complete(w)
    BY <1>2, <2>1 DEF Sleep, Install, Complete, vars, os
  <2>2. CASE ~(Sleep(w) \/ Install(w) \/ Complete(w))
    BY <1>4, <1>7, <2>2 DEF InstallerStep, AskName, Finish, Cancelled, InLibrary, UserStep
  <2> QED BY <2>1, <2>2
<1>8. CASE SpuriousWakeup \/ \E s \in Signals : Send(s) \/ Deliver(s) \/ DeliverEarly(s)
  BY <1>2, <1>8 DEF SpuriousWakeup, Send, Deliver, DeliverEarly, vars, os
<1>9. CASE \E t \in Pthreads : InLibrary(Undefined(t)) \/ Crash(t)
  BY <1>2, <1>9 DEF InLibrary, Undefined, Crash, vars, os
<1> QED BY <1>5, <1>6, <1>7, <1>8, <1>9 DEF AppNext

\* A worker that was not created has done nothing.
Unborn == \A w \in Workers : life[w] = "none" => work[w] = "enter"

\* One worker, not before the end of th_execute.
OneRound ==
  /\ FirstTime => \A w \in Workers : life[w] = "none"
  /\ \A v, w \in Workers : life[v] # "none" /\ life[w] # "none" => v = w
  /\ Unborn

\* How many tasks a worker has done
Performed(w) == IF work[w] \in {"sleep", "write"} THEN item[w] - 1 ELSE item[w]

\* The segment, from what it was
ContentFrom(base) ==
  /\ (\A w \in Workers : life[w] = "none") => shm = base
  /\ \A w \in Workers : life[w] # "none" => shm = Result(base, Performed(w))

\* The last of the numbers up to k
LEMMA LastOfAll ==
  ASSUME NEW k \in Nat, NEW D, D \subseteq 1 .. k, k \in D
  PROVE  (CHOOSE j \in D : \A l \in D : l <= j) = k
<1>1. \A l \in D : l \in 1 .. k
  OBVIOUS
<1>2. \A l \in D : l <= k
  BY <1>1
<1>3. ASSUME NEW j \in D, \A l \in D : l <= j PROVE j = k
  <2>1. k <= j
    BY <1>3
  <2>2. j \in 1 .. k
    BY <1>1
  <2> QED BY <2>1, <2>2
<1> QED BY <1>2, <1>3, Zenon

\* One task more is one step of install_point or invalidate_point.
LEMMA ResultStep ==
  ASSUME NEW base, NEW k \in 1 .. Len(Tasks)
  PROVE  Applied(Result(base, k - 1), k) = Result(base, k)
<1>1. /\ Len(Tasks) \in Nat /\ Tasks[k].index \in Indices
  BY TaskFacts
<1> DEFINE Upto(n, i) == {j \in 1 .. n : Tasks[j].index = i}
           Last(D) == CHOOSE j \in D : \A l \in D : l <= j
           Value(n, i) == IF Upto(n, i) = {} THEN base[i]
                          ELSE IF Tasks[Last(Upto(n, i))].install THEN Last(Upto(n, i)) ELSE 0
<1>2. \A n \in 0 .. Len(Tasks) : Result(base, n) = [i \in Indices |-> Value(n, i)]
  BY DEF Result
<1>3. ASSUME NEW i \in Indices, i # Tasks[k].index PROVE Value(k, i) = Value(k - 1, i)
  <2>1. Upto(k, i) = Upto(k - 1, i)
    BY <1>1, <1>3
  <2> HIDE DEF Upto, Last
  <2> QED BY <2>1, Zenon
<1>4. Value(k, Tasks[k].index) = IF Tasks[k].install THEN k ELSE 0
  <2>1. k \in Upto(k, Tasks[k].index) /\ Upto(k, Tasks[k].index) \subseteq 1 .. k /\ k \in Nat
    BY <1>1
  <2> HIDE DEF Upto
  <2>2. Last(Upto(k, Tasks[k].index)) = k
    BY <2>1, LastOfAll
  <2> HIDE DEF Last
  <2> QED BY <2>1, <2>2
<1>5. k - 1 \in 0 .. Len(Tasks) /\ k \in 0 .. Len(Tasks)
  BY <1>1
<1> HIDE DEF Value
<1> QED BY <1>1, <1>2, <1>3, <1>4, <1>5 DEF Applied

\* What the segment may hold when a round begins
Contents == [Indices -> {-1, 0} \cup DOMAIN Tasks]

\* No task leaves what was there.
LEMMA ResultOfNone == ASSUME NEW base \in Contents PROVE Result(base, 0) = base
BY DEF Result, Contents

LEMMA FirstContents == {Cleared, LeftOver} \subseteq Contents
BY DEF Cleared, LeftOver, Contents

\* All of the tasks leave nothing of it.
LEMMA ResultOfAll ==
  ASSUME NEW base PROVE Result(base, Len(Tasks)) = Result(Cleared, Len(Tasks))
<1> DEFINE Upto(i) == {j \in 1 .. Len(Tasks) : Tasks[j].index = i}
           Last(D) == CHOOSE j \in D : \A l \in D : l <= j
           Value(b, i) == IF Upto(i) = {} THEN b[i]
                          ELSE IF Tasks[Last(Upto(i))].install THEN Last(Upto(i)) ELSE 0
<1>1. \A i \in Indices : Upto(i) # {}
  BY InstallDataAssumption DEF Indices
<1>2. \A b : Result(b, Len(Tasks)) = [i \in Indices |-> Value(b, i)]
  BY DEF Result
<1>3. \A i \in Indices : Value(base, i) = Value(Cleared, i)
  <2> HIDE DEF Upto, Last
  <2> QED BY <1>1
<1> HIDE DEF Value
<1> QED BY <1>2, <1>3

\* The birth of the worker: main() is in th_execute, for the first time.
LEMMA FirstBirth ==
  ASSUME TypeInv, Roles, MainPlace, Running, OneRound, NEW c \in Callers, NEW w \in Workers,
         Create(c, w), UNCHANGED <<mainVars, others>>
  PROVE  /\ \A v \in Workers : life[v] = "none" /\ work[v] = "enter"
         /\ \A v \in Workers : life'[v] # "none" <=> v = w
         /\ ~FirstTime'
<1>1. c = main /\ pc[main] # "idle" /\ at = "executing"
  BY MainCreatesAndReaps, InstallDataAssumption
     DEF Create, Roles, RoleAt, AppCalls, MainPlace, Running
<1>2. pc'[main] = "idle" /\ at' = "executing" /\ life' = [life EXCEPT ![w] = "alive"]
  BY <1>1, ThreadMgrAssumption DEF Create, TypeInv, TypeOK, Pthreads, mainVars
<1> QED BY <1>1, <1>2 DEF OneRound, Unborn, FirstTime, TypeInv, TypeOK

\* It stays so until it is created.
LEMMA UnbornNext ==
  ASSUME Phases, AppTypeOK, Unborn, AppNext,
         \A w \in Workers : life'[w] = "none" <=> life[w] = "none"
  PROVE  Unborn'
<1>1. ASSUME NEW w \in Workers, life[w] = "none" PROVE work'[w] = "enter"
  <2>1. pc[w] # "run" /\ work[w] = "enter"
    BY <1>1 DEF Unborn, Phases, PhaseAt
  <2>2. ASSUME NEW v \in Workers, InstallerStep(v) PROVE work'[w] = "enter"
    BY <2>1, <2>2, PlaceStep DEF AppTypeOK
  <2> QED BY <2>1, <2>2, OthersKeepPlace
<1> QED BY <1>1 DEF Unborn

\* No second worker comes to life.
LEMMA OneRoundNext ==
  ASSUME TypeInv, Phases, Roles, NoHangup, MainPlace, AppTypeOK, OneRound, [AppNext]_appVars
  PROVE  OneRound'
<1>1. CASE UNCHANGED appVars
  BY <1>1 DEF appVars, mainVars, others, vars, os, OneRound, Unborn, FirstTime
<1>2. ASSUME AppNext, \A w \in Workers : life'[w] = "none" <=> life[w] = "none"
      PROVE  OneRound'
  <2>1. FirstTime' => FirstTime
    BY FirstTimeOnce
  <2>2. Unborn'
    BY <1>2, UnbornNext DEF OneRound
  <2> QED BY <1>2, <2>1, <2>2 DEF OneRound
<1>3. ASSUME AppNext, NEW c \in Callers, NEW w \in Workers, Create(c, w),
             UNCHANGED <<mainVars, others>>
      PROVE  OneRound'
  <2>1. Running /\ work' = work
    BY <1>3 DEF AppNext, others
  <2> QED BY <1>3, <2>1, FirstBirth DEF OneRound, Unborn
<1> QED BY <1>1, <1>2, <1>3, Births

\* Without a SIGHUP only the worker writes the segment.
LEMMA OnlyInstallersWrite ==
  ASSUME NoHangup, AppNext, ~\E w \in Workers : InstallerStep(w)
  PROVE  shm' = shm
<1>1. ASSUME MainStep PROVE shm' = shm
  BY <1>1 DEF MainStep, InstallHandlers, Connect, Loop, ThreadInit, Execute, Executed,
     CondWait, KillAll, WaitAll, Again, Uninstall, CondDestroy, DestroyShm, Exit, InLibrary,
     Moves, Goes, others
<1>2. ASSUME MgrStep PROVE shm' = shm
  BY <1>2 DEF NoHangup, MgrStep, Read, Invoke, MgrKillAll, Reinstall, Clear, MgrGoes, MgrSignal,
     InLibrary, others
<1>3. ASSUME NEW t \in Pthreads, InLibrary(Undefined(t)) \/ Crash(t) PROVE shm' = shm
  BY <1>3 DEF InLibrary, Crash, others
<1>4. CASE SpuriousWakeup \/ \E s \in Signals : Send(s) \/ Deliver(s) \/ DeliverEarly(s)
  BY <1>4 DEF SpuriousWakeup, Goes, others, Send, Deliver, DeliverEarly
<1> QED BY <1>1, <1>2, <1>3, <1>4 DEF AppNext

\* The worker's step leaves what the tasks it has done leave.
LEMMA PerformedStep ==
  ASSUME AppTypeOK, WorkPlace, NEW base, NEW w \in Workers, InstallerStep(w),
         shm = Result(base, Performed(w))
  PROVE  shm' = Result(base, Performed(w)')
<1>1. CASE UNCHANGED <<work, item, shm>>
  BY <1>1 DEF Performed
<1>2. item[w] \in 0 .. Len(Tasks) /\ Len(Tasks) \in Nat
  BY TaskFacts DEF AppTypeOK
<1>3. CASE /\ UNCHANGED <<item, shm>>
           /\ \/ work[w] = "enter" /\ work' = [work EXCEPT ![w] = NextItem(0)]
              \/ work[w] = "sleep" /\ work' = [work EXCEPT ![w] = "write"]
              \/ work[w] = "finish" /\ work' = [work EXCEPT ![w] = "return"]
  <2>1. Performed(w)' = Performed(w)
    BY <1>3, TaskFacts DEF Performed, AppTypeOK
  <2> QED BY <1>3, <2>1
<1>4. CASE /\ work[w] = "entry" /\ UNCHANGED shm
           /\ work' = [work EXCEPT ![w] = "sleep"]
           /\ item' = [item EXCEPT ![w] = @ + 1]
  <2>1. work'[w] = "sleep" /\ item'[w] = item[w] + 1
    BY <1>4 DEF AppTypeOK
  <2>2. Performed(w)' = Performed(w)
    BY <1>2, <1>4, <2>1 DEF Performed
  <2> QED BY <1>4, <2>2
<1>5. CASE /\ work[w] = "write" /\ UNCHANGED item
           /\ work' = [work EXCEPT ![w] = NextItem(item[w])]
           /\ shm' = Applied(shm, item[w])
  <2>1. item[w] \in 1 .. Len(Tasks)
    BY <1>2, <1>5 DEF WorkPlace
  <2>2. Performed(w) = item[w] - 1
    BY <1>5 DEF Performed
  <2>3. work'[w] \in {"entry", "finish"}
    BY <1>5 DEF AppTypeOK, NextItem
  <2>4. Performed(w)' = item[w]
    BY <1>5, <2>3 DEF Performed
  <2>5. shm' = Applied(Result(base, item[w] - 1), item[w])
    BY <1>5, <2>2
  <2> QED BY <2>1, <2>4, <2>5, ResultStep
<1> QED BY <1>1, <1>3, <1>4, <1>5, PlaceStep

\* So it is in the one round.
LEMMA InstallerContent ==
  ASSUME Phases, AppTypeOK, WorkPlace, OneRound, NEW base \in {Cleared, LeftOver},
         ContentFrom(base), NEW w \in Workers, InstallerStep(w),
         \A v \in Workers : life'[v] = "none" <=> life[v] = "none"
  PROVE  ContentFrom(base)'
<1> USE DEF ContentFrom
<1>1. CASE UNCHANGED <<work, item, shm>>
  BY <1>1 DEF Performed
<1>2. CASE pc[w] = "run"
  <2>1. life[w] # "none" /\ \A v \in Workers : life'[v] # "none" <=> v = w
    BY <1>2 DEF OneRound, Phases, PhaseAt
  <2>3. shm = Result(base, Performed(w))
    BY <2>1
  <2>4. shm' = Result(base, Performed(w)')
    BY <2>3, PerformedStep
  <2> QED BY <2>1, <2>4
<1> QED BY <1>1, <1>2, PlaceStep

\* Every step does.
LEMMA ContentNext ==
  ASSUME TypeInv, Phases, Roles, NoHangup, MainPlace, AppTypeOK, WorkPlace, OneRound,
         NEW base \in {Cleared, LeftOver}, ContentFrom(base), [AppNext]_appVars
  PROVE  ContentFrom(base)'
<1>1. CASE UNCHANGED appVars
  BY <1>1 DEF appVars, others, vars, os, ContentFrom, Performed
<1>2. ASSUME AppNext, \A w \in Workers : life'[w] = "none" <=> life[w] = "none"
      PROVE  ContentFrom(base)'
  <2>1. CASE \E w \in Workers : InstallerStep(w)
    BY <1>2, <2>1, InstallerContent
  <2>2. CASE ~\E w \in Workers : InstallerStep(w)
    <3>1. UNCHANGED <<work, item, shm>>
      BY <1>2, <2>2, OthersKeepPlace, OnlyInstallersWrite
    <3> QED BY <1>2, <3>1 DEF ContentFrom, Performed
  <2> QED BY <2>1, <2>2
<1>3. ASSUME AppNext, NEW c \in Callers, NEW w \in Workers, Create(c, w),
             UNCHANGED <<mainVars, others>>
      PROVE  ContentFrom(base)'
  <2>1. Running /\ UNCHANGED <<work, item, shm>>
    BY <1>3 DEF AppNext, others
  <2>2. \A v \in Workers : life[v] = "none" /\ work[v] = "enter" /\ item[v] = 0
    BY <1>3, <2>1, FirstBirth DEF WorkPlace
  <2>3. shm' = base /\ \A v \in Workers : Performed(v)' = 0
    BY <2>1, <2>2 DEF ContentFrom, Performed
  <2>4. life'[w] # "none"
    BY <1>3, <2>1, FirstBirth
  <2> QED BY <2>3, <2>4, ResultOfNone, FirstContents DEF ContentFrom
<1> QED BY <1>1, <1>2, <1>3, Births

\* While no SIGHUP comes, the segment holds what a number of the first tasks
\* leaves, whatever SIGINT, spurious wakeups and a failed th_execute do.
THEOREM AppInstallsInOrder ==
  ASSUME "SIGHUP" \notin Signals PROVE AppSpec => []InstalledInOrder
<1> DEFINE Content == \E base \in {Cleared, LeftOver} : ContentFrom(base)
           Inv == NoHangup /\ OneRound /\ Content
<1>1. AppInit => Inv
  <2> SUFFICES ASSUME AppInit PROVE Inv
    OBVIOUS
  <2>1. NoHangup /\ OneRound
    BY DEF AppInit, Init, NoHangup, OneRound, Unborn, FirstTime
  <2>2. shm \in {Cleared, LeftOver} /\ ContentFrom(shm)
    BY DEF AppInit, Init, ContentFrom
  <2> QED BY <2>1, <2>2
<1>2. IInv /\ MainPlace /\ AppTypeOK /\ WorkPlace /\ Inv /\ [AppNext]_appVars => Inv'
  <2> SUFFICES ASSUME IInv, MainPlace, AppTypeOK, WorkPlace, Inv, [AppNext]_appVars
               PROVE  Inv'
    OBVIOUS
  <2>1. TypeInv /\ Phases /\ Roles
    BY DEF IInv
  <2>2. NoHangup' /\ OneRound'
    BY <2>1, NoHangupNext, OneRoundNext
  <2>3. PICK base \in {Cleared, LeftOver} : ContentFrom(base)
    OBVIOUS
  <2>4. ContentFrom(base)' /\ base \in {Cleared, LeftOver}'
    BY <2>1, <2>3, ContentNext DEF Cleared, LeftOver
  <2> QED BY <2>2, <2>4
<1>3. AppTypeOK /\ WorkPlace /\ Inv => InstalledInOrder
  <2> SUFFICES ASSUME AppTypeOK, WorkPlace, NEW base \in {Cleared, LeftOver}, ContentFrom(base)
               PROVE  \E k \in 0 .. Len(Tasks) : shm = Result(base, k)
    BY DEF InstalledInOrder
  <2>1. CASE \A w \in Workers : life[w] = "none"
    BY <2>1, ResultOfNone, FirstContents, TaskFacts DEF ContentFrom
  <2>2. ASSUME NEW w \in Workers, life[w] # "none"
        PROVE  \E k \in 0 .. Len(Tasks) : shm = Result(base, k)
    <3>1. Performed(w) \in 0 .. Len(Tasks)
      BY TaskFacts DEF Performed, AppTypeOK, WorkPlace
    <3> QED BY <2>2, <3>1 DEF ContentFrom
  <2> QED BY <2>1, <2>2
<1> HIDE DEF Inv
<1> QED BY <1>1, <1>2, <1>3, RoundsAlways, AppTypesAlways, PTL DEF AppSpec

(***************************************************************************)
(* With any number of SIGHUPs: what the worker of a round has installed    *)
(* counts from what the segment held when it was created, and a round that *)
(* nothing disturbed ends when all of the tasks are installed.             *)
(***************************************************************************)

\* main() saw no reason, in this round, why less than all tasks may be installed.
Undisturbed == ~overtaken /\ spurious = 0 /\ ~ReinstallTasks

\* main() has left the wait and does not go back to it.
AfterWait == {"woken", "killing", "joining", "uninstall"} \cup Teardown

\* What the manager thread has begun main() can see.
MgrIsSeen ==
  /\ mgrAt \in {"clear", "signal"} => ReinstallTasks \/ overtaken
  /\ mgrAt = "killing" => overtaken

\* A worker that has no task left is at the end of the list.
AtEnd == \A w \in Workers : work[w] \in {"finish", "return"} => item[w] = Len(Tasks)

RoundContent ==
  Undisturbed =>
    /\ \A w \in Workers :
         Installing(w) => \E base \in Contents : shm = Result(base, Performed(w))
    /\ at \in AfterWait => /\ shm = Result(Cleared, Len(Tasks))
                           /\ \A w \in Workers : Installing(w) => work[w] = "return"

LEMMA AtEndNext ==
  ASSUME AppTypeOK, WorkPlace, AtEnd, [AppNext]_appVars
  PROVE  AtEnd'
<1>1. CASE UNCHANGED <<work, item>>
  BY <1>1 DEF AtEnd
<1>2. ASSUME NEW w \in Workers, InstallerStep(w) PROVE AtEnd'
  <2>1. /\ item[w] \in 0 .. Len(Tasks) /\ Len(Tasks) \in Nat
        /\ work \in [Workers -> {"enter", "entry", "sleep", "write", "finish", "return"}]
        /\ work[w] = "enter" => item[w] = 0
    BY TaskFacts DEF AppTypeOK, WorkPlace
  <2>2. CASE /\ UNCHANGED item
             /\ \/ work[w] = "enter" /\ work' = [work EXCEPT ![w] = NextItem(0)]
                \/ work[w] = "write" /\ work' = [work EXCEPT ![w] = NextItem(item[w])]
    <3>1. work' = [work EXCEPT ![w] = NextItem(item[w])]
      BY <2>1, <2>2
    <3>2. NextItem(item[w]) = "finish" => item[w] = Len(Tasks)
      BY <2>1 DEF NextItem
    <3>3. NextItem(item[w]) # "return"
      BY DEF NextItem
    <3> QED BY <2>1, <2>2, <3>1, <3>2, <3>3 DEF AtEnd
  <2>3. CASE /\ UNCHANGED item
             /\ \/ work[w] = "sleep" /\ work' = [work EXCEPT ![w] = "write"]
                \/ work[w] = "finish" /\ work' = [work EXCEPT ![w] = "return"]
    BY <2>1, <2>3 DEF AtEnd
  <2>4. CASE /\ work[w] = "entry" /\ work' = [work EXCEPT ![w] = "sleep"]
             /\ item' = [item EXCEPT ![w] = @ + 1]
    <3>1. \A v \in Workers : v # w => work'[v] = work[v] /\ item'[v] = item[v]
      BY <2>4 DEF AppTypeOK
    <3>2. work'[w] = "sleep"
      BY <2>1, <2>4
    <3> QED BY <3>1, <3>2 DEF AtEnd
  <2> QED BY <1>1, <1>2, <2>2, <2>3, <2>4, PlaceStep
<1> QED BY <1>1, <1>2, OthersKeepPlace DEF appVars, others

\* The worker's step wakes main() up, if main() waits and the worker has completed.
LEMMA InstallerWakes ==
  ASSUME NEW w \in Workers, InstallerStep(w)
  PROVE  /\ UNCHANGED <<mgrAt, ReinstallTasks, spurious, overtaken>>
         /\ \/ at' = at
            \/ /\ at = "waiting" /\ at' = "woken"
               /\ pc[w] = "run" /\ work[w] = "finish" /\ UNCHANGED <<shm, item>>
               /\ work' = [work EXCEPT ![w] = "return"]
BY DEF InstallerStep, AskName, Sleep, Install, Complete, Finish, Cancelled, InLibrary,
   SignalCompletion, WorkerAt, mainVars, others

\* clear_and_restart sets the flag before it clears, and main() resets it only
\* when that is not under way.
LEMMA MgrIsSeenNext == MgrIsSeen /\ [AppNext]_appVars => MgrIsSeen'
<1> SUFFICES ASSUME MgrIsSeen, [AppNext]_appVars PROVE MgrIsSeen'
  OBVIOUS
<1> USE DEF MgrIsSeen
<1>1. CASE UNCHANGED <<mgrAt, ReinstallTasks, overtaken>>
  BY <1>1
<1>2. CASE Loop
  BY <1>2 DEF Loop, Goes, others
<1>3. CASE MainStep /\ ~Loop
  BY <1>1, <1>3 DEF MainStep, InstallHandlers, Connect, ThreadInit, Execute, Executed, CondWait,
     KillAll, WaitAll, Again, Uninstall, CondDestroy, DestroyShm, Exit, InLibrary, Moves, Goes,
     others, mainVars
<1>4. CASE MgrStep
  BY <1>1, <1>4 DEF MgrStep, Read, Invoke, MgrKillAll, Reinstall, Clear, MgrSignal,
     SignalCompletion, InLibrary, MgrGoes, others, mainVars
<1>5. ASSUME NEW w \in Workers, InstallerStep(w) PROVE MgrIsSeen'
  BY <1>1, <1>5, InstallerWakes
<1>6. CASE SpuriousWakeup \/ \E s \in Signals : Send(s) \/ Deliver(s) \/ DeliverEarly(s)
  BY <1>1, <1>6 DEF SpuriousWakeup, Goes, Send, Deliver, DeliverEarly, others, mainVars
<1>7. CASE \E t \in Pthreads : InLibrary(Undefined(t)) \/ Crash(t)
  BY <1>1, <1>7 DEF InLibrary, Crash, others, mainVars
<1> QED BY <1>1, <1>2, <1>3, <1>4, <1>5, <1>6, <1>7 DEF AppNext, appVars, mainVars, others

\* A worker installs from th_execute on until it is done, and not again.
LEMMA InstallingStays ==
  ASSUME IInv, AppNext, \A w \in Workers : life'[w] = "none" <=> life[w] = "none"
  PROVE  \A w \in Workers : Installing(w)' => Installing(w)
<1>1. CASE UNCHANGED <<store, life>>
  BY <1>1 DEF Installing, Done, store
<1>2. CASE TableStep
  <2>1. born' = born
    BY DEF born
  <2>2. done \subseteq done'
    BY <1>2, <2>1 DEF TableStep, Table!Next, Table!Execute, Table!Finish, Table!Reap, born, done
  <2> QED BY <2>2 DEF done, Installing
<1>3. Next \/ UNCHANGED vars
  BY StepOfThreadMgr
<1> QED BY <1>1, <1>2, <1>3, MainCreatesAndReaps, StepIsGood DEF GoodStep, vars, os

\* The worker that th_execute creates is the only one that installs.
LEMMA RoundBegins ==
  ASSUME IInv, MainPlace, Rounds, Unborn, Running, NEW c \in Callers, NEW w \in Workers,
         Create(c, w), UNCHANGED <<mainVars, others>>
  PROVE  /\ at' = "executing" /\ work[w] = "enter"
         /\ \A v \in Workers : Installing(v)' => v = w
<1>1. c = main /\ pc[main] # "idle" /\ at = "executing"
  BY MainCreatesAndReaps, InstallDataAssumption
     DEF IInv, Create, Roles, RoleAt, AppCalls, MainPlace, Running
<1>2. \A v \in Workers : ~Installing(v)
  BY <1>1, InstallerIsManaged DEF Rounds, RoundIsOver
<1>3. ASSUME NEW v \in Workers, v # w PROVE life'[v] = life[v] /\ state'[v] = state[v]
  BY <1>3 DEF Create, IInv, TypeInv, TypeOK
<1>4. life[w] = "none"
  BY DEF Create
<1> QED BY <1>1, <1>2, <1>3, <1>4 DEF Installing, Done, Unborn, mainVars

\* The worker's own step: it installs the next task, or completes and wakes main().
LEMMA RoundContentInstaller ==
  ASSUME IInv, Rounds, AppTypeOK, WorkPlace, AtEnd, RoundContent, AppNext,
         NEW w \in Workers, InstallerStep(w), \A v \in Workers : Installing(v)' => Installing(v)
  PROVE  RoundContent'
<1> SUFFICES ASSUME Undisturbed'
             PROVE  /\ \A v \in Workers : Installing(v)' =>
                         (\E base \in Contents : shm = Result(base, Performed(v)))'
                    /\ at' \in AfterWait => /\ shm' = Result(Cleared, Len(Tasks))
                                            /\ \A v \in Workers :
                                                 Installing(v)' => work'[v] = "return"
  BY DEF RoundContent, Cleared, Result, Undisturbed, AfterWait, Teardown
<1>1. Undisturbed
  BY InstallerWakes DEF Undisturbed
<1>2. CASE UNCHANGED <<work, item, shm>>
  <2>1. work \in [Workers -> {"enter", "entry", "sleep", "write", "finish", "return"}]
    BY DEF AppTypeOK
  <2>2. at' = at
    BY <1>2, <2>1, InstallerWakes
  <2> QED BY <1>1, <1>2, <2>2 DEF RoundContent, Performed
<1>3. CASE ~UNCHANGED <<work, item, shm>>
  <2>1. Installing(w) /\ work[w] # "return"
    BY <1>3, PlaceStep DEF IInv, Phases, PhaseAt, Towards, Showing, Installing, Done
  <2>2. \A v \in Workers : Installing(v)' => v = w
    BY <2>1, InstallerIsManaged DEF Rounds
  <2>3. PICK base \in Contents : shm = Result(base, Performed(w))
    BY <1>1, <2>1 DEF RoundContent
  <2>4. shm' = Result(base, Performed(w)')
    BY <2>3, PerformedStep
  <2>5. at \notin AfterWait
    BY <1>1, <2>1 DEF RoundContent
  <2>6. ASSUME at' \in AfterWait
        PROVE  shm' = Result(Cleared, Len(Tasks)) /\ work'[w] = "return"
    <3>1. /\ work[w] = "finish" /\ shm' = shm
          /\ work' = [work EXCEPT ![w] = "return"]
      BY <2>5, <2>6, InstallerWakes
    <3>2. Performed(w) = Len(Tasks)
      BY <3>1 DEF Performed, AtEnd
    <3> QED BY <2>3, <3>1, <3>2, ResultOfAll DEF AppTypeOK
  <2> QED BY <2>2, <2>4, <2>6 DEF Contents
<1> QED BY <1>2, <1>3

\* A step that leaves the segment and the workers' places alone, after which main()
\* still sees nothing, and is past the wait only if it was.
LEMMA RoundContentQuiet ==
  ASSUME RoundContent, UNCHANGED <<work, item, shm>>, Undisturbed' => Undisturbed,
         at' \in AfterWait => at \in AfterWait, \A w \in Workers : Installing(w)' => Installing(w)
  PROVE  RoundContent'
<1>1. \A w \in Workers : Performed(w)' = Performed(w)
  BY DEF Performed
<1>2. /\ \A base, k : Result(base, k)' = Result(base, k)
      /\ Contents' = Contents /\ Cleared' = Cleared
  BY DEF Result, Contents, Cleared
<1>3. (at \in AfterWait)' => at \in AfterWait
  BY DEF AfterWait, Teardown
<1>4. SUFFICES ASSUME Undisturbed'
               PROVE  /\ \A w \in Workers : Installing(w)' =>
                            \E base \in Contents : shm' = Result(base, Performed(w)')
                      /\ at' \in AfterWait => /\ shm' = Result(Cleared, Len(Tasks))
                                              /\ \A w \in Workers :
                                                   Installing(w)' => work'[w] = "return"
  BY <1>2 DEF RoundContent, AfterWait, Teardown
<1> QED BY <1>1, <1>4 DEF RoundContent

LEMMA RoundContentNext ==
  ASSUME IInv, MainPlace, Rounds, AppTypeOK, WorkPlace, Unborn, AtEnd, MgrIsSeen, RoundContent,
         AppNext
  PROVE  RoundContent'
<1> USE DEF Undisturbed
<1>1. ASSUME NEW c \in Callers, NEW w \in Workers, Create(c, w), UNCHANGED <<mainVars, others>>
      PROVE  RoundContent'
  <2>1. Running /\ UNCHANGED <<work, item, shm>>
    BY <1>1 DEF AppNext, others
  <2>2. /\ at' \notin AfterWait /\ work[w] = "enter"
        /\ \A v \in Workers : Installing(v)' => v = w
    BY <1>1, <2>1, RoundBegins DEF AfterWait, Teardown
  <2>3. Performed(w)' = 0 /\ shm' = Result(shm, 0) /\ shm \in Contents
    BY <2>1, <2>2, ResultOfNone DEF Performed, WorkPlace, AppTypeOK, Contents
  <2>4. (\E base \in Contents : shm = Result(base, Performed(w)))'
    BY <2>3 DEF Contents
  <2> QED BY <2>2, <2>4 DEF RoundContent
<1>2. ASSUME \A w \in Workers : life'[w] = "none" <=> life[w] = "none" PROVE RoundContent'
  <2>1. \A w \in Workers : Installing(w)' => Installing(w)
    BY <1>2, InstallingStays
  <2>2. ASSUME NEW w \in Workers, InstallerStep(w) PROVE RoundContent'
    BY <2>1, <2>2, RoundContentInstaller
  <2>3. CASE Loop
    <3>1. \A w \in Workers : ~Installing(w)
      BY <2>3, InstallerIsManaged DEF Loop, Goes, Rounds, RoundIsOver
    <3>2. at' \notin AfterWait
      BY <2>3 DEF Loop, Goes, AfterWait, Teardown
    <3> QED BY <2>1, <3>1, <3>2 DEF RoundContent
  <2>4. CASE MainStep /\ ~Loop
    <3>1. UNCHANGED <<work, item, shm>>
      BY <2>4 DEF MainStep, InstallHandlers, Connect, ThreadInit, Execute, Executed,
         CondWait, KillAll, WaitAll, Again, Uninstall, CondDestroy, DestroyShm, Exit, InLibrary,
         Moves, Goes, others
    <3>2. /\ UNCHANGED <<spurious, ReinstallTasks, overtaken>>
          /\ at' \in AfterWait => at \in AfterWait
      BY <2>4 DEF MainStep, InstallHandlers, Connect, ThreadInit, Execute, Executed,
         CondWait, KillAll, WaitAll, Again, Uninstall, CondDestroy, DestroyShm, Exit, InLibrary,
         Moves, Goes, mainVars, AfterWait, Teardown
    <3> QED BY <2>1, <3>1, <3>2, RoundContentQuiet
  <2>5. CASE MgrStep
    <3>1. ~Undisturbed' \/ (UNCHANGED <<work, item, shm, spurious, ReinstallTasks, overtaken, at>>)
      BY <2>5 DEF MgrIsSeen, MgrStep, Read, Invoke, MgrKillAll, Reinstall, Clear, MgrSignal,
         SignalCompletion, InLibrary, MgrGoes, mainVars, others
    <3>2. CASE ~Undisturbed'
      BY <3>2 DEF RoundContent
    <3> QED BY <2>1, <3>1, <3>2, RoundContentQuiet
  <2>6. CASE SpuriousWakeup
    <3>1. ~Undisturbed'
      BY <2>6 DEF SpuriousWakeup, AppTypeOK
    <3> QED BY <3>1 DEF RoundContent
  <2>7. CASE \/ \E s \in Signals : Send(s) \/ Deliver(s) \/ DeliverEarly(s)
             \/ \E t \in Pthreads : InLibrary(Undefined(t)) \/ Crash(t)
    <3>1. UNCHANGED <<work, item, shm, spurious, ReinstallTasks, overtaken>> /\ at' \in {at, "failed"}
      BY <2>7 DEF Send, Deliver, DeliverEarly, InLibrary, Crash, mainVars, others
    <3>2. at' \in AfterWait => at \in AfterWait
      BY <3>1 DEF AfterWait, Teardown
    <3> QED BY <2>1, <3>1, <3>2, RoundContentQuiet
  <2> QED BY <2>2, <2>3, <2>4, <2>5, <2>6, <2>7 DEF AppNext
<1>3. TypeInv /\ Phases
  BY DEF IInv
<1> QED BY <1>1, <1>2, <1>3, Births

\* main() tears down when every task is installed, after any number of restarts,
\* unless graceful_exit, a spurious wakeup or a late clear_and_restart came first.
THEOREM AppCompletes == AppSpec => []CompleteUnlessOvertaken
<1> DEFINE Inv == Unborn /\ AtEnd /\ MgrIsSeen /\ RoundContent
<1>1. AppInit => Inv
  <2> SUFFICES ASSUME AppInit PROVE Inv
    OBVIOUS
  <2>1. Unborn /\ AtEnd /\ MgrIsSeen
    BY DEF AppInit, Init, Unborn, AtEnd, MgrIsSeen
  <2>2. at \notin AfterWait /\ \A w \in Workers : ~Installing(w)
    BY DEF AppInit, Init, Installing, AfterWait, Teardown
  <2> QED BY <2>1, <2>2 DEF RoundContent
<1>2. IInv /\ MainPlace /\ Rounds /\ AppTypeOK /\ WorkPlace /\ Inv /\ [AppNext]_appVars => Inv'
  <2> SUFFICES ASSUME IInv, MainPlace, Rounds, AppTypeOK, WorkPlace, Inv, [AppNext]_appVars
               PROVE  Inv'
    OBVIOUS
  <2>1. AtEnd' /\ MgrIsSeen'
    BY AtEndNext, MgrIsSeenNext
  <2>2. CASE UNCHANGED appVars
    <3>1. /\ UNCHANGED <<work, item, shm, life, state>>
          /\ UNCHANGED <<at, spurious, ReinstallTasks, overtaken>>
      BY <2>2 DEF appVars, mainVars, others, vars, os, store
    <3>2. Unborn' /\ \A w \in Workers : Installing(w)' => Installing(w)
      BY <3>1 DEF Unborn, Installing, Done
    <3> QED BY <2>1, <3>1, <3>2, RoundContentQuiet DEF Undisturbed
  <2>3. CASE AppNext
    <3>1. RoundContent'
      BY <2>3, RoundContentNext
    <3>2. TypeInv /\ Phases /\ Roles
      BY DEF IInv
    <3>3. ASSUME NEW c \in Callers, NEW w \in Workers, Create(c, w), UNCHANGED <<mainVars, others>>
          PROVE  Unborn'
      <4>1. work' = work /\ \A v \in Workers : life'[v] = "none" => life[v] = "none"
        BY <3>2, <3>3 DEF Create, others, TypeInv, TypeOK
      <4> QED BY <4>1 DEF Unborn
    <3>4. Unborn'
      BY <2>3, <3>2, <3>3, UnbornNext, Births
    <3> QED BY <2>1, <3>1, <3>4
  <2> QED BY <2>2, <2>3
<1>3. Inv => CompleteUnlessOvertaken
  BY DEF RoundContent, CompleteUnlessOvertaken, Undisturbed, AfterWait
<1> HIDE DEF Inv
<1> QED BY <1>1, <1>2, <1>3, RoundsAlways, AppTypesAlways, PTL DEF AppSpec

(***************************************************************************)
(* Who may use memory that main() has released.                            *)
(***************************************************************************)

\* ShmAddr is attached from connect_shm to destroy_shm.
AttachedBetween ==
  at \notin {"install", "connect", "failed", "destroyed", "exited"} => attached

LEMMA AttachedNext == AttachedBetween /\ [AppNext]_appVars => AttachedBetween'
<1> SUFFICES ASSUME AttachedBetween, [AppNext]_appVars PROVE AttachedBetween'
  OBVIOUS
<1> USE DEF AttachedBetween
<1>1. CASE UNCHANGED <<at, attached>>
  BY <1>1
<1>2. CASE MainStep
  <2>1. CASE InstallHandlers \/ Connect \/ Loop \/ Uninstall \/ DestroyShm
    BY <2>1 DEF InstallHandlers, Connect, Loop, Uninstall, DestroyShm, Goes
  <2>2. CASE Execute \/ Executed \/ CondWait \/ KillAll \/ WaitAll \/ Again \/ CondDestroy \/ Exit
    BY <2>2 DEF Execute, Executed, CondWait, KillAll, WaitAll, Again, CondDestroy, Exit, Moves, Goes
  <2> QED BY <1>1, <1>2, <2>1, <2>2 DEF MainStep, ThreadInit, InLibrary, mainVars
<1>3. CASE MgrStep
  BY <1>1, <1>3 DEF MgrStep, Read, Invoke, MgrKillAll, Reinstall, Clear, MgrSignal,
     SignalCompletion, InLibrary, MgrGoes, mainVars
<1>4. ASSUME NEW w \in Workers, InstallerStep(w) PROVE AttachedBetween'
  BY <1>1, <1>4 DEF InstallerStep, AskName, Sleep, Install, Complete, Finish, Cancelled,
     SignalCompletion, InLibrary, mainVars
<1>5. CASE SpuriousWakeup \/ \E s \in Signals : Send(s) \/ Deliver(s) \/ DeliverEarly(s)
  BY <1>1, <1>5 DEF SpuriousWakeup, Goes, Send, Deliver, DeliverEarly, mainVars
<1>6. CASE \E t \in Pthreads : InLibrary(Undefined(t)) \/ Crash(t)
  BY <1>1, <1>6 DEF InLibrary, Crash, mainVars
<1> QED BY <1>1, <1>2, <1>3, <1>4, <1>5, <1>6 DEF AppNext, appVars, mainVars

\* A node of SignalHandlers is freed in teardown only, and the manager thread has
\* looked one up that was there.
HandlersStay ==
  /\ \A s \in Caught : handler[s] = "freed" => at \in Teardown \cup {"failed"}
  /\ mgrAt = "invoke" => handler[signum] # "none"
  /\ at \in {"install", "connect"} => mgrAt = "none"

LEMMA HandlersNext ==
  ASSUME AppTypeOK, HandlersStay, [AppNext]_appVars
  PROVE  HandlersStay'
<1>1. signum \in Caught /\ handler \in [Caught -> {"none", "live", "freed"}]
  BY DEF AppTypeOK
<1> USE DEF HandlersStay
<1>2. CASE UNCHANGED <<at, handler, mgrAt, signum>>
  BY <1>2
<1>3. CASE InstallHandlers \/ Connect \/ Loop \/ ThreadInit
  BY <1>1, <1>3
     DEF InstallHandlers, Connect, Loop, ThreadInit, Goes, others, mainVars, Teardown, PipeExists
<1>4. CASE Uninstall
  BY <1>1, <1>4 DEF Uninstall, Goes, others, Teardown
<1>5. CASE Execute \/ Executed \/ CondWait \/ KillAll \/ WaitAll \/ Again
  BY <1>5 DEF Execute, Executed, CondWait, KillAll, WaitAll, Again, Moves, Goes, others, Teardown
<1>6. CASE CondDestroy \/ DestroyShm \/ Exit
  BY <1>6 DEF CondDestroy, DestroyShm, Exit, Moves, Goes, others, Teardown
<1>7. CASE Read \/ Invoke \/ MgrKillAll \/ Reinstall \/ Clear
  BY <1>7 DEF Read, Invoke, MgrKillAll, Reinstall, Clear, MgrGoes, mainVars
<1>8. CASE MgrSignal
  BY <1>8 DEF MgrSignal, SignalCompletion, MgrGoes, Teardown
<1>9. ASSUME NEW w \in Workers, InstallerStep(w) PROVE HandlersStay'
  <2>1. UNCHANGED <<handler, mgrAt, signum>> /\ (at' = at \/ (at = "waiting" /\ at' = "woken"))
    <3>1. UNCHANGED <<handler, mgrAt, signum>>
      BY <1>9 DEF InstallerStep, AskName, Sleep, Install, Complete, Finish, Cancelled,
         SignalCompletion, InLibrary, mainVars, others
    <3> QED BY <1>9, <3>1, InstallerWakes
  <2>2. CASE at = "waiting" /\ at' = "woken"
    BY <2>1, <2>2 DEF Teardown
  <2> QED BY <1>2, <2>1, <2>2
<1>10. CASE SpuriousWakeup \/ \E s \in Signals : Send(s) \/ Deliver(s) \/ DeliverEarly(s)
  BY <1>2, <1>10 DEF SpuriousWakeup, Goes, Send, Deliver, DeliverEarly, mainVars, others, Teardown
<1>11. CASE \/ \E t \in Pthreads : InLibrary(Undefined(t)) \/ Crash(t)
            \/ InLibrary(CallerStep(main) \/ Shown(main)) \/ InLibrary(CallerStep(mgr) \/ Shown(mgr))
  BY <1>2, <1>11 DEF InLibrary, Crash, mainVars, others
<1> QED BY <1>2, <1>3, <1>4, <1>5, <1>6, <1>7, <1>8, <1>9, <1>10, <1>11
        DEF AppNext, MainStep, MgrStep, appVars, mainVars, others

\* Only a handler under way in the manager thread can use memory that main() has
\* released, with any number of signals, workers and restarts.
THEOREM OnlyHandlersCrash == AppSpec => []CrashIsLate
<1> DEFINE Inv == AttachedBetween /\ HandlersStay /\ CrashIsLate
<1> USE DEF CrashIsLate
<1>1. AppInit => Inv
  <2> SUFFICES ASSUME AppInit PROVE Inv
    OBVIOUS
  <2>1. AttachedBetween /\ CrashIsLate
    BY DEF AppInit, AttachedBetween
  <2>2. HandlersStay
    BY DEF AppInit, HandlersStay
  <2> QED BY <2>1, <2>2
<1>2. ASSUME IInv, Rounds, AttachedBetween, NEW w \in Workers, WorkerCrashes(w), Running
      PROVE  FALSE
  <2>1. Installing(w)
    BY <1>2 DEF WorkerCrashes, WorkerAt, IInv, Phases, PhaseAt, Towards, Showing, Installing, Done
  <2>2. ~RoundIsOver
    BY <1>2, <2>1, InstallerIsManaged DEF Rounds
  <2> QED BY <1>2, <2>2 DEF RoundIsOver, WorkerCrashes, AttachedBetween, Teardown, Running
<1>3. ASSUME AppTypeOK, AttachedBetween, HandlersStay, MgrCrashes, Running PROVE at \in Teardown
  <2>1. CASE mgrAt = "invoke" /\ handler[signum] # "live"
    BY <1>3, <2>1 DEF AppTypeOK, HandlersStay, Running
  <2>2. CASE mgrAt = "clear" /\ ~attached
    BY <1>3, <2>2 DEF AttachedBetween, HandlersStay, Running, Teardown
  <2> QED BY <1>3, <2>1, <2>2 DEF MgrCrashes
<1>4. IInv /\ Rounds /\ AppTypeOK /\ Inv /\ [AppNext]_appVars => Inv'
  <2> SUFFICES ASSUME IInv, Rounds, AppTypeOK, Inv, [AppNext]_appVars PROVE Inv'
    OBVIOUS
  <2>1. AttachedBetween' /\ HandlersStay'
    BY AttachedNext, HandlersNext
  <2>2. ASSUME AppNext, NEW t \in Pthreads, Crash(t) PROVE CrashIsLate'
    <3>1. t \notin Workers
      BY <1>2, <2>2 DEF Crash, AppNext
    <3>2. crash' = mgr /\ MgrCrashes /\ at' = at /\ Running
      BY <2>2, <3>1 DEF Crash, AppNext, mainVars
    <3> QED BY <1>3, <3>2 DEF Teardown
  <2>3. ASSUME AppNext, ~\E t \in Pthreads : Crash(t) PROVE CrashIsLate'
    <3>1. crash = NULL
      BY <2>3 DEF AppNext, Running
    <3>2. crash' = crash
      <4>1. CASE MainStep
        BY <4>1 DEF MainStep, InstallHandlers, Connect, Loop, ThreadInit, Execute, Executed,
           CondWait, KillAll, WaitAll, Again, Uninstall, CondDestroy, DestroyShm, Exit, InLibrary,
           Moves, Goes, others
      <4>2. CASE MgrStep
        BY <4>2 DEF MgrStep, Read, Invoke, MgrKillAll, Reinstall, Clear, MgrSignal, InLibrary, others
      <4>3. CASE \E w \in Workers : InstallerStep(w)
        BY <4>3 DEF InstallerStep, AskName, Sleep, Install, Complete, Finish, Cancelled, InLibrary,
           others
      <4>4. CASE SpuriousWakeup \/ \E s \in Signals : Send(s) \/ Deliver(s) \/ DeliverEarly(s)
        BY <4>4 DEF SpuriousWakeup, Goes, Send, Deliver, DeliverEarly, others
      <4>5. CASE \E t \in Pthreads : InLibrary(Undefined(t))
        BY <4>5 DEF InLibrary, others
      <4> QED BY <2>3, <4>1, <4>2, <4>3, <4>4, <4>5 DEF AppNext
    <3> QED BY <3>1, <3>2
  <2>4. CASE UNCHANGED appVars
    <3>1. UNCHANGED <<crash, at>>
      BY <2>4 DEF appVars, mainVars, others
    <3>2. CrashIsLate'
      BY <3>1 DEF Teardown
    <3> QED BY <2>1, <3>2
  <2> QED BY <2>1, <2>2, <2>3, <2>4
<1>5. Inv => CrashIsLate
  OBVIOUS
<1> HIDE DEF Inv, CrashIsLate
<1> QED BY <1>1, <1>4, <1>5, RoundsAlways, AppTypesAlways, PTL DEF AppSpec
=============================================================================
