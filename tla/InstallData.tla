---------------------------- MODULE InstallData ----------------------------
(***************************************************************************)
(* The program install_data (src/src/bin/install_data/install_data.c) on   *)
(* top of the thread manager, with the signal path of thread_mgr.c: signal *)
(* handler, self-pipe and manager thread.                                  *)
(*                                                                         *)
(* Three threads of control: main() starts a worker, waits on a condition  *)
(* variable, reaps the worker and tears down; the manager thread mgr runs  *)
(* graceful_exit and clear_and_restart; the worker installs the tasks in   *)
(* the shared memory.  The steps inside the thread manager are those of    *)
(* ThreadMgr, which this module extends.  SyncMutex is held only around    *)
(* pthread_cond_wait and pthread_cond_signal, so each of these is a step.  *)
(* SIGQUIT has SIGINT's handler and is not told apart from it.             *)
(***************************************************************************)
EXTENDS ThreadMgr, Sequences

CONSTANTS
  main, mgr,     \* the two callers of the thread manager
  Tasks,         \* the input file: a sequence of [index, install]
  Signals,       \* the signals that other processes send
  MaxSignals,    \* bound on how many they send
  MaxSpurious,   \* bound on spurious wakeups of pthread_cond_wait
  PipeCapacity   \* bytes that the self-pipe holds

AppCalls == [c \in {main, mgr} |->
  IF c = main THEN {"th_execute", "th_kill_all", "th_wait_all"} ELSE {"th_kill_all"}]

ASSUME InstallDataAssumption ==
  /\ main # mgr
  /\ Callers = {main, mgr}
  /\ Calls = AppCalls
  /\ Tasks \in Seq([index : Nat, install : BOOLEAN])
  /\ Signals \subseteq {"SIGINT", "SIGHUP", "SIGTERM"}
  /\ MaxSignals \in Nat /\ MaxSpurious \in Nat /\ PipeCapacity \in Nat \ {0}

VARIABLES
  at,              \* where main() is
  mgrAt,           \* where the manager thread is
  signum,          \* the signal it read from the pipe
  handler,         \* the node of each signal in SignalHandlers: none, live, freed
  pending,         \* signals sent to the process and not delivered
  pipe,            \* bytes in the self-pipe
  work,            \* where each worker is in thread_entry_point
  item,            \* the task it is at
  shm,             \* the points in shared memory: the task that is installed, or 0
  attached,        \* ShmAddr is attached
  ReinstallTasks,  \* the flag clear_and_restart sets
  sent, spurious,  \* how many signals and spurious wakeups so far
  overtaken,       \* graceful_exit ran, or clear_and_restart was under way when
                   \* main() reset the flag (history)
  crash            \* the thread that used detached or freed memory, or NULL

mainVars == <<at, ReinstallTasks, attached, handler, spurious, overtaken>>
others == <<mgrAt, signum, pending, pipe, sent, work, item, shm, crash>>
appVars == <<vars, mainVars, others>>

----------------------------------------------------------------------------
Indices == {Tasks[i].index : i \in DOMAIN Tasks}

Cleared == [i \in Indices |-> 0]

\* Points that an earlier run left in the segment: connect_shm attaches to it
\* as it is, and install_data clears it on SIGHUP only.
LeftOver == [i \in Indices |-> -1]

\* mutant: a negative delay does not invalidate
AppliedAlways(s, k) == [s EXCEPT ![Tasks[k].index] = k]

\* install_point, or invalidate_point (which leaves x and y alone)
Applied(s, k) == [s EXCEPT ![Tasks[k].index] = IF Tasks[k].install THEN k ELSE 0]

Caught == {"SIGINT", "SIGHUP"}

Teardown == {"cond_destroy", "destroy_shm", "destroyed", "exited"}

PipeExists == mgrAt # "none"

\* The process has neither ended nor done anything undefined.
Running == fault = NULL /\ crash = NULL /\ at \notin {"exited", "failed"}

----------------------------------------------------------------------------
(* Signals.  main() blocks them all and then unblocks the caught ones.  The *)
(* manager thread inherits that mask and keeps it: SIGHUP is delivered to   *)
(* it after main() has blocked SIGHUP again.                                *)

Send(s) ==
  /\ sent < MaxSignals
  /\ sent' = sent + 1
  /\ pending' = pending \cup {s}
  /\ UNCHANGED <<vars, mainVars, mgrAt, signum, pipe, work, item, shm, crash>>

Deliverable(s) == s \in pending \cap Caught /\ at # "install"

\* mutant: EAGAIN is taken for an error, which ends the process
DeliverOrExit(s) ==
  /\ Deliverable(s) /\ PipeExists
  /\ pending' = pending \ {s}
  /\ \/ Len(pipe) < PipeCapacity /\ pipe' = Append(pipe, s) /\ at' = at
     \/ Len(pipe) >= PipeCapacity /\ pipe' = pipe /\ at' = "failed"
  /\ UNCHANGED <<vars, ReinstallTasks, attached, handler, spurious, overtaken, mgrAt, signum,
                 sent, work, item, shm, crash>>

\* thread_signal_handler: a byte that does not fit is dropped (EAGAIN).
Deliver(s) ==
  /\ Deliverable(s) /\ PipeExists
  /\ pending' = pending \ {s}
  /\ pipe' = IF Len(pipe) < PipeCapacity THEN Append(pipe, s) ELSE pipe
  /\ UNCHANGED <<vars, mainVars, mgrAt, signum, sent, work, item, shm, crash>>

\* Before selfpipe_init PipeFD is {0, 0}: the byte goes to standard input, or
\* the write fails and the handler ends the process.
DeliverEarly(s) ==
  /\ Deliverable(s) /\ ~PipeExists
  /\ pending' = pending \ {s}
  /\ at' \in {at, "failed"}
  /\ UNCHANGED <<vars, ReinstallTasks, attached, handler, spurious, overtaken, mgrAt, signum,
                 pipe, sent, work, item, shm, crash>>

----------------------------------------------------------------------------
(* main()                                                                   *)

Goes(from, to) == at = from /\ at' = to /\ UNCHANGED others

\* main() changes nothing but its place.
Moves(from, to) ==
  Goes(from, to) /\ UNCHANGED <<ReinstallTasks, attached, handler, spurious, overtaken>>

\* The handlers are installed.  A signal that is pending when it is unblocked,
\* before its sigaction, ends the process.
InstallHandlers ==
  /\ Goes("install", IF pending \cap Caught = {} THEN "connect" ELSE "failed")
  /\ handler' = [s \in Caught |-> "live"]
  /\ UNCHANGED <<vars, ReinstallTasks, attached, spurious, overtaken>>

\* The file is read and the segment attached, or exit(1).
Connect ==
  /\ \/ Goes("connect", "loop") /\ attached' = TRUE
     \/ Goes("connect", "failed") /\ UNCHANGED attached
  /\ UNCHANGED <<vars, ReinstallTasks, handler, spurious, overtaken>>

\* The head of the do loop
Loop ==
  /\ Goes("loop", "execute")
  /\ ReinstallTasks' = FALSE
  /\ overtaken' = (overtaken \/ mgrAt \in {"clear", "signal"})
  /\ UNCHANGED <<vars, attached, handler, spurious>>

\* thread_init, by pthread_once: the pipe and the manager thread
ThreadInit ==
  /\ at = "execute" /\ ~PipeExists
  /\ mgrAt' = "read"
  /\ UNCHANGED <<vars, mainVars, signum, pending, pipe, sent, work, item, shm, crash>>

Execute == PipeExists /\ Moves("execute", "executing") /\ Call(main, "th_execute", 0)

\* th_execute returned
Executed ==
  /\ pc[main] = "idle"
  /\ Moves("executing", IF rc[main] = THD_ERROR THEN "failed" ELSE "wait")
  /\ UNCHANGED vars

\* pthread_cond_wait, without a predicate
CondWait == Moves("wait", "waiting") /\ UNCHANGED vars

SpuriousWakeup ==
  /\ spurious < MaxSpurious
  /\ spurious' = spurious + 1
  /\ Goes("waiting", "woken")
  /\ UNCHANGED <<vars, ReinstallTasks, attached, handler, overtaken>>

KillAll == Moves("woken", "killing") /\ Call(main, "th_kill_all", 0)

\* mutant: main() does not wait for the worker it has killed
SkipWaitAll == pc[main] = "idle" /\ Moves("killing", "joining") /\ UNCHANGED vars

\* th_kill_all returned (Call waits for it)
WaitAll == Moves("killing", "joining") /\ Call(main, "th_wait_all", 0)

\* th_wait_all returned: while(ReinstallTasks)
Again ==
  /\ pc[main] = "idle"
  /\ Moves("joining", IF ReinstallTasks THEN "loop" ELSE "uninstall")
  /\ UNCHANGED vars

\* th_uninstall_signal_handler(SIGHUP): its node is freed
Uninstall ==
  /\ Goes("uninstall", "cond_destroy")
  /\ handler' = [handler EXCEPT !["SIGHUP"] = "freed"]
  /\ UNCHANGED <<vars, ReinstallTasks, attached, spurious, overtaken>>

CondDestroy == Moves("cond_destroy", "destroy_shm") /\ UNCHANGED vars

\* destroy_shm detaches ShmAddr and deletes the segment.
DestroyShm ==
  /\ Goes("destroy_shm", "destroyed")
  /\ attached' = FALSE
  /\ UNCHANGED <<vars, ReinstallTasks, handler, spurious, overtaken>>

\* destroy_list(Tasks) and the return from main()
Exit == Moves("destroyed", "exited") /\ UNCHANGED vars

----------------------------------------------------------------------------
(* pthread_cond_signal: it wakes main() if main() waits, and is lost if not.*)

SignalCompletion ==
  /\ at' = IF at = "waiting" THEN "woken" ELSE at
  /\ UNCHANGED <<ReinstallTasks, attached, handler, spurious, overtaken>>

----------------------------------------------------------------------------
(* The manager thread                                                       *)

MgrGoes(from, to) ==
  /\ mgrAt = from /\ mgrAt' = to
  /\ UNCHANGED <<pending, sent, work, item>>

\* selfpipe_wait and get_hash_item; an unknown signal is logged.
Read ==
  /\ pipe # <<>>
  /\ MgrGoes("read", IF handler[Head(pipe)] = "live" THEN "invoke" ELSE "read")
  /\ signum' = Head(pipe)
  /\ pipe' = Tail(pipe)
  /\ UNCHANGED <<vars, mainVars, shm, crash>>

\* callback->func, through the node that get_hash_item returned
Invoke ==
  /\ handler[signum] = "live"
  /\ MgrGoes("invoke", IF signum = "SIGINT" THEN "kill" ELSE "reinstall")
  /\ UNCHANGED <<vars, mainVars, signum, pipe, shm, crash>>

\* graceful_exit
MgrKillAll ==
  /\ MgrGoes("kill", "killing")
  /\ Call(mgr, "th_kill_all", 0)
  /\ overtaken' = TRUE
  /\ UNCHANGED <<at, ReinstallTasks, attached, handler, spurious, signum, pipe, shm, crash>>

\* mutant: the flag is not set
ReinstallUnset ==
  /\ MgrGoes("reinstall", "clear")
  /\ UNCHANGED <<vars, mainVars, signum, pipe, shm, crash>>

\* clear_and_restart: the flag ...
Reinstall ==
  /\ MgrGoes("reinstall", "clear")
  /\ ReinstallTasks' = TRUE
  /\ UNCHANGED <<vars, at, attached, handler, spurious, overtaken, signum, pipe, shm, crash>>

\* ... and memset(ShmAddr)
Clear ==
  /\ attached
  /\ MgrGoes("clear", "signal")
  /\ shm' = Cleared
  /\ UNCHANGED <<vars, mainVars, signum, pipe, crash>>

\* Both handlers end with pthread_cond_signal.
MgrSignal ==
  /\ at \notin Teardown \ {"cond_destroy"}
  /\ \/ MgrGoes("signal", "read")
     \/ MgrGoes("killing", "read") /\ pc[mgr] = "idle"
  /\ SignalCompletion
  /\ UNCHANGED <<vars, signum, pipe, shm, crash>>

----------------------------------------------------------------------------
(* The worker: thread_entry_point.  log_event and sleep are cancellation    *)
(* points; get_thread_name, the copy of a point and the condition variable  *)
(* are not.                                                                 *)

WorkerAt(w, place) == pc[w] = "run" /\ work[w] = place

\* mutant: the walk goes past the end of the list
NextItemPastEnd(k) == IF k <= Len(Tasks) THEN "entry" ELSE "finish"

NextItem(k) == IF k < Len(Tasks) THEN "entry" ELSE "finish"

\* get_thread_name, by thread_entry_point and by process_entry
AskName(w) ==
  /\ \/ /\ WorkerAt(w, "enter")
        /\ work' = [work EXCEPT ![w] = NextItem(0)]
        /\ UNCHANGED item
     \/ /\ WorkerAt(w, "entry")
        /\ work' = [work EXCEPT ![w] = "sleep"]
        /\ item' = [item EXCEPT ![w] = @ + 1]
  /\ get_thread_name(w)
  /\ UNCHANGED <<mainVars, mgrAt, signum, pending, pipe, sent, shm, crash>>

\* The delay of the task, up to the log line of install_point
Sleep(w) ==
  /\ WorkerAt(w, "sleep") /\ ~cancel[w]
  /\ work' = [work EXCEPT ![w] = "write"]
  /\ UNCHANGED <<vars, mainVars, mgrAt, signum, pending, pipe, sent, item, shm, crash>>

Install(w) ==
  /\ attached
  /\ WorkerAt(w, "write")
  /\ shm' = Applied(shm, item[w])
  /\ work' = [work EXCEPT ![w] = NextItem(item[w])]
  /\ UNCHANGED <<vars, mainVars, mgrAt, signum, pending, pipe, sent, item, crash>>

\* mutant: main() is not woken up
CompleteSilently(w) ==
  /\ WorkerAt(w, "finish") /\ ~cancel[w]
  /\ work' = [work EXCEPT ![w] = "return"]
  /\ UNCHANGED <<vars, mainVars, mgrAt, signum, pending, pipe, sent, item, shm, crash>>

\* "Thread completed!", and main() is woken up.
Complete(w) ==
  /\ WorkerAt(w, "finish") /\ ~cancel[w]
  /\ work' = [work EXCEPT ![w] = "return"]
  /\ SignalCompletion
  /\ UNCHANGED <<vars, mgrAt, signum, pending, pipe, sent, item, shm, crash>>

Finish(w) ==
  /\ WorkerAt(w, "return")
  /\ FuncReturn(w)
  /\ UNCHANGED <<mainVars, others>>

Cancelled(w) ==
  /\ work[w] \in {"entry", "sleep", "finish"}
  /\ CancelPoint(w)
  /\ UNCHANGED <<mainVars, others>>

----------------------------------------------------------------------------
(* Memory that is gone: ShmAddr after destroy_shm, the node of SIGHUP after *)
(* delete_hash_item, the condition variable after pthread_cond_destroy.     *)

MgrCrashes ==
  \/ mgrAt = "invoke" /\ handler[signum] # "live"
  \/ mgrAt = "clear" /\ ~attached
  \/ /\ at \in Teardown \ {"cond_destroy"}
     /\ mgrAt = "signal" \/ (mgrAt = "killing" /\ pc[mgr] = "idle")

WorkerCrashes(w) ==
  \/ WorkerAt(w, "write") /\ ~attached
  \/ WorkerAt(w, "finish") /\ at \in Teardown \ {"cond_destroy"}

Crash(t) ==
  /\ IF t \in Workers THEN WorkerCrashes(t) ELSE t = mgr /\ MgrCrashes
  /\ crash' = t
  /\ UNCHANGED <<vars, mainVars, mgrAt, signum, pending, pipe, sent, work, item, shm>>

----------------------------------------------------------------------------
AppInit ==
  /\ Init
  /\ at = "install"
  /\ mgrAt = "none"
  /\ signum \in Caught
  /\ handler = [s \in Caught |-> "none"]
  /\ pending = {}
  /\ pipe = <<>>
  /\ work = [w \in Workers |-> "enter"]
  /\ item = [w \in Workers |-> 0]
  /\ shm \in {Cleared, LeftOver}
  /\ attached = FALSE
  /\ ReinstallTasks = FALSE
  /\ sent = 0
  /\ spurious = 0
  /\ overtaken = FALSE
  /\ crash = NULL

\* A step inside the thread manager
InLibrary(A) == A /\ UNCHANGED <<mainVars, others>>

MainStep ==
  \/ InstallHandlers \/ Connect \/ Loop \/ ThreadInit \/ Execute \/ Executed \/ CondWait
  \/ KillAll \/ WaitAll \/ Again \/ Uninstall \/ CondDestroy \/ DestroyShm \/ Exit
  \/ InLibrary(CallerStep(main) \/ Shown(main))

MgrStep ==
  \/ Read \/ Invoke \/ MgrKillAll \/ Reinstall \/ Clear \/ MgrSignal
  \/ InLibrary(CallerStep(mgr) \/ Shown(mgr))

InstallerStep(w) ==
  \/ AskName(w) \/ Sleep(w) \/ Install(w) \/ Complete(w) \/ Finish(w) \/ Cancelled(w)
  \/ InLibrary(WorkerStep(w) \/ Shown(w))

AppNext ==
  /\ Running
  /\ \/ MainStep
     \/ MgrStep
     \/ SpuriousWakeup
     \/ \E w \in Workers : InstallerStep(w)
     \/ \E s \in Signals : Send(s) \/ Deliver(s) \/ DeliverEarly(s)
     \/ \E t \in Pthreads : InLibrary(Undefined(t)) \/ Crash(t)

AppSpec == AppInit /\ [][AppNext]_appVars

\* The scheduler runs each thread, and a cancel acts at a cancellation point.
AppFairness ==
  /\ WF_appVars(Running /\ MainStep)
  /\ WF_appVars(Running /\ MgrStep)
  /\ \A w \in Workers : WF_appVars(Running /\ InstallerStep(w))
  /\ WF_appVars(Running /\ \E t \in Pthreads : InLibrary(Undefined(t)) \/ Crash(t))
  /\ \A s \in Signals : WF_appVars(Running /\ (Deliver(s) \/ DeliverEarly(s)))

AppFairSpec == AppSpec /\ AppFairness

----------------------------------------------------------------------------
(* Properties                                                               *)

\* The values the variables of the program take.
AppTypeOK ==
  /\ at \in {"install", "connect", "loop", "execute", "executing", "wait", "waiting", "woken",
             "killing", "joining", "uninstall", "failed"} \cup Teardown
  /\ mgrAt \in {"none", "read", "invoke", "kill", "killing", "reinstall", "clear", "signal"}
  /\ signum \in Caught
  /\ handler \in [Caught -> {"none", "live", "freed"}]
  /\ pending \subseteq Signals
  /\ pipe \in Seq(Caught)
  /\ work \in [Workers -> {"enter", "entry", "sleep", "write", "finish", "return"}]
  /\ item \in [Workers -> 0 .. Len(Tasks)]
  /\ shm \in [Indices -> {-1, 0} \cup DOMAIN Tasks]
  /\ attached \in BOOLEAN /\ ReinstallTasks \in BOOLEAN
  /\ sent \in 0 .. MaxSignals /\ spurious \in 0 .. MaxSpurious /\ overtaken \in BOOLEAN
  /\ crash \in Pthreads \cup {NULL}

\* Once the manager thread runs, no signal ends the program, however many come
\* while the pipe is full.  It exits with an error only when th_execute cannot
\* create a thread, and never for want of a handle: every restart has left
\* Threads[] empty.
FailsOnlyToStart ==
  [][PipeExists /\ at # "failed" /\ at' = "failed"
       => at = "executing" /\ \A h \in Handles : Threads[h] = NULL]_appVars

\* A worker was created and has neither called th_exit nor been cancelled.
Installing(w) == life[w] # "none" /\ ~Done(w)

\* After a SIGHUP the next worker starts when the one before it is done: two
\* workers never install tasks into the shared memory at the same time.
OneInstaller == \A v, w \in Workers : Installing(v) /\ Installing(w) => v = w

\* main() destroys the condition variable, the segment and the list of tasks
\* when no worker can use them any more, whatever killed the worker and however
\* main() was woken up.
TeardownAfterWork == at \in Teardown => \A w \in Workers : ~Installing(w)

\* What the first k tasks leave of the points in base
Result(base, k) ==
  [i \in Indices |->
    LET done == {j \in 1 .. k : Tasks[j].index = i}
    IN  IF done = {} THEN base[i]
        ELSE LET last == CHOOSE j \in done : \A l \in done : l <= j
             IN  IF Tasks[last].install THEN last ELSE 0]

\* While no SIGHUP comes, the shared memory holds what some number of the first
\* tasks leaves: a worker that is killed stops between two tasks.
InstalledInOrder ==
  \E base \in {Cleared, LeftOver}, k \in 0 .. Len(Tasks) : shm = Result(base, k)

\* main() tears down when every task is installed, after restarts too, unless
\* graceful_exit or a spurious wakeup ended the work, or clear_and_restart came
\* too late for main() to restart, or was under way when main() reset the flag
\* (between the two, what it clears is not installed again).
CompleteUnlessOvertaken ==
  at \in Teardown /\ ~overtaken /\ spurious = 0
    => ReinstallTasks \/ \E base \in {Cleared, LeftOver} : shm = Result(base, Len(Tasks))

\* Memory that main() has released is used by no worker, whatever killed it and
\* however main() was woken up, and never before teardown: what goes wrong
\* (NoUseAfterTeardown) is a handler that was under way in the manager thread.
CrashIsLate == crash # NULL => crash = mgr /\ at \in Teardown

\* A main() that is waiting when the worker has not yet completed is woken up,
\* by the worker or by graceful_exit, unless something undefined happens first.
WaitingMainIsWoken ==
  \A w \in Workers :
    at = "waiting" /\ Installing(w) /\ work[w] # "return" /\ ~cancel[w]
      ~> at # "waiting" \/ ~Running

\* A worker that ended in the log line of th_exit left its ThreadInfo locked.
LogLockLeft == \E w \in Workers : life[w] \in {"dead", "joined"} /\ infoLock[w].owner = w

\* main() and graceful_exit come back from the thread manager, whatever the other
\* and the worker do in it, unless the worker left its lock locked as above.
AppCallsReturn ==
  \A c \in Callers : pc[c] # "idle" ~> pc[c] = "idle" \/ ~Running \/ LogLockLeft

\* A worker that was created gets to thread_entry_point.
WorkerStarts == \A w \in Workers : pc[w] = "start" ~> pc[w] = "run" \/ ~Running

----------------------------------------------------------------------------
(* Comments of install_data.c that the code does not keep; each has a run   *)
(* that ends in a counterexample.                                           *)

\* "wake up main() so that it may exit": once the worker has signalled, main()
\* leaves the wait (it does not when the signal came before the wait).
CompletionIsSeen ==
  \A w \in Workers :
    work[w] = "return" ~> at \notin {"executing", "wait", "waiting"} \/ ~Running

\* "by this point all tasking has been completed, we do not want to honor any
\* more sighup signals": clear_and_restart does not use memory that main() has
\* released (it does when it was already under way).
NoUseAfterTeardown == crash = NULL
=============================================================================
