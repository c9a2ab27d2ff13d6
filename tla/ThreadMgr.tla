----------------------------- MODULE ThreadMgr -----------------------------
(***************************************************************************)
(* The thread manager library, src/src/lib/thread_mgr/thread_mgr.c.        *)
(*                                                                         *)
(* Threads that the library did not create (Callers: main, and the manager *)
(* thread that runs signal handlers) call its operations; the threads it   *)
(* creates (Workers) run func_decorator, the user's function and th_exit.  *)
(* Every worker has one heap-allocated ThreadInfo, so a worker also names  *)
(* its ThreadInfo: a ThreadInfo pointer is a worker or NULL.               *)
(*                                                                         *)
(* A step is what one thread does between two points where another thread  *)
(* can matter: a read of Threads[] without StoreLock, the acquisition of a *)
(* mutex, a write, a join.  th_kill re-reads Threads[th] at each of its    *)
(* statements and each is a step: the lock it holds may be that of a       *)
(* ThreadInfo which is gone.  A critical section is one step guarded by    *)
(* its mutex where its entry cannot change under it: a list or a cleanup   *)
(* holds StoreLock, th_wait's caller is the one that reaps, and th_exit's  *)
(* entry stays until FINISHED is there.  A dereference of a NULL or freed  *)
(* pointer, and a join or cancel of an already joined pthread, is          *)
(* undefined: it sets fault and the process stops there.                   *)
(***************************************************************************)
EXTENDS Integers, FiniteSets

CONSTANTS
  Callers,      \* threads outside the library that call its operations
  Workers,      \* threads pthread_create can still create (a bound of the model)
  Calls,        \* Calls[c]: the operations that caller c makes
  MaxThreads,   \* MAX_THREADS, the size of Threads[]
  MaxFailures,  \* bound on the number of times pthread_create fails
  NULL

Ops == {"th_execute", "th_wait", "th_wait_all", "th_kill", "th_kill_all",
        "show_all_threads", "get_thread_state"}

ASSUME ThreadMgrAssumption ==
  /\ Callers \cap Workers = {}
  /\ NULL \notin Callers \cup Workers
  /\ Calls \in [Callers -> SUBSET Ops]
  /\ MaxThreads \in Nat \ {0}
  /\ MaxFailures \in Nat

THD_OK == 0
THD_ERROR == -1

Handles == 0 .. MaxThreads - 1      \* the indices of Threads[]
ThreadHandles == -1 .. MaxThreads   \* handles a caller may pass, bad ones included
Pthreads == Callers \cup Workers
ThreadState == {"PENDING", "RUNNING", "CANCELLED", "FINISHED"}

VARIABLES
  Threads,    \* the Threads[] array: a ThreadInfo or NULL at each handle
  heap,       \* memory of each ThreadInfo: none, live or freed
  state,      \* the state field of each ThreadInfo
  infoLock,   \* the lock field of each ThreadInfo
  StoreLock,  \* the mutex for Threads[]
  life,       \* each worker's pthread: none, alive, dead (terminated), joined; and,
              \* as a history of th_exit, exiting once it has stored FINISHED
  cancel,     \* a cancel request is pending on the worker
  pc,         \* what each thread executes next
  th,         \* handle it works on: argument, loop index or own handle
  cont,       \* where it goes on after show_thread
  call,       \* a caller's current or last operation
  rc,         \* that operation's return value
  joinee,     \* the pthread th_wait read from the ThreadInfo
  failures,   \* how often pthread_create failed so far
  fault       \* the thread that did something undefined, or NULL

store == <<Threads, heap, state>>
locks == <<infoLock, StoreLock>>
os == <<life, cancel>>
frame == <<th, cont, call, rc, joinee>>
vars == <<store, locks, os, pc, frame, failures, fault>>

----------------------------------------------------------------------------
(* PTHREAD_MUTEX_RECURSIVE: an owner and a depth.  Unlocking a mutex one    *)
(* does not own fails with EPERM, which the library does not look at.       *)

Free == [owner |-> NULL, depth |-> 0]

Available(m, t) == m.owner \in {NULL, t}

Acquired(m, t) == [owner |-> t, depth |-> m.depth + 1]

Released(m, t) ==
  IF m.owner # t THEN m
  ELSE IF m.depth = 1 THEN Free ELSE [m EXCEPT !.depth = @ - 1]

----------------------------------------------------------------------------
(* Pointers.  Every function re-reads Threads[th] at each statement.        *)

th_valid_handle(h) == h \in Handles

Live(p) == p # NULL /\ heap[p] = "live"

Info(t) == Threads[th[t]]   \* the pointer that thread t's next statement reads

\* Points at which a thread dereferences Info(t) without another NULL test.
Dereferencing == {"lock", "kill", "kill_finished", "cancel", "store", "killed", "refused",
                  "state", "show_lock", "show_log", "exit", "name"}

\* The worker has called th_exit, or a cancel ended it.
Done(w) == life[w] \in {"exiting", "dead", "joined"}

Goto(t, next) == pc' = [pc EXCEPT ![t] = next]

ShowThread(t, after) ==
  /\ Goto(t, "show")
  /\ cont' = [cont EXCEPT ![t] = after]

ShowEnds(t) ==
  /\ Goto(t, cont[t])
  /\ cont' = [cont EXCEPT ![t] = "idle"]

----------------------------------------------------------------------------
(* Entering and leaving an operation.                                       *)

AllOps == {"th_wait_all", "th_kill_all"}
HandleOps == {"th_wait", "th_kill", "get_thread_state"}

Entry(op) ==
  CASE op = "th_execute" -> "next_handle"
    [] op = "show_all_threads" -> "list_lock"
    [] OTHER -> "check"

\* The application calls operation op.  The loops of th_wait_all and
\* th_kill_all start at handle 0 with ret = THD_ERROR.
Call(c, op, h) ==
  /\ pc[c] = "idle"
  /\ op \in Calls[c]
  /\ h \in (IF op \in HandleOps THEN ThreadHandles ELSE {0})
  /\ Goto(c, Entry(op))
  /\ th' = [th EXCEPT ![c] = h]
  /\ call' = [call EXCEPT ![c] = op]
  /\ rc' = [rc EXCEPT ![c] = THD_ERROR]
  /\ UNCHANGED <<store, locks, os, cont, joinee, failures, fault>>

\* mutant: the return values are added
SumReturn(ret, r) == ret + r

\* ret &= r on the two values 0 and -1
AndReturn(ret, r) == IF THD_OK \in {ret, r} THEN THD_OK ELSE THD_ERROR

\* mutant: the last handle is left out
MoreButLast(h) == h < MaxThreads - 2

\* The loops over the handles go on after h.
More(h) == h < MaxThreads - 1

\* One th_wait or th_kill returns r: to the application, or to the loop of
\* th_wait_all or th_kill_all, which goes on with the next handle.
Return(c, r) ==
  IF call[c] \in AllOps
  THEN /\ Goto(c, IF More(th[c]) THEN "check" ELSE "idle")
       /\ th' = [th EXCEPT ![c] = IF More(@) THEN @ + 1 ELSE 0]
       /\ rc' = [rc EXCEPT ![c] = AndReturn(@, r)]
  ELSE /\ Goto(c, "idle")
       /\ th' = [th EXCEPT ![c] = 0]
       /\ rc' = [rc EXCEPT ![c] = r]

\* if(th_valid_handle(th) && Threads[th] != NULL), read without a lock
Check(c) ==
  /\ pc[c] = "check"
  /\ \/ /\ th_valid_handle(th[c]) /\ Info(c) # NULL
        /\ Goto(c, "lock")
        /\ UNCHANGED <<th, rc>>
     \/ /\ ~(th_valid_handle(th[c]) /\ Info(c) # NULL)
        /\ Return(c, THD_ERROR)
  /\ UNCHANGED <<store, locks, os, cont, call, joinee, failures, fault>>

----------------------------------------------------------------------------
(* show_thread: the unlocked NULL test, the lock, and the log line under    *)
(* the lock.  log_event writes to a file, which is a cancellation point.    *)

Show(t) ==
  /\ pc[t] = "show"
  /\ \/ Info(t) # NULL /\ Goto(t, "show_lock") /\ UNCHANGED cont
     \/ Info(t) = NULL /\ ShowEnds(t)
  /\ UNCHANGED <<store, locks, os, th, call, rc, joinee, failures, fault>>

LockShown(t) ==
  /\ pc[t] = "show_lock"
  /\ Live(Info(t))
  /\ Available(infoLock[Info(t)], t)
  /\ infoLock' = [infoLock EXCEPT ![Info(t)] = Acquired(@, t)]
  /\ Goto(t, "show_log")
  /\ UNCHANGED <<store, StoreLock, os, frame, failures, fault>>

\* mutant: func_decorator does not disable cancellation
CancellableAlways(w) == cancel[w]

\* A worker is cancellable in the show_thread of th_exit, not in that of
\* func_decorator.
Cancellable(w) == cancel[w] /\ cont[w] = "terminate"

LogShown(t) ==
  /\ pc[t] = "show_log"
  /\ Live(Info(t))
  /\ t \in Workers => ~Cancellable(t)
  /\ infoLock' = [infoLock EXCEPT ![Info(t)] = Released(@, t)]
  /\ ShowEnds(t)
  /\ UNCHANGED <<store, StoreLock, os, th, call, rc, joinee, failures, fault>>

\* The pending cancel acts in log_event: the thread ends with the lock held.
CancelledInLog(w) ==
  /\ pc[w] = "show_log"
  /\ Live(Info(w))
  /\ Cancellable(w)
  /\ life' = [life EXCEPT ![w] = "dead"]
  /\ Goto(w, "dead")
  /\ UNCHANGED <<store, locks, cancel, frame, failures, fault>>

----------------------------------------------------------------------------
(* th_execute                                                               *)

\* mutant: the entry of a finished thread counts as free
FirstFinished(h) ==
  LET taken(k) == Threads[k] # NULL /\ state[Threads[k]] # "FINISHED"
  IN  ~taken(h) /\ \A k \in 0 .. h - 1 : taken(k)

FirstFree(h) == Threads[h] = NULL /\ \A k \in 0 .. h - 1 : Threads[k] # NULL

\* mutant: StoreLock is not given back
NextHandleKeepsLock(c) ==
  /\ pc[c] = "next_handle"
  /\ Available(StoreLock, c)
  /\ StoreLock' = Acquired(StoreLock, c)
  /\ \E h \in Handles : FirstFree(h) /\ th' = [th EXCEPT ![c] = h]
  /\ Goto(c, "create")
  /\ UNCHANGED <<store, infoLock, os, cont, call, rc, joinee, failures, fault>>

\* get_next_handle: the scan under StoreLock, which it then gives back.
get_next_handle(c) ==
  /\ pc[c] = "next_handle"
  /\ Available(StoreLock, c)
  /\ \/ /\ \E h \in Handles : FirstFree(h) /\ th' = [th EXCEPT ![c] = h]
        /\ Goto(c, "create")
        /\ UNCHANGED rc
     \/ /\ \A h \in Handles : Threads[h] # NULL
        /\ Return(c, THD_ERROR)
  /\ UNCHANGED <<store, locks, os, cont, call, joinee, failures, fault>>

\* Under StoreLock: malloc, pthread_create and the store into Threads[].  The
\* new thread cannot do anything the library sees before StoreLock is free.
Create(c, w) ==
  /\ pc[c] = "create"
  /\ Available(StoreLock, c)
  /\ life[w] = "none"
  /\ life' = [life EXCEPT ![w] = "alive"]
  /\ heap' = [heap EXCEPT ![w] = "live"]
  /\ state' = [state EXCEPT ![w] = "PENDING"]
  /\ Threads' = [Threads EXCEPT ![th[c]] = w]
  /\ pc' = [pc EXCEPT ![c] = "idle", ![w] = "start"]
  /\ th' = [th EXCEPT ![w] = th[c], ![c] = 0]
  /\ rc' = [rc EXCEPT ![c] = th[c]]
  /\ UNCHANGED <<locks, cancel, cont, call, joinee, failures, fault>>

\* malloc returns NULL: StoreLock is given back.
NoMemory(c) ==
  /\ pc[c] = "create"
  /\ Available(StoreLock, c)
  /\ Return(c, THD_ERROR)
  /\ UNCHANGED <<store, locks, os, cont, call, joinee, failures, fault>>

\* pthread_create fails: the ThreadInfo is freed, StoreLock is not given back.
NoThread(c) ==
  /\ pc[c] = "create"
  /\ Available(StoreLock, c)
  /\ failures < MaxFailures
  /\ failures' = failures + 1
  /\ StoreLock' = Acquired(StoreLock, c)
  /\ Return(c, THD_ERROR)
  /\ UNCHANGED <<store, infoLock, os, cont, call, joinee, fault>>

----------------------------------------------------------------------------
(* th_wait                                                                  *)

\* mutant: a thread that has not started yet is not joined
JoinsStarted(s) == s \in {"RUNNING", "CANCELLED"}

\* mutant: a cancelled thread is not joined
JoinsRunning(s) == s \in {"PENDING", "RUNNING"}

\* The switch over the state: a finished thread is not joined.
Joins(s) == s # "FINISHED"

\* pthread and state are copied under the ThreadInfo's lock.
ReadForWait(c) ==
  /\ pc[c] = "lock"
  /\ call[c] \in {"th_wait", "th_wait_all"}
  /\ Live(Info(c))
  /\ Available(infoLock[Info(c)], c)
  /\ joinee' = [joinee EXCEPT ![c] = IF Joins(state[Info(c)]) THEN Info(c) ELSE NULL]
  /\ \/ ~Joins(state[Info(c)]) /\ ShowThread(c, "cleanup")
     \/ Joins(state[Info(c)]) /\ state[Info(c)] # "CANCELLED" /\ ShowThread(c, "join")
     \/ Joins(state[Info(c)]) /\ state[Info(c)] = "CANCELLED" /\ Goto(c, "join") /\ UNCHANGED cont
  /\ UNCHANGED <<store, locks, os, th, call, rc, failures, fault>>

\* pthread_join, then show_thread, then th_cleanup
Join(c) ==
  /\ pc[c] = "join"
  /\ life[joinee[c]] = "dead"
  /\ life' = [life EXCEPT ![joinee[c]] = "joined"]
  /\ joinee' = [joinee EXCEPT ![c] = NULL]
  /\ ShowThread(c, "cleanup")
  /\ UNCHANGED <<store, locks, cancel, th, call, rc, failures, fault>>

\* mutant: th_cleanup does not take StoreLock
CleanupUnlocked(c) ==
  /\ pc[c] = "cleanup"
  /\ heap' = IF Info(c) = NULL THEN heap ELSE [heap EXCEPT ![Info(c)] = "freed"]
  /\ Goto(c, "purge")
  /\ UNCHANGED <<Threads, state, locks, os, frame, failures, fault>>

\* th_cleanup takes StoreLock and frees the ThreadInfo ...
CleanupFree(c) ==
  /\ pc[c] = "cleanup"
  /\ Available(StoreLock, c)
  /\ StoreLock' = Acquired(StoreLock, c)
  /\ heap' = IF Info(c) = NULL THEN heap ELSE [heap EXCEPT ![Info(c)] = "freed"]
  /\ Goto(c, "purge")
  /\ UNCHANGED <<Threads, state, infoLock, os, frame, failures, fault>>

\* ... and then clears the entry; th_wait returns THD_OK.
CleanupClear(c) ==
  /\ pc[c] = "purge"
  /\ Threads' = [Threads EXCEPT ![th[c]] = NULL]
  /\ StoreLock' = Released(StoreLock, c)
  /\ Return(c, THD_OK)
  /\ UNCHANGED <<heap, state, infoLock, os, cont, call, joinee, failures, fault>>

----------------------------------------------------------------------------
(* th_kill and get_thread_state                                             *)

LockForKill(c) ==
  /\ pc[c] = "lock"
  /\ call[c] \in {"th_kill", "th_kill_all"}
  /\ Live(Info(c))
  /\ Available(infoLock[Info(c)], c)
  /\ infoLock' = [infoLock EXCEPT ![Info(c)] = Acquired(@, c)]
  /\ Goto(c, "kill")
  /\ UNCHANGED <<store, StoreLock, os, frame, failures, fault>>

\* Threads[th]->state == CANCELLED: "Kill failed (already exited)"
ReadCancelled(c) ==
  /\ pc[c] = "kill"
  /\ Live(Info(c))
  /\ \/ state[Info(c)] = "CANCELLED" /\ ShowThread(c, "refused")
     \/ state[Info(c)] # "CANCELLED" /\ Goto(c, "kill_finished") /\ UNCHANGED cont
  /\ UNCHANGED <<store, locks, os, th, call, rc, joinee, failures, fault>>

\* mutant: a finished thread is killed
KillableFinished(s) == TRUE

Killable(s) == s # "FINISHED"

\* || Threads[th]->state == FINISHED, which reads Threads[th] again
ReadFinished(c) ==
  /\ pc[c] = "kill_finished"
  /\ Live(Info(c))
  /\ \/ ~Killable(state[Info(c)]) /\ ShowThread(c, "refused")
     \/ Killable(state[Info(c)]) /\ Goto(c, "cancel") /\ UNCHANGED cont
  /\ UNCHANGED <<store, locks, os, th, call, rc, joinee, failures, fault>>

\* pthread_cancel(Threads[th]->pthread)
Cancel(c) ==
  /\ pc[c] = "cancel"
  /\ Live(Info(c))
  /\ life[Info(c)] # "joined"
  /\ cancel' = [cancel EXCEPT ![Info(c)] = TRUE]
  /\ Goto(c, "store")
  /\ UNCHANGED <<store, locks, life, frame, failures, fault>>

\* Threads[th]->state = CANCELLED
StoreCancelled(c) ==
  /\ pc[c] = "store"
  /\ Live(Info(c))
  /\ state' = [state EXCEPT ![Info(c)] = "CANCELLED"]
  /\ ShowThread(c, "killed")
  /\ UNCHANGED <<Threads, heap, locks, os, th, call, rc, joinee, failures, fault>>

\* mutant: a refused th_kill keeps the lock
KeepLockOnRefusal(c) ==
  /\ pc[c] \in {"killed", "refused"}
  /\ Live(Info(c))
  /\ infoLock' = [infoLock EXCEPT ![Info(c)] =
                    IF pc[c] = "killed" THEN Released(@, c) ELSE @]
  /\ Return(c, IF pc[c] = "killed" THEN THD_OK ELSE THD_ERROR)
  /\ UNCHANGED <<store, StoreLock, os, cont, call, joinee, failures, fault>>

UnlockKilled(c) ==
  /\ pc[c] \in {"killed", "refused"}
  /\ Live(Info(c))
  /\ infoLock' = [infoLock EXCEPT ![Info(c)] = Released(@, c)]
  /\ Return(c, IF pc[c] = "killed" THEN THD_OK ELSE THD_ERROR)
  /\ UNCHANGED <<store, StoreLock, os, cont, call, joinee, failures, fault>>

get_thread_state(c) ==
  /\ pc[c] = "lock"
  /\ call[c] = "get_thread_state"
  /\ Live(Info(c))
  /\ Available(infoLock[Info(c)], c)
  /\ infoLock' = [infoLock EXCEPT ![Info(c)] = Acquired(@, c)]
  /\ Goto(c, "state")
  /\ UNCHANGED <<store, StoreLock, os, frame, failures, fault>>

ReadState(c) ==
  /\ pc[c] = "state"
  /\ Live(Info(c))
  /\ infoLock' = [infoLock EXCEPT ![Info(c)] = Released(@, c)]
  /\ Return(c, THD_OK)
  /\ UNCHANGED <<store, StoreLock, os, cont, call, joinee, failures, fault>>

----------------------------------------------------------------------------
(* show_all_threads: a loop over the handles under StoreLock                *)

ListLock(c) ==
  /\ pc[c] = "list_lock"
  /\ Available(StoreLock, c)
  /\ StoreLock' = Acquired(StoreLock, c)
  /\ Goto(c, "list")
  /\ UNCHANGED <<store, infoLock, os, frame, failures, fault>>

ListNext(c) ==
  /\ pc[c] = "list"
  /\ Info(c) # NULL => Live(Info(c)) /\ Available(infoLock[Info(c)], c)
  /\ \/ /\ More(th[c])
        /\ th' = [th EXCEPT ![c] = @ + 1]
        /\ UNCHANGED <<StoreLock, rc, pc>>
     \/ /\ ~More(th[c])
        /\ StoreLock' = Released(StoreLock, c)
        /\ Return(c, THD_OK)
  /\ UNCHANGED <<store, infoLock, os, cont, call, joinee, failures, fault>>

----------------------------------------------------------------------------
(* func_decorator                                                           *)

\* Cancellation is disabled and StoreLock taken.
Start(w) ==
  /\ pc[w] = "start"
  /\ Available(StoreLock, w)
  /\ StoreLock' = Acquired(StoreLock, w)
  /\ Goto(w, "setup")
  /\ UNCHANGED <<store, infoLock, os, frame, failures, fault>>

\* thread_info->state = RUNNING, without the ThreadInfo's lock
Setup(w) ==
  /\ pc[w] = "setup"
  /\ Live(w)
  /\ state' = [state EXCEPT ![w] = "RUNNING"]
  /\ ShowThread(w, "started")
  /\ UNCHANGED <<Threads, heap, locks, os, th, call, rc, joinee, failures, fault>>

\* mutant: func_decorator keeps StoreLock
StartedKeepsLock(w) ==
  /\ pc[w] = "started"
  /\ Goto(w, "run")
  /\ UNCHANGED <<store, locks, os, frame, failures, fault>>

\* StoreLock given back and cancellation enabled: func is called.
Started(w) ==
  /\ pc[w] = "started"
  /\ StoreLock' = Released(StoreLock, w)
  /\ Goto(w, "run")
  /\ UNCHANGED <<store, infoLock, os, frame, failures, fault>>

----------------------------------------------------------------------------
(* The user's function: it may ask for its name, reach a cancellation       *)
(* point, and return (or call th_exit, which is the same).                  *)

get_thread_name(w) ==
  /\ pc[w] = "run"
  /\ Info(w) # NULL
  /\ Goto(w, "name")
  /\ UNCHANGED <<store, locks, os, frame, failures, fault>>

ReadName(w) ==
  /\ pc[w] = "name"
  /\ Available(StoreLock, w)
  /\ Live(Info(w))
  /\ Goto(w, "run")
  /\ UNCHANGED <<store, locks, os, frame, failures, fault>>

CancelPoint(w) ==
  /\ pc[w] = "run"
  /\ cancel[w]
  /\ life' = [life EXCEPT ![w] = "dead"]
  /\ Goto(w, "dead")
  /\ UNCHANGED <<store, locks, cancel, frame, failures, fault>>

FuncReturn(w) ==
  /\ pc[w] = "run"
  /\ Goto(w, "exit")
  /\ UNCHANGED <<store, locks, os, frame, failures, fault>>

----------------------------------------------------------------------------
(* th_exit: FINISHED under the ThreadInfo's lock, show_thread, pthread_exit *)

th_exit(w) ==
  /\ pc[w] = "exit"
  /\ Live(Info(w))
  /\ Available(infoLock[Info(w)], w)
  /\ state' = [state EXCEPT ![Info(w)] = "FINISHED"]
  /\ life' = [life EXCEPT ![w] = "exiting"]
  /\ ShowThread(w, "terminate")
  /\ UNCHANGED <<Threads, heap, locks, cancel, th, call, rc, joinee, failures, fault>>

Terminate(w) ==
  /\ pc[w] = "terminate"
  /\ life' = [life EXCEPT ![w] = "dead"]
  /\ Goto(w, "dead")
  /\ UNCHANGED <<store, locks, cancel, frame, failures, fault>>

----------------------------------------------------------------------------
(* Undefined behaviour                                                      *)

\* Thread t's next statement reads through a NULL or freed pointer, or joins
\* or cancels a pthread that was joined.
NextIsUndefined(t) ==
  \/ pc[t] \in Dereferencing /\ ~Live(Info(t))
  \/ pc[t] = "list" /\ Info(t) # NULL /\ ~Live(Info(t))
  \/ pc[t] = "setup" /\ ~Live(t)
  \/ pc[t] = "join" /\ life[joinee[t]] = "joined"
  \/ pc[t] = "cancel" /\ Live(Info(t)) /\ life[Info(t)] = "joined"

Undefined(t) ==
  /\ NextIsUndefined(t)
  /\ fault' = t
  /\ UNCHANGED <<store, locks, os, pc, frame, failures>>

----------------------------------------------------------------------------
Init ==
  /\ Threads = [h \in Handles |-> NULL]
  /\ heap = [w \in Workers |-> "none"]
  /\ state = [w \in Workers |-> "PENDING"]
  /\ infoLock = [w \in Workers |-> Free]
  /\ StoreLock = Free
  /\ life = [w \in Workers |-> "none"]
  /\ cancel = [w \in Workers |-> FALSE]
  /\ pc = [t \in Pthreads |-> IF t \in Callers THEN "idle" ELSE "unborn"]
  /\ th = [t \in Pthreads |-> 0]
  /\ cont = [t \in Pthreads |-> "idle"]
  /\ call = [c \in Callers |-> "none"]
  /\ rc = [c \in Callers |-> THD_ERROR]
  /\ joinee = [c \in Callers |-> NULL]
  /\ failures = 0
  /\ fault = NULL

\* What caller c does inside an operation of the library
CallerStep(c) ==
  \/ Check(c) \/ get_next_handle(c) \/ NoMemory(c) \/ NoThread(c)
  \/ \E w \in Workers : Create(c, w)
  \/ ReadForWait(c) \/ Join(c) \/ CleanupFree(c) \/ CleanupClear(c)
  \/ LockForKill(c) \/ ReadCancelled(c) \/ ReadFinished(c) \/ Cancel(c) \/ StoreCancelled(c)
  \/ UnlockKilled(c) \/ get_thread_state(c) \/ ReadState(c) \/ ListLock(c) \/ ListNext(c)

\* What a worker does inside the library
WorkerStep(w) ==
  \/ Start(w) \/ Setup(w) \/ Started(w) \/ ReadName(w)
  \/ th_exit(w) \/ Terminate(w) \/ CancelledInLog(w)

Shown(t) == Show(t) \/ LockShown(t) \/ LogShown(t)

\* What the user's function does
UserStep(w) == get_thread_name(w) \/ CancelPoint(w) \/ FuncReturn(w)

Next ==
  /\ fault = NULL
  /\ \/ \E c \in Callers : \/ CallerStep(c)
                           \/ \E op \in Ops, h \in ThreadHandles : Call(c, op, h)
     \/ \E w \in Workers : WorkerStep(w) \/ UserStep(w)
     \/ \E t \in Pthreads : Shown(t) \/ Undefined(t)

Spec == Init /\ [][Next]_vars

\* The scheduler runs every thread that can run.  The user's function returns
\* however often it asks for its name first (install_data's walks a finite
\* list).  Nothing makes a caller call, and a cancellation point need not come.
Fairness ==
  /\ \A c \in Callers : WF_vars(fault = NULL /\ (CallerStep(c) \/ Shown(c)))
  /\ \A w \in Workers : /\ WF_vars(fault = NULL /\ (WorkerStep(w) \/ Shown(w)))
                        /\ SF_vars(fault = NULL /\ FuncReturn(w))

FairSpec == Spec /\ Fairness

----------------------------------------------------------------------------
(* Properties                                                               *)

CallerPC == {"idle", "next_handle", "create", "check", "lock", "join", "cleanup",
             "purge", "kill", "kill_finished", "cancel", "store", "killed", "refused",
             "state", "show", "show_lock", "show_log", "list_lock", "list"}
WorkerPC == {"unborn", "start", "setup", "started", "run", "name", "exit", "show",
             "show_lock", "show_log", "terminate", "dead"}
Lock == {Free} \cup [owner : Pthreads, depth : Nat \ {0}]

\* The values the variables take.
TypeOK ==
  /\ Threads \in [Handles -> Workers \cup {NULL}]
  /\ heap \in [Workers -> {"none", "live", "freed"}]
  /\ state \in [Workers -> ThreadState]
  /\ infoLock \in [Workers -> Lock]
  /\ StoreLock \in Lock
  /\ life \in [Workers -> {"none", "alive", "exiting", "dead", "joined"}]
  /\ cancel \in [Workers -> BOOLEAN]
  /\ pc \in [Pthreads -> CallerPC \cup WorkerPC]
  /\ \A c \in Callers : pc[c] \in CallerPC
  /\ \A w \in Workers : pc[w] \in WorkerPC
  /\ th \in [Pthreads -> ThreadHandles]
  /\ cont \in [Pthreads -> CallerPC \cup WorkerPC]
  /\ \A c \in Callers : cont[c] \in {"idle", "join", "cleanup", "killed", "refused"}
  /\ \A w \in Workers : cont[w] \in {"idle", "started", "terminate"}
  /\ call \in [Callers -> Ops \cup {"none"}]
  /\ rc \in [Callers -> ThreadHandles]
  /\ joinee \in [Callers -> Workers \cup {NULL}]
  /\ failures \in 0 .. MaxFailures
  /\ fault \in Pthreads \cup {NULL}

\* The callers that create threads, and those that reap them.
Executors == {c \in Callers : "th_execute" \in Calls[c]}
Reapers == {c \in Callers : Calls[c] \cap {"th_wait", "th_wait_all"} # {}}

\* How install_data uses the library: main() alone creates and reaps.
OneExecutorOneReaper ==
  /\ \A c, d \in Executors : c = d
  /\ \A c, d \in Reapers : c = d

\* No thread is forgotten: from th_execute until it has called th_exit or has
\* been cancelled, a thread is in Threads[] at its own handle and its ThreadInfo
\* is allocated, whatever th_kill, th_wait and show_all_threads do meanwhile.
NotForgotten ==
  \A w \in Workers :
    life[w] # "none" /\ ~Done(w) => Threads[th[w]] = w /\ heap[w] = "live"

\* The unlocked reads of Threads[] do no harm to these threads: to a worker,
\* until th_exit has published FINISHED (func_decorator and get_thread_name are
\* safe); to the caller that reaps, in all its operations, th_kill included;
\* and to show_all_threads, which holds StoreLock against th_cleanup.
FaultScope ==
  /\ fault \in Workers => life[fault] = "exiting"
  /\ fault \notin Reapers
  /\ fault # NULL => pc[fault] # "list"

WaitsForStore(t) == pc[t] \in {"next_handle", "create", "cleanup", "list_lock",
                               "start", "name"}

\* Lock order: StoreLock is never awaited by a thread that holds the lock of a
\* ThreadInfo, so th_kill (ThreadInfo, then show_thread) and show_all_threads
\* or func_decorator (StoreLock, then ThreadInfo) cannot wait for each other.
LockOrder ==
  \A t \in Pthreads, w \in Workers :
    WaitsForStore(t) /\ heap[w] = "live" => infoLock[w].owner # t

\* Cancellation is disabled in func_decorator "so that the lock won't stay
\* locked": no worker that ended still holds StoreLock, and the only mutex of a
\* live ThreadInfo it may still hold is the one show_thread took in th_exit,
\* when a cancel met it in log_event, on its way to pthread_exit.
CancelLeavesNoLock ==
  \A w \in Workers : life[w] \in {"dead", "joined"} =>
    /\ StoreLock.owner # w
    /\ \A v \in Workers : heap[v] = "live" /\ infoLock[v].owner = w
                           => cancel[w] /\ cont[w] = "terminate"

\* The mutex of a ThreadInfo protects FINISHED: only a th_kill that stores
\* CANCELLED without holding that mutex overwrites it (its lock was of the
\* ThreadInfo that had the handle before).  Neither a late func_decorator nor a
\* th_kill that has locked the thread it kills does.
FinishedIsKeptUnderLock ==
  [][\A w \in Workers :
       state[w] = "FINISHED" /\ state'[w] # "FINISHED"
         => \E c \in Callers : pc[c] = "store" /\ Info(c) = w /\ infoLock[w].owner # c]_vars

\* After th_wait_all by the one caller that creates threads, nothing is managed.
WaitAllPurges ==
  \A c \in Callers :
    Executors \subseteq {c} /\ pc[c] = "idle" /\ call[c] = "th_wait_all"
      => \A h \in Handles : Threads[h] = NULL

\* Every operation returns (th_wait: once the thread it waits for has ended),
\* unless the process stops on undefined behaviour.
CallsReturn == \A c \in Callers : pc[c] # "idle" ~> pc[c] = "idle" \/ fault # NULL

\* What the library promises of its table, stated in ThreadTable: an entry
\* appears in a free place for a new thread, stays until that thread is done,
\* and disappears once, after that.
Table == INSTANCE ThreadTable WITH
  entry <- Threads,
  born <- {w \in Workers : life[w] # "none"},
  done <- {w \in Workers : Done(w)}

ImplementsThreadTable == Table!Spec

----------------------------------------------------------------------------
(* What thread_mgr.h says of handles and the code does not keep             *)

\* "a unique integer handle": two threads that have not called th_exit never
\* have the same handle (get_next_handle gives StoreLock back before th_execute
\* takes it again).
UniqueHandle ==
  \A v, w \in Workers :
    v # w /\ th[v] = th[w] => \E x \in {v, w} : life[x] = "none" \/ Done(x)
=============================================================================
