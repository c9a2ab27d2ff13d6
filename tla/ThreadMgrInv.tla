---------------------------- MODULE ThreadMgrInv ----------------------------
(***************************************************************************)
(* The inductive invariant of ThreadMgr behind NotForgotten, FaultScope    *)
(* and the refinement of ThreadTable.  It holds when one caller creates    *)
(* threads and one caller reaps them (OneExecutorOneReaper).               *)
(***************************************************************************)
EXTENDS ThreadMgr

Showing(t) == pc[t] \in {"show", "show_lock", "show_log"}

\* Thread t is at point p or in the show_thread before it.
Towards(t, p) == pc[t] = p \/ (Showing(t) /\ cont[t] = p)

\* Which operation a caller is in, by where it is.
RoleAt(c) ==
  /\ pc[c] # "idle" => call[c] \in Calls[c]
  /\ pc[c] \in {"next_handle", "create"} => call[c] = "th_execute"
  /\ Towards(c, "join") \/ Towards(c, "cleanup") \/ pc[c] = "purge"
       => call[c] \in {"th_wait", "th_wait_all"}

Roles == \A c \in Callers : RoleAt(c)

\* Only the handle that the application passes can be out of range.
HandlesInRange ==
  \A t \in Pthreads : pc[t] \in {"check", "next_handle"} \/ th[t] \in Handles

\* show_thread knows where it returns to.
ShownFrom == \A t \in Pthreads : Showing(t) => cont[t] # "idle"

\* A worker's pthread, its ThreadInfo and its place in its own code.
PhaseAt(w) ==
  /\ life[w] = "none" <=> pc[w] = "unborn"
  /\ heap[w] = "none" <=> pc[w] = "unborn"
  /\ life[w] \in {"dead", "joined"} <=> pc[w] = "dead"
  /\ life[w] = "exiting" <=> Towards(w, "terminate")
  /\ state[w] = "FINISHED" => Done(w)

Phases == \A w \in Workers : PhaseAt(w)

\* Threads[] holds exactly the live ThreadInfos, each at its own handle ...
TableInv ==
  /\ \A h \in Handles : Threads[h] # NULL => /\ th[Threads[h]] = h
                                            /\ heap[Threads[h]] # "none"
  /\ \A w \in Workers : heap[w] = "live" => Threads[th[w]] = w
  /\ \A w \in Workers : heap[w] = "freed" => Done(w)

\* ... but for the one that th_cleanup has just freed.
FreedInv ==
  \A h \in Handles : Threads[h] # NULL /\ heap[Threads[h]] = "freed" =>
    \E c \in Reapers : pc[c] = "purge" /\ th[c] = h

\* What a caller knows of the entry it works on: th_wait, before and after the
\* join, and th_execute, whose handle is still free when it uses it.
EntryAt(c) ==
  /\ Towards(c, "join") => /\ joinee[c] # NULL
                           /\ Threads[th[c]] = joinee[c]
                           /\ heap[joinee[c]] = "live"
                           /\ life[joinee[c]] # "joined"
  /\ Towards(c, "cleanup") => /\ Threads[th[c]] # NULL
                              /\ heap[Threads[th[c]]] = "live"
                              /\ Done(Threads[th[c]])
  /\ pc[c] = "purge" => /\ Threads[th[c]] # NULL
                        /\ heap[Threads[th[c]]] = "freed"
  /\ pc[c] = "create" => Threads[th[c]] = NULL

Entries == \A c \in Callers : EntryAt(c)

\* A joined thread keeps its ThreadInfo only until th_cleanup.
JoinedInv ==
  \A w \in Workers : life[w] = "joined" /\ heap[w] = "live" =>
    \E c \in Reapers : Towards(c, "cleanup") /\ Threads[th[c]] = w

\* Where th_kill holds the lock it took
Killing(c) ==
  \/ pc[c] \in {"kill", "kill_finished", "cancel", "store"}
  \/ Towards(c, "killed") \/ Towards(c, "refused")

\* The reaper's own th_kill and get_thread_state work on an entry that stays.
StaysAt(c) ==
  pc[c] \in {"lock", "state", "show_lock", "show_log"} \/ Killing(c) => Threads[th[c]] # NULL

Stays == \A c \in Reapers : StaysAt(c)

\* The points at which a thread holds StoreLock.
HoldsStore(t) == pc[t] \in {"purge", "list", "setup"} \/ Towards(t, "started")

StoreInv == \A t \in Pthreads : HoldsStore(t) => StoreLock.owner = t

\* The points at which a thread holds the lock of the ThreadInfo at its handle,
\* and how often at most: th_kill and get_thread_state lock it, and the
\* show_thread of th_kill once more.
HoldsInfo(t) == pc[t] \in {"state", "show_log"} \/ Killing(t)

InfoDepth(t) == IF pc[t] = "show_log" /\ cont[t] \in {"killed", "refused"} THEN 2 ELSE 1

\* A cancel met worker t in the log line of th_exit.
EndedInLog(t) == t \in Workers /\ pc[t] = "dead" /\ cancel[t] /\ cont[t] = "terminate"

\* Who may own the lock of v
OwnerAt(t, v) ==
  heap[v] = "live" /\ infoLock[v].owner = t =>
    \/ HoldsInfo(t) /\ Info(t) = v /\ infoLock[v].depth <= InfoDepth(t)
    \/ EndedInLog(t)

Owners == \A t \in Pthreads, v \in Workers : OwnerAt(t, v)

\* A new ThreadInfo is unlocked.
NewUnlocked == \A v \in Workers : heap[v] = "none" => infoLock[v] = Free

\* A worker owns StoreLock in func_decorator only.
WorkerStore ==
  \A w \in Workers : StoreLock.owner = w => /\ pc[w] = "setup" \/ Towards(w, "started")
                                            /\ StoreLock.depth = 1

\* th_kill, past its test, has not locked a thread that has finished: th_exit
\* waits for that lock.
KillsUnfinishedAt(c) ==
  pc[c] \in {"cancel", "store"} /\ Live(Info(c)) /\ infoLock[Info(c)].owner = c
    => state[Info(c)] # "FINISHED"

KillsUnfinished == \A c \in Callers : KillsUnfinishedAt(c)

LockInv == Owners /\ NewUnlocked /\ WorkerStore

\* A caller in th_kill or show_all_threads called it, and th_wait_all is at a
\* handle of Threads[].
LoopRoleAt(c) ==
  /\ Killing(c) => call[c] \in {"th_kill", "th_kill_all"}
  /\ pc[c] = "state" => call[c] = "get_thread_state"
  /\ pc[c] \in {"list_lock", "list"} => call[c] = "show_all_threads"
  /\ call[c] = "th_wait_all" => th[c] \in Handles

\* th_wait_all leaves nothing behind it, if nobody else creates threads.
PurgedAt(c) ==
  Executors \subseteq {c} /\ call[c] = "th_wait_all" =>
    \A h \in Handles : pc[c] = "idle" \/ h < th[c] => Threads[h] = NULL

LoopInv == \A c \in Callers : LoopRoleAt(c) /\ PurgedAt(c)

TypeInv ==
  /\ TypeOK
  /\ HandlesInRange
  /\ ShownFrom

IInv ==
  /\ TypeInv
  /\ Roles
  /\ StoreInv
  /\ Phases
  /\ TableInv
  /\ FreedInv
  /\ Entries
  /\ JoinedInv
  /\ Stays
  /\ FaultScope
=============================================================================
