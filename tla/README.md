# Formal models of legacy-point-monitor

TLA+ specifications of the two programs of legacy-point-monitor, `install_data` and
`monitor_shm`, and of the libraries under them: the thread manager, the shared
memory library, the hash table and the list. They are checked with TLC on small
instances, and every safety property of the runs that pass is proved with TLAPS for
every instance.

The models are written from the C code. Where a comment or a header says
something else, the model follows the code, and a run shows the difference.

## 1. The system

Two programs share a segment of points. `install_data` reads a file of tasks and
has a thread install them into the segment; `monitor_shm` prints the segment once
a second. Under them are four libraries.

| Component | Source | State | Operations | Models |
|---|---|---|---|---|
| Thread manager | `src/src/lib/thread_mgr/thread_mgr.c` | `Threads[]`, `ThreadInfo` (handle, pthread, state, lock, name), `StoreLock`, a thread-local handle | `th_execute`, `th_wait`, `th_wait_all`, `th_kill`, `th_kill_all`, `th_exit`, `show_all_threads`, `get_thread_name`, `get_thread_state` | `ThreadMgr` |
| Signal path | the same file | `PipeFD`, `SignalHandlers`, the signal mask of each thread | `thread_signal_handler`, `mgr_thread`, `th_install_signal_handler`, `th_uninstall_signal_handler`, `thread_init` | `InstallData` |
| `install_data` | `src/src/bin/install_data/install_data.c` | `Tasks`, `ShmAddr`, `ReinstallTasks`, `SyncMutex`, `TaskingCompleted` | `main`, `thread_entry_point`, `process_entry`, `graceful_exit`, `clear_and_restart` | `InstallData` |
| Points | `src/src/lib/store/point.c` | the points in the segment | `install_point`, `invalidate_point`, `show_points` | `InstallData`, `MonitorShm`; not the coordinates |
| Hash table | `src/src/lib/store/hash_table.c` | the slots, and a node in each | `new_hash`, `get_hash_item`, `insert_hash_item`, `delete_hash_item` | `HashTable` |
| Linked list | `src/src/lib/store/list.c` | head, tail, nodes | `new_list`, `push_list_item`, `remove_list_item`, `iterate_list` | `LinkedList` |
| Shared memory | `src/src/lib/shmlib/shared_mem.c` | `SegmentNodes`, attachments, one semaphore per segment, `UseSemaphores` | `connect_shm`, `detach_shm`, `destroy_shm`, `shm_lock`, `shm_unlock` | `SharedMem` |
| `monitor_shm` | `src/src/bin/monitor_shm/monitor_shm.c` | `Running`, `ShmAddr`, the seconds | the loop, `signal_exit` | `MonitorShm` |
| Log manager | `src/src/lib/log_mgr/log_mgr.c` | `Fd`, the level | `log_event`, `set_logfile` | none (section 6) |

How they interact:

* `main()` of `install_data` calls `th_execute`, waits on `TaskingCompleted`, then
  calls `th_kill_all` and `th_wait_all`, and tears down.
* A signal goes from the handler through a non-blocking pipe to the manager thread
  (`mgr_thread`), which looks its callback up in a hash table and calls it. The
  callback is `graceful_exit` (it kills the threads) or `clear_and_restart` (it
  sets `ReinstallTasks` and clears the segment). Both signal `TaskingCompleted`.
* So `main()` and the manager thread call the thread manager at the same time,
  while the worker runs inside it (`func_decorator`, `th_exit`).
* Both programs attach the segment with `connect_shm`. `install_data` destroys it
  (`destroy_shm`), `monitor_shm` only detaches (`detach_shm`). Semaphores are
  switched off in both, so nothing orders the writes of the one and the reads of
  the other.
* `shared_mem.c` keeps its `SegmentNode`s in a hash table and the attachments of
  each in a list; `install_data` keeps its tasks in a list.

What is hard here: four threads of control that share `Threads[]`, of which most
reads are not locked; deferred cancellation that can act inside a log line with a
mutex held; a condition variable without a predicate; a `FINISHED` thread that
is not joined; a signal handler that is uninstalled in one thread's mask only; a
hash table without a lock and without tombstones; a list whose `tail` goes
wrong; processes that may be killed between any two system calls; a reader of the
segment that takes no lock. `PROJECT.json` lists these hazards at their lines, with
the properties that cover them.

What makes each component correct:

* Thread manager: a thread is managed at one handle until it has called `th_exit` or was
  cancelled; the unlocked reads harm nobody that still needs its `ThreadInfo`; a mutex
  protects what it is there for; no cycle of locks.
* Signal path and `install_data`: one worker installs at a time, in the order of
  the file; teardown after the work; a restart installs everything; a `main()` that
  waits is woken; no memory is used after it was released; signals that come faster
  than they are handled end nothing.
* Hash table: insert, delete and lookup are those of a map, and end.
* Linked list: a push appends, a removal unlinks its node and no other.
* Shared memory: an address is tracked exactly while it is attached; a process
  that dies leaves nobody waiting for the lock.
* `monitor_shm`: what it reports could be true; it leaves the segment to
  `install_data`; it ends, and detaches.

## 2. Modules

| Module | What it is |
|---|---|
| `ThreadTable` | abstract: a table of threads; an entry appears at a free handle, and goes away only when its thread is done |
| `ThreadMgr` | `thread_mgr.c` without the signal path, and its properties |
| `ThreadMgrInv` | the inductive invariants of `ThreadMgr`: `IInv`, and those of the locks |
| `ThreadMgrProofs`, `ThreadLockProofs` | the theorems about `ThreadMgr`; the second has those about locks and `th_wait_all` |
| `InstallData` | `install_data` and the signal path; extends `ThreadMgr` |
| `InstallDataProofs` | the theorems about `InstallData` |
| `KeyValueMap` | abstract: a map with one writer and any number of readers |
| `HashTable` | `hash_table.c`, and its properties |
| `HashTableProofs` | the inductive invariant of `HashTable` and its theorems |
| `LinkedList` | `list.c`, as operators on head, tail and next |
| `LinkedListProofs` | the theorems about those operators, and about the walk |
| `SharedMem` | `shared_mem.c` in several processes, with the kernel's side; uses `LinkedList` |
| `SharedMemProofs` | the inductive invariant of the lock and its theorem |
| `AttachmentProofs` | the types of `SharedMem`, and its list of attachments |
| `MonitorShm` | `monitor_shm` and `install_data` on one segment; extends `SharedMem` |
| `MonitorShmProofs` | the theorems about `MonitorShm` |
| `MCThreadMgr`, `MCInstallData`, `MCHashTable`, `MCSharedMem`, `MCMonitorShm` | the small instances for TLC |

### ThreadMgr

`Callers` are threads that the library did not create (`main`, the manager
thread); `Workers` are those that `pthread_create` may still return. Each
worker has one `ThreadInfo`, so a worker also names it: `Threads[h]` is a worker or
`NULL`, and `heap[w]` says whether its `ThreadInfo` is allocated. `pc[t]` is what
thread `t` does next. `th[t]` is the handle it works on: the argument, the loop
index of `th_wait_all` and `th_kill_all`, or, in a worker, the thread-local handle.

A step runs from one point where another thread can matter to the next: a read of
`Threads[]` without `StoreLock`, the acquisition of a mutex, a write to shared
state, a join. Thus `th_wait` is `Check`, `ReadForWait`, `show_thread`
(`Show`, `LockShown`, `LogShown`), `Join`, `CleanupFree`, `CleanupClear`;
`th_execute` is `get_next_handle` and, after StoreLock was given back, `Create`,
`NoMemory` or `NoThread`. The mutexes are recursive, with an owner and a depth.
A dereference of `NULL` or of freed memory is undefined behaviour: the action
`Undefined` records the thread in `fault`, and nothing happens after it.

`th_kill` is split at each of its reads of `Threads[th]`, because none of them is made
under `StoreLock` and the lock that it took at 491 may be that of a `ThreadInfo` which
`th_wait` has purged since: `Check` (490), `LockForKill` (491), `ReadCancelled` and
`ReadFinished` (the two tests of 493), `Cancel` (504), `StoreCancelled` (507),
`show_thread`, `UnlockKilled` (511). So it may test one thread, cancel a second and
store CANCELLED over the FINISHED of that one (section 5). `get_thread_state` has two steps,
`get_thread_state` (its lock) and `ReadState`. A critical section is one step only where
nothing can change its entry: `th_wait` (`ReadForWait`), since its caller is the one
that reaps; `th_exit`, since the entry of a thread that has not stored FINISHED stays
(`NotForgotten`); the lists and cleanups, under `StoreLock`.

Because `state` can be overwritten, whether a thread is done is not read from it:
`life[w]` is "exiting" from the store of FINISHED in `th_exit` until the
thread ends (history), and `Done(w)` is that the worker has called `th_exit` or a cancel ended
it. The properties are about that:

* `NotForgotten`, `ImplementsThreadTable` and `UniqueHandle`: until it is `Done`, a thread is
  in `Threads[]` at its own handle.
* `FaultScope`: the unlocked reads harm a worker only while it is "exiting", in the
  `show_thread` of `th_exit`; never the caller that reaps, and never `show_all_threads`.
* `CancelLeavesNoLock`: a worker that ended owns no lock of a live `ThreadInfo`, unless it
  was cancelled in that same `show_thread`.
* `FinishedIsKeptUnderLock`: FINISHED is overwritten only by a `th_kill` that does
  not hold the lock of the `ThreadInfo` it writes to. A mutex that a caller did get
  protects the state, although `func_decorator` (322) stores RUNNING without it.

Cancellation is deferred. It acts in the user's function (`CancelPoint`), and in the
log line that `th_exit` writes through `show_thread` (`CancelledInLog`), which
leaves the `ThreadInfo`'s mutex locked. `func_decorator` disables it until the
user's function starts, and so does the model.

Left out: the thread names, `th_execute(NULL)`, and the failures of calls that set
attributes. `get_thread_name` is called by workers only, as in `install_data` (section 5).

### InstallData

It extends `ThreadMgr`, with `main` and `mgr` as the callers; the worker's
function is `thread_entry_point`. `at` is where `main()` is, `mgrAt` where the
manager thread is, and `work[w]`, `item[w]` where a worker is in the list. A step
inside the library is one of `ThreadMgr` (`InLibrary`); the others leave the
library's variables alone or enter it (`Call`). A point is abstracted to the number
of the task that installed it; `0` is an invalid point and `-1` one that an earlier
run left in the segment. `handler[s]` is the node of a signal in the hash table:
absent, live or freed. `crash` records who used memory that is gone, and
`overtaken` (history) that a `clear_and_restart` came where `main()` would not
restart for it.

Left out: the parsing of the input. `Tasks` is what passed `create_entry`.
SIGQUIT is not told apart from SIGINT, whose handler it has.

### HashTable

One writer inserts, deletes and looks up; readers look up at the same time, since
nothing is locked: `mgr_thread` looks signals up while `main()` installs and
uninstalls handlers. A step is one read or write of a slot. `get_hash_item` reads
a slot three times (the test of the loop, the key, the return): `Probe`,
`Compare`, `ReturnItem`. The key is taken as an unsigned int (`UINT` values)
modulo the size. `delete_hash_item` frees the node (`FreeItem`) before it clears the
slot (`Clear`), which is where a reader meets freed memory (`Undefined`).
`disturbed[r]` is history: a deletion overlapped r's lookup.

`MayDelete` is an assumption about the application, in the guard of `Call`: it
deletes a key only while no other key was probed past its slot. Without it
`ImplementsMap` is false: after inserts of k and of l, which collides with k, and a
deletion of k, l is not found any more. The programs meet the assumption. They delete the handler of SIGHUP, which is at its home slot with none behind it, and
the only key of `SegmentNodes`.

### LinkedList

A list is a record of head, tail and next pointers, and its operations are
operators, since each list belongs to one thread. A node is identified with the
value it holds. `Visits(l, s)` says that `s` is what the loop of `iterate_list`
(`remove_list_item` alike) visits from `head` to NULL. `Walk(l)` is that sequence, chosen
among those no longer than the number of nodes: a walk that ends meets no node twice,
and what nodes outside the list point to does not matter. `Unlink` sets
`tail` to the predecessor of the removed node, as the code does, wherever the node
was.

### SharedMem

Several processes use one key. A step is one system call and what the process does
up to the next one. The kernel's side is `segment` and `semaphore` (what the key
names), `attached`, `semval` and `undo` (each process's SEM_UNDO adjustment). The
process's side is its `SegmentNode`, with the list of attachments, and the locals
of the call it is in. `Exit(p)` ends a process anywhere and does what the kernel
does then: it detaches, adds the adjustment, and the process's memory is gone.
Another process takes its place.

An id of a segment or a semaphore is never used again, but a call on an id that is
gone may get EIDRM or EINVAL, which `destroy_shm` tells apart. A process
that connects again after another one destroyed the segment keeps its old
`shm_id` and `lock_id`, as in the code (`shared_mem.c:211`).

Two guards say what the application does, as both programs do. `MayUse`: it calls
`connect_shm` first, since before that the other calls dereference the NULL hash of
segments (`shared_mem.c:233`); a `shmget` that fails leaves the hash made
(`ShmgetFails`). `MayConnect`: it connects again only while
`tail` is the last node, which it is if the latest address detached was the last of
the list. Otherwise `push_list_item` loses addresses or writes through NULL
(`PushCutsAtTail`, `TailAfterRemove`). The two programs connect once. A process
that holds the lock calls nothing but `shm_unlock`.

### MonitorShm

`monitor_shm` and `install_data` as two processes of `SharedMem`, without
semaphores. The monitor is modelled whole: `connect_shm`, the loop over the
seconds, both loops of `show_points` one point at a time, `signal_exit` anywhere,
`detach_shm`. `install_data` is reduced to what it does to the segment: its worker
installs and invalidates points in any order, `clear_and_restart` clears them
one by one, `main()` destroys the segment. How its threads get there is
`InstallData`. Either program may be killed anywhere and started again
(`Restart`).

`connect_shm` passes the segment to `push_list_item` as the value, which copies its
first bytes onto themselves: `CopyRead` and `CopyWrite`. A point is its flag
`is_valid`. History variables: `always` and `ever`, the points valid during all and
some of the `show_points` under way; `wanted`, what `install_data` last made of each
point; `abandoned`, the segments over which an `install_data` was killed.

## 3. What is checked

A run that passes checks every state of its instance; one whose name is in the
second table ends in a counterexample.

| Run | Instance | Properties | What it shows |
|---|---|---|---|
| core | `main` creates and waits, `mgr` kills and lists; 2 workers, 2 handles | `TypeOK`, `NotForgotten`, `FaultScope`, `LockOrder`, `CancelLeavesNoLock`, `WaitAllPurges`, `FinishedIsKeptUnderLock`, `ImplementsThreadTable` | a thread stays managed until it has called `th_exit` or was cancelled; unlocked reads harm only the killer and a worker on its way out of `th_exit`; no cycle of locks; a cancel leaves only one kind of mutex locked; `th_wait_all` leaves nothing managed; the mutex of a `ThreadInfo` protects FINISHED; the manager implements `ThreadTable` |
| app_restart | 1 task, 2 workers one after the other, 2 signals out of SIGINT and SIGHUP, a spurious wakeup, a pipe of 1 byte | `AppTypeOK`, `OneInstaller`, `TeardownAfterWork`, `CompleteUnlessOvertaken`, `CrashIsLate`, `FailsOnlyToStart` | a restart never has two installers, teardown comes after the work, a restart that no later signal overtakes installs the whole file, only a handler that is under way in teardown (hangup_in_teardown) uses memory that is gone, and neither a full pipe nor a full table ends the program |
| app_once | 3 tasks on 2 points, 2 SIGINTs, a spurious wakeup, `pthread_create` may fail once | `InstalledInOrder`, `WaitingMainIsWoken`, `AppCallsReturn`, `WorkerStarts` | the points are those of a prefix of the file; a waiting `main()` is woken; calls of the thread manager return; a created worker starts |
| hash | 4 slots, keys -1, 3 and 4 that collide and wrap around, an overwrite, 1 reader | `TypeOK`, `Reachable`, `InsertsAreHarmless`, `ImplementsMap`, `OperationEnds` | the table is a map, and its operations end |
| shm | 2 processes with semaphores, 2 addresses, 2 segments and 2 semaphores, an exit, a failure of `shmat` or `semget` | `TypeOK`, `AttachedIsTracked`, `LockNeverWaits` and deadlock | attachments are tracked whatever fails; nobody waits for a lock, also after a crash |
| monitor | 2 points, 2 seconds, 2 exits, 2 segments | `MonitorTypeOK`, `CountIsPlausible`, `WorkIsVisible`, `StartsClean`, `MonitorDetaches` | what the monitor counts is plausible, it leaves `install_data` its segment, a segment over which nobody was killed starts empty, and the monitor ends detached |

| Run | Property | What the code does |
|---|---|---|
| killed_then_waited | `CallsReturn` | `th_exit` logs with cancellation enabled: a cancel in that log line leaves the mutex locked, and `th_wait` blocks for ever (`thread_mgr.h:32` promises that it cleans up) |
| handle_not_unique | `UniqueHandle` | two `th_execute` at once return one handle (`thread_mgr.h:8`: a unique handle) |
| lost_wakeup | `CompletionIsSeen` | the worker signals before `main()` waits, and `main()` waits for ever |
| hangup_in_teardown | `NoUseAfterTeardown` | a SIGHUP that is under way when its handler is uninstalled uses what `main()` releases |
| lock_not_exclusive | `Exclusion` | each process that connects raises the semaphore by one, so as many hold the lock as have connected (`shared_mem.h:28`: the lock coordinates access) |
| install_lost | `InstalledStays` | a monitor that connects while point 0 is installed writes the old flag back |

### Bounds, and why they are enough

* Two workers and two handles: a race on `Threads[]` is between one thread that is
  created, waited for or killed and another, and the loops of `th_wait_all` and
  `th_kill_all` go round twice. Handles -1 and MaxThreads are passed too.
* `MaxFailures` of the thread manager: 1 in app_once, 0 elsewhere. The caller holds
  `StoreLock` after its first failed `pthread_create` and never gives it back; a
  second failure only adds to the depth.
* `MaxSignals` 2 covers SIGINT after SIGHUP and SIGHUP after SIGINT, and with
  `PipeCapacity` 1 a byte that is dropped.
* `MaxSpurious` 1: a spurious wakeup makes `main()` leave the wait, once in a round.
* In the restart run `MaxThreads` is 1 and there are two workers: the second one,
  after a restart, gets the handle of the first.
* Four slots: a home slot that two keys share, a chain that wraps around, and one
  slot free.
* Two processes and two addresses: one process detaches, destroys or dies while the
  other is at any point of its calls, with a list of two attachments. `MaxIds` 2: a
  segment or semaphore is destroyed and made again while the other process still
  has the old id.
* `MaxExits` 1 in shm, 2 in monitor (one of each program, or one twice: an
  `install_data` killed over the segment of another).
* Two points: the monitor's index passes a point before and after it changes; point
  0 is the one the copy of `connect_shm` touches.

Symmetry is used only in runs that check no liveness property.
Deadlock is checked in shm, where a process can always go on, or end. Elsewhere
`CHECK_DEADLOCK FALSE` stands, as the programs do stop: `main()` returns,
undefined behaviour ends a behaviour, and a client may stop calling. That nobody
waits for ever is checked there as `AppCallsReturn`, `WaitingMainIsWoken`,
`WorkerStarts`, `OperationEnds` and `MonitorDetaches`.

### Fairness

* The scheduler runs each thread that can run: weak fairness of `main()`, of the
  manager thread and of each worker in `InstallData`, with their steps inside the
  thread manager, and of each thread inside a hash operation. The same holds of
  a step into undefined behaviour: a thread that is about to read freed memory does.
* A pending signal that is not blocked is delivered (weak fairness).
* In `ThreadMgr`'s own `FairSpec` (killed_then_waited) the user's function returns
  (`FuncReturn` is strongly fair, as it may ask for its name any number of times).
* `MonitorFairSpec`: weak fairness of the monitor's steps, that is, the scheduler
  runs it, and `sleep(1)` ends. Nothing is assumed of `install_data`.
* Nothing is assumed of callers, signals, spurious wakeups, failures or exits, and
  `SharedMem` states no fairness.

## 4. What is proved

All theorems are for any callers, workers, table sizes, tasks, signals, keys,
processes, points and bounds. The assumptions on constants are
`ThreadMgrAssumption`, `InstallDataAssumption`, `HashTableAssumption`,
`ListAssumption`, `SharedMemAssumption`, `NodeAssumption` and `MonitorAssumption`,
which TLC evaluates in the runs. They say what kind of value a constant is, and
that the nodes of a list are finitely many, as a process has finitely many addresses.

### The thread manager

`ThreadMgrProofs`:

* `TypeCorrect`: `TypeOK`, whatever the callers do.
* `StoreExclusion`: two threads are never both in the regions that `StoreLock`
  guards, whatever the callers do.
* `NoThreadForgotten`, `FaultsAreScoped`, `TableRefinement`: the
  properties `NotForgotten`, `FaultScope` and `ImplementsThreadTable`, when one caller creates and one caller reaps
  (`OneExecutorOneReaper`). The hypothesis is needed: handle_not_unique is a
  counterexample with two creators, and two reapers may join one thread twice.
* `HandlesAreUnique`: `UniqueHandle`, under the same hypothesis: what the run
  handle_not_unique refutes is true of a program with one creator.

None of these properties is inductive. That `th_wait` may purge an entry depends
on what it read earlier, while the other threads may have changed the entry
since. `IInv` says what stays true of it: `Phases` ties a worker's pthread, its
`ThreadInfo` and its place in the code together; `TableInv` and `FreedInv` say that
`Threads[]` holds exactly the live `ThreadInfo`s, but for the one that
`th_cleanup` has just freed; `Entries` says what a caller knows of the entry it works
on; `JoinedInv` and `Stays` say that only the reaper takes entries away; `Roles`
says who is in which operation. A step of a caller that changes nothing but its
own frame is handled once, by the `Private...` lemmas; the steps that change an
entry (`Create`, `Join`, `CleanupFree`, `CleanupClear`, the worker's) or the state of
somebody else's (`StoreCancelled`) have a lemma each. Of `state` the invariant says one
thing only, that it is FINISHED of nobody but a thread that is `Done`: the rest of what
the state says may be overwritten by a `th_kill` with a stale lock.

`ThreadLockProofs`:

* `LocksAreOrdered` and `CancelLeavesLocksFree`: `LockOrder` and
  `CancelLeavesNoLock`, under the same hypothesis. `Owners` says, over `IInv`, which
  thread may own the lock of each live `ThreadInfo`, by its place in the code, and how
  deep. A purged entry is why it is about live ones only: `show_thread` may lock one
  `ThreadInfo` and unlock another. `NewUnlocked` says that a `ThreadInfo` that does
  not exist yet is unlocked, and `WorkerStore` where a worker has `StoreLock`.
* `FinishedKeptUnderLock`: `FinishedIsKeptUnderLock`, under the same hypothesis. Its
  invariant is `KillsUnfinished`: a `th_kill` past its tests, if it has locked the
  `ThreadInfo` it is about to write to, has not locked a finished one. `th_exit` needs
  that lock to store FINISHED, and `Owners` says that its owner is there only once.
* `WaitAllLeavesNothing`: `WaitAllPurges`, without a hypothesis. `LoopInv` says that
  the handles below the loop index are empty, and stay so as nobody else
  creates threads.

### install_data

`InstallDataProofs`: each step of `install_data` is a step of the thread manager or
leaves it alone (`StepOfThreadMgr`), so `AppSpec => Spec` (`AppRunsThreadMgr`); and
`install_data` has one creator and one reaper (`MainCreatesAndReaps`). The
theorems about the manager therefore hold in the program: `AppForgetsNoThread`,
`AppHandlesAreUnique`, `AppLocksAreOrdered`, and `AppFaultsAreScoped`, which leaves only the manager
thread and a worker that is on its way out of `th_exit` to be harmed by the unlocked reads. Over them:

* `AppHasOneInstaller` and `AppTearsDownAfterWork`: `OneInstaller` and
  `TeardownAfterWork`. `MainPlace` ties `main()` to the call it is in; `Rounds` says
  that nothing is managed between two rounds, which is what `main()` may conclude from
  `th_wait_all`, and never more than one thread. As a worker that is not
  done is managed (`NotForgotten`), at most one is at work.
* `AppTypeCorrect`: `AppTypeOK`, with `WorkPlace` for the index into the list.
* `AppFailsOnlyToStart`: `FailsOnlyToStart`. `Failures` says that nothing is managed when
  `th_execute` has failed (`NotExecuted`): nothing is when it is called (`Rounds`), and it
  fails only if it creates nothing, so never for want of a handle.
* `AppInstallsInOrder`: `InstalledInOrder`, when SIGHUP is not among the signals (with
  it, `clear_and_restart` clears beside the worker, and the property is not claimed).
  `NoHangup` excludes a restart, `OneRound` says that one worker is ever created, and
  `ContentFrom` that the segment is what the tasks it performed leave.
* `AppCompletes`: `CompleteUnlessOvertaken`, for any number of restarts. The property
  speaks of teardown; `RoundContent` says what makes it true of the round before, as
  long as nothing disturbed it (`Undisturbed`: no `ReinstallTasks`, `overtaken` or spurious
  wakeup): while a worker installs, the segment is what its tasks so far
  leave over some earlier content, and once `main()` is past its wait it is what the whole
  file leaves. That needs that what an earlier round left does not show through
  (`ResultOfAll`: the points modelled are those that some task names, so all tasks
  together give the same over any content), that a worker which has signalled is
  at the end of the list (`AtEnd`), that what wakes `main()` undisturbed is that worker (`InstallerWakes`),
  and that `main()` sees what the manager thread has begun (`MgrIsSeen`).
* `OnlyHandlersCrash`: `CrashIsLate`. A worker uses only memory that is there
  (`TeardownAfterWork`, `AttachedBetween`), and the manager thread does until
  teardown (`HandlersStay`). What is left is exactly hangup_in_teardown.

### The hash table

`HashTableProofs`: `HashTypeCorrect`, `NodesReachable`, `InsertsHarmless` and
`HashImplementsMap` are the properties `TypeOK`, `Reachable`, `InsertsAreHarmless`
and `ImplementsMap`. The strengthening is `Probed`: the slots that a thread has
probed hold other keys, unless a deletion disturbed it. A store therefore goes
where a probe finds it. A deletion opens no hole in another key's path
(`Careful`, that is `MayDelete`, which stays true while the deletion runs).
Nothing but a deletion changes the key of a slot, which makes a lookup that is not
disturbed atomic at its last read. `ContentFacts` and `ContentStep` turn this into the
value of each key, and `StepOfMap` maps each step to one of `KeyValueMap`.

### The list and the shared memory library

`LinkedListProofs`, for lists of any length, given as the sequence `s` that a walk
visits (`Visits(l, s)`):

* `PushAppends`: a push appends, when `tail` is the last node, and keeps it so.
* `PushCutsAtTail`: when `tail` is another node, the nodes behind it are lost.
* `RemoveUnlinks`: a removal takes its node and no other out of the walk.
* `TailAfterRemove`: after it `tail` is the last node only if the removed one was
  the last.
* `WalkIs`: a list has one such sequence, and it meets no node twice; it is therefore
  `Walk(l)`. Two walks agree place by place (`WalksAgree`), a place that came back
  would come back for ever (`WalkInjective`), and a sequence without repetition is no
  longer than there are nodes (`WalkBounded`).
* `PushElements`, `RemoveElements`: the theorems above in terms of the set of
  nodes that a walk meets, which is what `SharedMem` uses.

The inductions are over a set of natural numbers (`SetInduction`), since the library's
induction theorem has an operator as its parameter.

`SharedMemProofs`: `LockWaitsForNobody` is `LockNeverWaits`, for any number of
processes, exits and failures. `Balance` says that the semaphore's value is the
number of raises that the adjustments would take back; `Raised` that whoever has a
node with the present semaphore, and does not hold it, has raised it once more than
it has lowered it; `Shapes` and `Places` say what the variables are where. So the process that asks for the lock
finds its own raise there. It is also why the lock excludes nobody
(lock_not_exclusive).

`AttachmentProofs`, over `AttachInv`. `TracksAt(p)` says at every step, inside a call
too, that what `p` is attached to is its list, what `connect_shm` has in hand between
`shmat` and `push_list_item`, and what a failed `semget` made it forget, with nothing
twice. `PlaceAt(p)` says what the locals of a call are worth: the segment `shmat` asks
for, the address `destroy_shm` takes next being the head of the list, the list being
empty when the key is removed. It needs no `Balance`: a step of one process leaves
the others' lists alone (`Frame`).

* `ShmTypeCorrect`: `TypeOK`.
* `ListIsWhatIsAttached`: `AttachedIsTracked`.
* `DestroyDetaches`: what REQ_destroy_1 says: when `destroy_shm` removes the key, all
  addresses of the list are detached, however many.

### monitor_shm

`MonitorShmProofs`, over `Control`, that is `Shapes`, `Places` (where the library is,
given where the program is) and `Visible`:

* `InstallsAreVisible`: `WorkIsVisible`, which `Visible` strengthens from the work
  back to the `shmget`.
* `CountsArePlausible`: `CountIsPlausible`, from an invariant on the index. `Counted`
  says that the count of the points before `idx` is between that of those always valid
  and that of those ever valid, `Sandwich` that the present points are between both,
  `ToList` what is left to count down.
* `MonitorTypeCorrect`: `MonitorTypeOK`, with the ranges of the loops'
  counters (`CountersInRange`).
* `StartsWithoutPoints`: `StartsClean`. `Clean` says which segments may hold a point:
  those that were deleted, those somebody was killed over, and the one `install_data`
  works on. It needs that `destroy_shm` deletes the segment that `install_data`
  wrote, that is, that its node is of that segment (`Owned`) whatever the monitor
  does; and that a copy under way in `connect_shm` writes only what was read.

* `ProgramsUseTheLibrary`: `MonitorSpec => Spec` of `SharedMem`. Each step of a program
  is a step of the library or leaves it alone (`StepsInLibrary`); the programs keep what
  `MayConnect`, `MayUse` and the other guards of the library's calls ask of a caller. So
  `ProgramsAreTracked`: `AttachedIsTracked` holds of the two programs.
* `EndedIsDetached`: a program that has ended is attached nowhere, which is the
  safety half of `MonitorDetaches` (the other half, that it ends, is liveness). `Held`
  says where a program is attached: to the address that `connect_shm` returned and to no
  other, from then until its `shmdt`.

### Only model-checked

Liveness: `AppCallsReturn`, `WaitingMainIsWoken`, `WorkerStarts`, `OperationEnds` and
`MonitorDetaches`. A proof would have to establish that the steps under weak fairness are
enabled, and the prover has no rule for ENABLED. The properties of the runs
that end in a counterexample are not theorems, of course. Every other property
of a run is stated by a theorem.

## 5. Where code and comments differ without a run

* `th_kill` reads an entry that `th_wait` frees (`thread_mgr.c:491`; line 48 says that
  the mutex locks the array when it is read or written). `FaultScope` says who
  is harmed by it.
* `th_kill` may store CANCELLED over a FINISHED (507): it holds the lock of the
  `ThreadInfo` that was at its handle at 491; when that one was purged since and the handle
  given to another thread, it tests that thread's state while it runs (493), `th_exit`
  stores FINISHED, and `th_kill` cancels the thread (504) and takes FINISHED back.
  `thread_mgr.h:48-49` says that the information shouldn't change until a wait. What holds
  in spite of it is `FinishedIsKeptUnderLock`, and every other property of the
  thread manager is stated so that it does not rest on FINISHED staying.
* When `pthread_create` fails, `th_execute` returns with `StoreLock` locked (399-402). The
  mutex is recursive, so the caller goes on, and every thread it creates later waits in
  `func_decorator` for ever. `install_data` gives up after the failure, and
  `AppCallsReturn` and `WorkerStarts` hold in app_once.
* `th_wait` does not join a FINISHED thread (445-448): it may return, and the
  `ThreadInfo` be freed, while the thread still logs in `th_exit`.
* RUNNING (322) and FINISHED (550) are stored over CANCELLED.
* `get_thread_name` in a thread that the library did not create reads through a NULL
  thread-local pointer (569), where `thread_mgr.h:54` says that it returns NULL. No program
  calls it from such a thread, and no model has the call.
* The `&=` of `th_wait_all` and `th_kill_all` lets one success hide the errors; the
  comment at 527-529 wants it so, and `thread_mgr.h:22` says otherwise.
* SIGTERM is documented as SIGINT's equal (`install_data.c:53-55`) and has no handler.
* A SIGINT after a SIGHUP finds `ReinstallTasks` set and restarts instead of
  exiting (`install_data.c:321`); a SIGHUP between that test and the reset at 296
  clears the segment and is otherwise forgotten (`overtaken`).
* A hash table without an empty slot makes a probe for an absent key endless.
* `delete_hash_item` stores NULL into the middle of a probe chain (`hash_table.c:68`): a key
  that was probed past the slot is not found any more, where `hash_table.h:11-13` says
  that NULL means that it is not in the hash.
* `remove_list_item` sets `tail` to the predecessor of any node that it removes, NULL for the
  head (`list.c:53-57`): the next push drops the nodes behind, or writes through NULL, and
  `destroy_shm` leaves the addresses attached that were dropped (`shared_mem.h:19`).
* When `semget` fails `connect_shm` returns NULL with the segment attached and no node that
  names it (`shared_mem.c:186-192`): no `destroy_shm` detaches it. `orphans` records it.
* `detach_shm`, `destroy_shm`, `shm_lock` and `shm_unlock` before any `connect_shm` read
  through a NULL hash (`shared_mem.c:233`; `MayUse` excludes them).
* `destroy_shm_lock` tests that nobody is attached and removes the semaphore in two
  system calls: a process that connects in between has a semaphore that is gone
  (`shared_mem.h:48-53` warns of it).

## 6. What is not modelled

* The log manager: formatting and output. Both programs set the log file and the
  level before they create a thread, and never again, so its unlocked state does
  not change while it is shared. Where a log line matters, as a cancellation point, it is
  a step of `ThreadMgr` and `InstallData`.
* The coordinates of the points and their averages; the flag decides what is counted.
* Text: thread names, the layout of the log, the parsing of arguments and of the
  input file.
* `destroy_hash`, which nothing calls; `iterate_hash`, `show_hash`, which change
  nothing; `destroy_list` beyond the free in `install_data`'s teardown.
* SIGTERM: without a handler every interleaving ends the same way.
* Memory exhaustion except in `th_execute`.
* Several keys in one process: they share nothing but the hash table.

## 7. What could follow

1. `InstallData` and `MonitorShm` in one specification, where the worker's order of
   installs restricts what the monitor may count.
2. The theorems of the thread manager for several creators, without the
   properties that handle_not_unique refutes, and `show_all_threads` as a call of the
   manager thread beside threads that start.
3. `HashTable` without `MayDelete`, for the keys that stay reachable.
4. The safety half of the other liveness properties, as `EndedIsDetached` is of
   `MonitorDetaches`: that `main()` waits only while something is left to wake it.
