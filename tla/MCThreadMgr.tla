---------------------------- MODULE MCThreadMgr ----------------------------
(* Small instances of ThreadMgr for TLC. *)
EXTENDS ThreadMgrInv, TLC

CONSTANTS main, mgr, w1, w2

\* As in install_data: main() creates and reaps; the manager thread, which runs
\* the signal handlers, kills, lists and asks.
InstallDataCalls ==
  (main :> {"th_execute", "th_wait", "th_wait_all"})
    @@ (mgr :> {"th_kill", "show_all_threads", "get_thread_state"})

\* Two threads create.
TwoExecutorsCalls == (main :> {"th_execute"}) @@ (mgr :> {"th_execute"})

\* One thread that kills and waits.
KillWaitCalls == main :> {"th_execute", "th_kill", "th_wait"}

WorkerSymmetry == Permutations(Workers)
=============================================================================
