---------------------------- MODULE ThreadTable ----------------------------
(***************************************************************************)
(* What the thread manager promises of its table of threads, without       *)
(* locks, pointers or threads of control: th_execute enters a new thread   *)
(* at a free handle, the thread is done one day (it called th_exit, or a   *)
(* cancel ended it), and only then may th_wait take the entry away.        *)
(***************************************************************************)
EXTENDS Integers

CONSTANTS Workers, MaxThreads, NULL

Handles == 0 .. MaxThreads - 1

VARIABLES
  entry,  \* the thread entered at each handle, or NULL
  born,   \* the threads that were ever created
  done    \* those that finished or were cancelled and ended

Init ==
  /\ entry = [h \in Handles |-> NULL]
  /\ born = {}
  /\ done = {}

Execute(h, w) ==
  /\ entry[h] = NULL
  /\ w \notin born
  /\ entry' = [entry EXCEPT ![h] = w]
  /\ born' = born \cup {w}
  /\ UNCHANGED done

Finish(w) ==
  /\ w \in born \ done
  /\ done' = done \cup {w}
  /\ UNCHANGED <<entry, born>>

Reap(h) ==
  /\ entry[h] \in done
  /\ entry' = [entry EXCEPT ![h] = NULL]
  /\ UNCHANGED <<born, done>>

Next ==
  \/ \E h \in Handles, w \in Workers : Execute(h, w)
  \/ \E w \in Workers : Finish(w)
  \/ \E h \in Handles : Reap(h)

Spec == Init /\ [][Next]_<<entry, born, done>>
=============================================================================
