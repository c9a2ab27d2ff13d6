--------------------------- MODULE MCInstallData ---------------------------
(* Small instances of InstallData for TLC. *)
EXTENDS InstallData, TLC

CONSTANTS w1, w2

\* Two points, then the first is invalidated.
ThreeTasks == <<[index |-> 0, install |-> TRUE], [index |-> 1, install |-> TRUE],
                [index |-> 0, install |-> FALSE]>>

\* One point
OneTask == <<[index |-> 0, install |-> TRUE]>>

WorkerSymmetry == Permutations(Workers)
=============================================================================
