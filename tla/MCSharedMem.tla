---------------------------- MODULE MCSharedMem ----------------------------
(* Small instances of SharedMem for TLC. *)
EXTENDS SharedMem, TLC

CONSTANTS p1, p2, a1, a2

ProcAddrSymmetry == Permutations(Procs) \cup Permutations(Nodes)
=============================================================================
