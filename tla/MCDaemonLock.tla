---------------------------- MODULE MCDaemonLock ----------------------------
(* Three processes, and their symmetry for the invariant checks. *)
EXTENDS DaemonLock, TLC

CONSTANTS p1, p2, p3

Symmetry == Permutations(Procs)
=============================================================================
