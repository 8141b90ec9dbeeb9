---------------------------- MODULE MCLiveIndex ----------------------------
(* Values of the constants of LiveIndex for TLC. *)
EXTENDS LiveIndex, TLC

CONSTANTS f1, f2, a, b

MCFiles    == {f1, f2}
MCContents == {a, b}

\* Neither files nor contents are ever compared with anything but each other.
Symmetry == Permutations(MCFiles) \cup Permutations(MCContents)
============================================================================
