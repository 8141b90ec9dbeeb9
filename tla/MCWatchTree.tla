----------------------------- MODULE MCWatchTree -----------------------------
(* A root with two directories, one of which has a directory in it. *)
EXTENDS WatchTree

CONSTANTS root, a, b, c

MCParent == [d \in Dirs \ {root} |-> IF d = b THEN a ELSE root]
=============================================================================
