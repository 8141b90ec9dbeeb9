---------------------------- MODULE MCWriterLock ----------------------------
(* Two processes, one with three callers, and the lock file a third left.  *)
EXTENDS WriterLock

CONSTANTS p1, p2, p3, a1, a2, a3, b1

MCHome == [c \in {a1, a2, a3, b1} |-> IF c = b1 THEN p2 ELSE p1]
=============================================================================
