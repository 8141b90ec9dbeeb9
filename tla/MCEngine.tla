------------------------------ MODULE MCEngine ------------------------------
(* A daemon with two sessions, or a server with one; two calls of the first, *)
(* one of the second.                                                        *)
EXTENDS Engine

CONSTANTS s1, s2, a1, a2, b1

MCOf == [c \in {a1, a2, b1} |-> IF c = b1 THEN s2 ELSE s1]
=============================================================================
