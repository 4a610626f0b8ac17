--------------------------- MODULE MCLayeredCache ---------------------------
(* Model checking of LayeredCache: calls of two processes.                   *)
EXTENDS LayeredCache

CONSTANTS p1, p2, k1, k2, r1, r2, w1, w2

HomeOfCalls == [c \in Calls |-> IF c \in {r2, w2} THEN p2 ELSE p1]
UsesOfCalls == [c \in Calls |-> IF c \in Readers THEN Keys ELSE {k1}]
=============================================================================
