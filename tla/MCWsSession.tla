---------------------------- MODULE MCWsSession ----------------------------
(* Model checking of WsSession: connections of a user are interchangeable.  *)
EXTENDS WsSession, TLC

ConnSymmetry == Permutations(Conns)
=============================================================================
