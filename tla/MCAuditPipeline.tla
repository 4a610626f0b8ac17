-------------------------- MODULE MCAuditPipeline --------------------------
(* Model checking of AuditPipeline: the calls are interchangeable.          *)
EXTENDS AuditPipeline, TLC

CallSymmetry == Permutations(Calls)
=============================================================================
