------------------------------ MODULE AuditLog ------------------------------
(***************************************************************************)
(* What the audit log promises of an entry handed to log_user_action: it   *)
(* is refused at once, or accepted and then stored once or lost, and       *)
(* nothing else ever happens to it.  AuditPipeline implements this.        *)
(***************************************************************************)
CONSTANT Calls       \* the calls of log_user_action, one entry each

VARIABLE fate        \* what has become of each entry

Init == fate = [c \in Calls |-> "new"]

Become(S, from, to) ==
    /\ \A c \in S : fate[c] = from
    /\ fate' = [c \in Calls |-> IF c \in S THEN to ELSE fate[c]]

Accept == \E c \in Calls : Become({c}, "new", "pending")
Refuse == \E c \in Calls : Become({c}, "new", "refused")

\* A batch is stored, or lost, as a whole.
Store == \E S \in SUBSET Calls : S # {} /\ Become(S, "pending", "stored")
Lose  == \E S \in SUBSET Calls : S # {} /\ Become(S, "pending", "lost")

Next == Accept \/ Refuse \/ Store \/ Lose

Spec == Init /\ [][Next]_fate
=============================================================================
