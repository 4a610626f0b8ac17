------------------------------ MODULE MCServer ------------------------------
(* Model checking of Server: requests and messages of one user.  *)
EXTENDS Server, TLC

CONSTANTS h1, m1, m2, alice, get, create, delete

MCKind == h1 :> "http" @@ m1 :> "ws" @@ m2 :> "ws"

KindOfCalls == [c \in Calls |-> MCKind[c]]
UserOfCalls == [c \in Calls |-> alice]
\* The user has not the role for one of the operations.
GrantsOfUsers == [u \in Users |-> {get, create}]
=============================================================================
