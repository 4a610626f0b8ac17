-------------------------- MODULE MCAuthorService --------------------------
(* Model checking of AuthorService: which calls there are.                 *)
EXTENDS AuthorService, TLC

CONSTANTS c1, c2, u1, d1, r1, s1

MCOp == c1 :> "create" @@ c2 :> "create" @@ u1 :> "update" @@ d1 :> "delete"
          @@ r1 :> "page" @@ s1 :> "scan"
MCVia == c1 :> "http" @@ c2 :> "ws" @@ u1 :> "http" @@ d1 :> "http"
           @@ r1 :> "http" @@ s1 :> "ws"

OpOfCalls == [c \in Calls |-> MCOp[c]]
ViaOfCalls == [c \in Calls |-> MCVia[c]]
=============================================================================
