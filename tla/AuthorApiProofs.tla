-------------------------- MODULE AuthorApiProofs --------------------------
(***************************************************************************)
(* The author service implements AuthorApi: proof, for every set of calls  *)
(* and every number of rows, that each step of the service is a step of    *)
(* the API's specification or none.                                        *)
(***************************************************************************)
EXTENDS AuthorServiceProofs

\* What a session has flushed is the write of its call.
KindInv ==
    \A c \in Calls :
        /\ pend[c].kind = "insert" => Op[c] = "create"
        /\ pend[c].kind = "update" => Op[c] = "update"
        /\ pend[c].kind = "delete" => Op[c] = "delete"

\* The sequence has handed out the ids of every author there has been, and a
\* flushed insert has one that no author has had.
FreshInv ==
    /\ \A i \in UsedIds : i < nextId
    /\ Live \subseteq UsedIds
    /\ \A c \in Calls : pend[c].kind = "insert" => pend[c].id \notin UsedIds

\* A flush writes what its call has asked for.
LEMMA FlushKind ==
    ASSUME IInv, NEW c \in Calls, FlushWrite(c), KindInv
    PROVE  KindInv'
<1>a. pend \in [Calls -> Writes] /\ NoWrite.kind = "none"
  BY DEF IInv, TypeOK, TableTypeOK, NoWrite
<1>1. CASE Insert(c)
  <2>1. pend' = [pend EXCEPT ![c] = [kind |-> "insert", id |-> nextId, name |-> arg[c].name]]
    BY <1>1 DEF Insert, FlushInsert, Flush
  <2> QED BY <1>1, <1>a, <2>1 DEF KindInv, Insert
<1>2. CASE Rename(c)
  <2>1. CASE UNCHANGED pend
    BY <2>1 DEF KindInv
  <2>2. CASE pend' = [pend EXCEPT ![c] = [kind |-> "update", id |-> arg[c].id, name |-> arg[c].name]]
    BY <1>2, <1>a, <2>2 DEF KindInv, Rename
  <2> QED BY <1>2, <2>1, <2>2 DEF Rename, FlushUpdate, Flush, tableVars
<1>3. CASE Remove(c)
  <2>1. CASE UNCHANGED pend
    BY <2>1 DEF KindInv
  <2>2. CASE pend' = [pend EXCEPT ![c] = [kind |-> "delete", id |-> arg[c].id, name |-> None]]
    BY <1>3, <1>a, <2>2 DEF KindInv, Remove
  <2> QED BY <1>3, <2>1, <2>2 DEF Remove, FlushDelete, Flush, tableVars
<1> QED BY <1>1, <1>2, <1>3 DEF FlushWrite

\* A session that rolls back or commits holds nothing any more.
LEMMA KindInductive ==
    ASSUME IInv, KindInv, [Next]_vars
    PROVE  KindInv'
<1>a. pend \in [Calls -> Writes] /\ NoWrite.kind = "none"
  BY DEF IInv, TypeOK, TableTypeOK, NoWrite
<1>1. CASE UNCHANGED pend
  BY <1>1 DEF KindInv
<1>2. CASE \E c \in Calls : FlushWrite(c)
  BY <1>2, FlushKind
<1>3. ASSUME NEW c \in Calls, pend' = [pend EXCEPT ![c] = NoWrite]
      PROVE  KindInv'
  BY <1>3, <1>a DEF KindInv
<1> QED BY <1>1, <1>2, <1>3, TableSteps DEF Rollback, Settle, Commit

-----------------------------------------------------------------------------
(* What a commit does.                                                     *)

\* A commit of a flushed row writes it, and gives a new author a fresh id.
LEMMA CommitWrites ==
    ASSUME IInv, KindInv, FreshInv, NEW c \in Calls, Settle(c), pend[c].kind # "none"
    PROVE  /\ pend[c].id \in Ids
           /\ name' = [name EXCEPT ![pend[c].id] = pend[c].name]
           /\ committed' = committed \cup {c}
           /\ \/ /\ Op[c] = "create" /\ pend[c].id \in Ids \ UsedIds /\ pend[c].name \in Names
                 /\ UsedIds' = UsedIds \cup {pend[c].id}
              \/ /\ Op[c] = "update" /\ pend[c].id \in Live /\ pend[c].name \in Names
                 /\ UsedIds' = UsedIds
              \/ /\ Op[c] = "delete" /\ pend[c].id \in Live /\ pend[c].name = None
                 /\ UsedIds' = UsedIds
<1> USE NoneAssumption
<1>a. TypeOK /\ PendingInv
  BY DEF IInv
<1>b. /\ name \in [Ids -> Names \cup {None}] /\ namer \in [Ids -> Calls \cup {None}]
      /\ pend[c].kind \in {"insert", "update", "delete"} /\ Live \subseteq Ids
  BY <1>a DEF TypeOK, TableTypeOK, Writes, Live
<1>c. /\ name' = [name EXCEPT ![pend[c].id] = pend[c].name]
      /\ committed' = committed \cup {c}
      /\ namer' = IF pend[c].name = name[pend[c].id] THEN namer
                  ELSE [namer EXCEPT ![pend[c].id] = c]
  BY DEF Settle, Commit
<1>1. CASE pend[c].kind = "insert"
  <2>1. /\ pend[c].id \in Ids \ Live /\ pend[c].name \in Names /\ pend[c].id \notin UsedIds
        /\ Op[c] = "create"
    BY <1>a, <1>1 DEF PendingInv, KindInv, FreshInv
  <2>2. name[pend[c].id] = None /\ c # None
    BY <2>1 DEF Live
  <2>3. namer' = [namer EXCEPT ![pend[c].id] = c]
    BY <1>c, <2>1, <2>2
  <2>4. UsedIds' = UsedIds \cup {pend[c].id}
    BY <1>b, <2>1, <2>2, <2>3 DEF UsedIds
  <2> QED BY <1>c, <2>1, <2>4
<1>2. ASSUME pend[c].id \in Live PROVE UsedIds' = UsedIds
  <2>1. pend[c].id \in UsedIds
    BY <1>2 DEF FreshInv
  <2>2. \A i \in Ids : namer'[i] = namer[i] \/ (i = pend[c].id /\ namer'[i] = c)
    BY <1>b, <1>c
  <2>3. \A i \in Ids : namer[i] # None => namer'[i] # None
    BY <2>2
  <2> QED BY <2>1, <2>2, <2>3 DEF UsedIds
<1>3. CASE pend[c].kind = "update"
  <2>1. pend[c].id \in Live /\ pend[c].name \in Names /\ Op[c] = "update"
    BY <1>a, <1>3 DEF PendingInv, KindInv
  <2> QED BY <1>2, <1>b, <1>c, <2>1
<1>4. CASE pend[c].kind = "delete"
  <2>1. pend[c].id \in Live /\ pend[c].name = None /\ Op[c] = "delete"
    BY <1>a, <1>4 DEF PendingInv, KindInv
  <2> QED BY <1>2, <1>b, <1>c, <2>1
<1> QED BY <1>1, <1>3, <1>4, <1>b

\* A commit of a session that has flushed nothing changes nothing.
LEMMA CommitsNothing ==
    ASSUME NEW c \in Calls, Settle(c), pend[c].kind = "none"
    PROVE  UNCHANGED <<name, nextId, committed, namer>>
BY DEF Settle, Commit

\* Ids only grow, and two sessions never hold the same one.
LEMMA FreshInductive ==
    ASSUME IInv, KindInv, FreshInv, [Next]_vars
    PROVE  FreshInv'
<1>a. /\ TypeOK /\ PendingInv /\ pend \in [Calls -> Writes] /\ NoWrite.kind = "none"
      /\ nextId \in Nat /\ nextId' \in Nat /\ nextId <= nextId'
      /\ UsedIds \subseteq Ids /\ Ids \subseteq Nat
  BY RowsAppear DEF IInv, TypeOK, TableTypeOK, NoWrite, UsedIds, Ids
<1>b. \A i \in UsedIds : i < nextId'
  <2>1. \A i \in UsedIds : i \in Nat /\ i < nextId
    BY <1>a DEF FreshInv
  <2> QED BY <1>a, <2>1
<1>c. \A d \in Calls : pend'[d].kind = "insert" =>
         (pend'[d].id = nextId \/ (pend[d].kind = "insert" /\ pend'[d].id = pend[d].id))
  BY RowsAppear
<1>d. nextId \notin UsedIds
  BY <1>a DEF FreshInv
<1>1. ASSUME UNCHANGED <<name, namer>> PROVE FreshInv'
  <2>1. UsedIds' = UsedIds /\ Live' = Live
    BY <1>1 DEF UsedIds, Live
  <2> QED BY <1>b, <1>c, <1>d, <2>1 DEF FreshInv
<1>2. ASSUME NEW c \in Calls, Settle(c), pend[c].kind # "none" PROVE FreshInv'
  <2>1. /\ pend[c].id \in Ids
        /\ name' = [name EXCEPT ![pend[c].id] = pend[c].name]
        /\ \/ pend[c].kind = "insert" /\ UsedIds' = UsedIds \cup {pend[c].id}
           \/ pend[c].id \in Live /\ UsedIds' = UsedIds
    BY <1>2, <1>a, CommitWrites DEF KindInv, Writes
  <2>2. UNCHANGED nextId /\ pend' = [pend EXCEPT ![c] = NoWrite]
    BY <1>2 DEF Settle, Commit
  <2>3. pend[c].kind = "insert" => pend[c].id < nextId
    BY <1>a DEF PendingInv
  <2>4. \A i \in UsedIds' : i < nextId'
    BY <1>b, <2>1, <2>2, <2>3
  <2>5. Live' \subseteq Live \cup {pend[c].id} /\ Live \subseteq UsedIds
    BY <1>a, <2>1 DEF Live, FreshInv, TypeOK, TableTypeOK
  <2>6. Live' \subseteq UsedIds'
    BY <2>1, <2>5
  <2>7. \A d \in Calls : pend'[d].kind = "insert" =>
           d # c /\ pend[d].kind = "insert" /\ pend'[d].id = pend[d].id
                 /\ pend[d].id # pend[c].id
    BY <1>2, <1>a, <2>2 DEF PendingInv
  <2>8. \A d \in Calls : pend'[d].kind = "insert" => pend'[d].id \notin UsedIds'
    BY <2>1, <2>7 DEF FreshInv
  <2> QED BY <2>4, <2>6, <2>8 DEF FreshInv
<1>3. ASSUME NEW c \in Calls, FlushWrite(c) PROVE UNCHANGED <<name, namer>>
  BY <1>3, FlushClaims
<1>4. ASSUME NEW c \in Calls, Rollback(c) PROVE UNCHANGED name
  BY <1>4 DEF Rollback
<1> QED BY <1>1, <1>2, <1>3, <1>4, CommitsNothing, TableSteps

-----------------------------------------------------------------------------
(* The refinement.                                                         *)

\* Once the response is out there is nothing left to do but the commit.
LEMMA AnsweredOnlyCommits ==
    ASSUME TypeOK, NEW c \in Calls, Own(c), pc[c] \in {"commit", "done"}
    PROVE  CommitWrite(c) \/ CommitFails(c) \/ AcknowledgementLost(c)
<1>1. ~RequestCreate(c) /\ ~RequestUpdate(c) /\ ~RequestDelete(c)
  BY DEF RequestCreate, RequestUpdate, RequestDelete, Request, Goto
<1>2. ~RequestPage(c) /\ ~PageHandler(c) /\ ~RequestList(c) /\ ~ListHandler(c)
  BY DEF RequestPage, PageHandler, Pages, PageRequest, RequestList, ListHandler,
         ListRequest, Request, Goto
<1>3. ~LoadRow(c) /\ ~CheckName(c) /\ ~FlushWrite(c) /\ ~Refresh(c) /\ ~Sweep(c)
  BY DEF LoadRow, CheckName, FlushWrite, Refresh, Sweep, Goto
<1>4. ~DropFound(c) /\ ~Reply(c) /\ ~LookUpTotal(c) /\ ~CountRows(c) /\ ~StoreTotal(c)
  BY DEF DropFound, Reply, LookUpTotal, CountRows, StoreTotal, Goto
<1>5. ~PageEnds(c) /\ ~ReadPage(c) /\ ~ListRows(c)
  BY DEF PageEnds, ReadPage, ListRows, Goto
<1>6. ~StatementFails(c) /\ ~InvalidationFails(c)
  BY DEF StatementFails, InvalidationFails
<1> QED BY <1>1, <1>2, <1>3, <1>4, <1>5, <1>6 DEF Own, Serve

\* Only Reply adds to the calls that have been answered.
LEMMA OnlyReplySends ==
    ASSUME NEW c \in Calls, Own(c), ~Reply(c)
    PROVE  sent' = sent
<1>1. CASE RequestCreate(c) \/ RequestUpdate(c) \/ RequestDelete(c)
  BY <1>1 DEF RequestCreate, RequestUpdate, RequestDelete, Request
<1>2. CASE RequestPage(c) \/ PageHandler(c) \/ RequestList(c) \/ ListHandler(c)
  BY <1>2 DEF RequestPage, PageHandler, Pages, PageRequest, RequestList, ListHandler,
              ListRequest, Request
<1>3. CASE LoadRow(c) \/ CheckName(c) \/ FlushWrite(c) \/ Refresh(c) \/ Sweep(c)
  BY <1>3 DEF LoadRow, CheckName, FlushWrite, Refresh, Sweep
<1>4. CASE DropFound(c) \/ CommitWrite(c) \/ LookUpTotal(c) \/ CountRows(c) \/ StoreTotal(c)
  BY <1>4 DEF DropFound, CommitWrite, Settle, LookUpTotal, CountRows, StoreTotal
<1>5. CASE PageEnds(c) \/ ReadPage(c) \/ ListRows(c)
  BY <1>5 DEF PageEnds, ReadPage, ListRows
<1>6. CASE StatementFails(c) \/ InvalidationFails(c) \/ CommitFails(c) \/ AcknowledgementLost(c)
  BY <1>6 DEF StatementFails, InvalidationFails, CommitFails,
              AcknowledgementLost, Settle
<1> QED BY <1>1, <1>2, <1>3, <1>4, <1>5, <1>6 DEF Own, Serve

\* A call that has been answered keeps its answer, whatever becomes of its
\* commit, and only Reply gives it one.
LEMMA AnswerKept ==
    ASSUME IInv, [Next]_vars, NEW c \in Calls, ~Reply(c)
    PROVE  Answered'[c] = Answered[c]
<1>a. TypeOK /\ CallInv(c)
  BY DEF IInv
<1>1. CASE Same(c)
  BY <1>1 DEF Same, Answered, Answer
<1>2. CASE Own(c) /\ c \notin sent
  BY <1>2, OnlyReplySends DEF Answered
<1>3. CASE Own(c) /\ c \in sent
  <2>1. pc[c] = "done" \/ (pc[c] = "commit" /\ Via[c] = "http")
    BY <1>a, <1>3 DEF CallInv
  <2>2. CommitWrite(c) \/ CommitFails(c) \/ AcknowledgementLost(c)
    BY <1>a, <1>3, <2>1, AnsweredOnlyCommits
  <2>3. Via[c] = "http"
    BY <2>1, <2>2 DEF CommitWrite, CommitFails, AcknowledgementLost, Settle, Goto
  <2>4. res'[c] = res[c] /\ sent' = sent
    BY <1>a, <2>2, <2>3 DEF CommitWrite, CommitFails, AcknowledgementLost, Settle, Result,
       FailedAnswer, TypeOK
  <2> QED BY <2>4 DEF Answered, Answer
<1> QED BY <1>a, <1>1, <1>2, <1>3, OwnOrSame

\* The answers as a function of the calls.
LEMMA AnsweredIs ==
    /\ \A c \in Calls : Answered[c] = IF c \in sent THEN Answer(c) ELSE "open"
    /\ (\A c \in Calls : Answered'[c] = Answered[c]) => Answered' = Answered
BY DEF Answered

\* Reply is the API's answer.
LEMMA ReplyAnswers ==
    ASSUME IInv, NEW c \in Calls, Reply(c), [Next]_vars
    PROVE  Api!Next
<1>a. TypeOK /\ CallInv(c)
  BY DEF IInv
<1>1. /\ pc[c] = "reply" /\ sent' = sent \cup {c} /\ UNCHANGED <<name, namer, committed, res>>
  BY DEF Reply, Goto, tableVars, ghostVars
<1>2. c \notin sent /\ res[c] # "none"
  BY <1>a, <1>1 DEF CallInv
<1>3. Answer(c) \in Api!Answers /\ Answered[c] = "open"
  BY <1>2 DEF Answer, Answered, Api!Answers
<1>4. Answered' = [Answered EXCEPT ![c] = Answer(c)]
  BY <1>1, <1>2 DEF Answered, Answer
<1>5. UsedIds' = UsedIds
  BY <1>1 DEF UsedIds
<1>6. Answer(c) = "refused" => c \notin committed
  BY <1>a DEF Answer, CallInv
<1>7. Answer(c) = "failed" /\ Via[c] = "http" => c \notin committed
  <2>1. res[c] \in Outcomes
    BY <1>a DEF TypeOK
  <2> QED BY <1>a, <1>2, <2>1 DEF Answer, CallInv, Outcomes
<1>8. Answer(c) = "ok" /\ Via[c] = "ws" /\ Op[c] = "create" => c \in committed
  BY <1>a, <1>1 DEF Answer, CallInv
<1>9. Api!Answer(c, Answer(c))
  BY <1>1, <1>3, <1>4, <1>5, <1>6, <1>7, <1>8 DEF Api!Answer
<1> QED BY <1>3, <1>9 DEF Api!Next

\* A commit is the API's write, or nothing.
LEMMA CommitIsWrite ==
    ASSUME IInv, KindInv, FreshInv, NEW c \in Calls, Settle(c), [Next]_vars
    PROVE  [Api!Next]_(Api!api)
<1>a. TypeOK /\ CallInv(c)
  BY DEF IInv
<1>b. pc[c] = "commit" /\ ~Reply(c)
  BY DEF Settle, Goto, Reply
<1>c. Answered' = Answered
  <2>1. \A d \in Calls \ {c} : ~Reply(d)
    BY <1>b, <1>a DEF Settle, Reply, Goto, TypeOK, Committed, Awaits
  <2> QED BY <1>b, <2>1, AnswerKept, AnsweredIs
<1>1. CASE pend[c].kind = "none"
  <2>1. UNCHANGED <<name, committed, namer>>
    BY <1>1, CommitsNothing
  <2>2. UsedIds' = UsedIds
    BY <2>1 DEF UsedIds
  <2> QED BY <1>c, <2>1, <2>2 DEF Api!api
<1>2. CASE pend[c].kind # "none"
  <2>1. c \notin committed
    BY <1>a, <1>b DEF CallInv
  <2>2. res[c] = "ok"
    BY <1>a, <1>b, <1>2 DEF CallInv
  <2>3. Answered[c] = "open" \/ (Answered[c] = "ok" /\ Via[c] = "http")
    BY <1>a, <1>b, <2>2 DEF Answered, Answer, CallInv, Refusals
  <2>4. /\ pend[c].id \in Ids
        /\ name' = [name EXCEPT ![pend[c].id] = pend[c].name]
        /\ committed' = committed \cup {c}
        /\ \/ /\ Op[c] = "create" /\ pend[c].id \in Ids \ UsedIds /\ pend[c].name \in Names
              /\ UsedIds' = UsedIds \cup {pend[c].id}
           \/ /\ Op[c] = "update" /\ pend[c].id \in Live /\ pend[c].name \in Names
              /\ UsedIds' = UsedIds
           \/ /\ Op[c] = "delete" /\ pend[c].id \in Live /\ pend[c].name = None
              /\ UsedIds' = UsedIds
    BY <1>2, CommitWrites
  <2>5. Api!Authors = Live
    BY DEF Api!Authors, Live
  <2>6. Api!Create(c) \/ Api!Update(c) \/ Api!Delete(c)
    BY <2>4, <2>5 DEF Api!Create, Api!Update, Api!Delete
  <2>7. Api!Write(c)
    BY <1>c, <2>1, <2>3, <2>4, <2>6 DEF Api!Write
  <2> QED BY <2>7 DEF Api!Next
<1> QED BY <1>1, <1>2

\* A step of the service is a step of the API or none.
LEMMA StepRefines ==
    ASSUME IInv, KindInv, FreshInv, [Next]_vars
    PROVE  [Api!Next]_(Api!api)
<1>1. CASE \E c \in Calls : Reply(c)
  BY <1>1, ReplyAnswers
<1>2. CASE \E c \in Calls : Settle(c)
  BY <1>2, CommitIsWrite
<1>3. CASE /\ \A c \in Calls : ~Reply(c)
           /\ \A c \in Calls : ~Settle(c)
  <2>1. Answered' = Answered
    BY <1>3, AnswerKept, AnsweredIs
  <2>2. UNCHANGED <<name, committed, namer>>
    <3>1. ASSUME NEW c \in Calls, FlushWrite(c) PROVE UNCHANGED <<name, committed, namer>>
      BY <3>1, FlushClaims
    <3>2. ASSUME NEW c \in Calls, Rollback(c) PROVE UNCHANGED name
      BY <3>2 DEF Rollback
    <3> QED BY <1>3, <3>1, <3>2, TableSteps
  <2>3. UsedIds' = UsedIds
    BY <2>2 DEF UsedIds
  <2> QED BY <2>1, <2>2, <2>3 DEF Api!api
<1> QED BY <1>1, <1>2, <1>3

\* The initial table is one of the API's.
LEMMA InitRefines == Init => KindInv /\ FreshInv /\ Api!Init
<1> SUFFICES ASSUME Init PROVE KindInv /\ FreshInv /\ Api!Init
  OBVIOUS
<1>1. /\ name \in [Ids -> Names \cup {None}] /\ Live = 1..InitialRows /\ nextId = InitialRows + 1
      /\ pend = [c \in Calls |-> NoWrite] /\ sent = {} /\ committed = {}
      /\ namer = [i \in Ids |-> None]
  BY DEF Init, TableInit
<1>2. Live = UsedIds /\ \A i \in UsedIds : i < nextId
  BY <1>1, BoundsAssumption DEF UsedIds, Ids
<1>3. \A c \in Calls : pend[c].kind = "none"
  BY <1>1 DEF NoWrite
<1>4. Answered = [c \in Calls |-> "open"]
  BY <1>1 DEF Answered
<1>5. Api!Authors = Live
  BY DEF Api!Authors, Live
<1> QED BY <1>1, <1>2, <1>3, <1>4, <1>5 DEF KindInv, FreshInv, Api!Init

\* The author service, with its sessions, flushes, rollbacks, late commits and
\* count cache, implements the API a client sees.
THEOREM Refinement == Spec => ImplementsAuthorApi
<1>1. IInv /\ KindInv /\ FreshInv /\ [Next]_vars => KindInv' /\ FreshInv'
  BY KindInductive, FreshInductive
<1>2. IInv /\ KindInv /\ FreshInv /\ [Next]_vars => [Api!Next]_(Api!api)
  BY StepRefines
<1>3. QED
  BY <1>1, <1>2, InitRefines, Invariance, PTL DEF Spec, ImplementsAuthorApi, Api!Spec
=============================================================================
