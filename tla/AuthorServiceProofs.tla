------------------------ MODULE AuthorServiceProofs ------------------------
(***************************************************************************)
(* Proofs about AuthorService for every set of calls, names and filters,   *)
(* every number of rows and every page size.                               *)
(*                                                                         *)
(* The invariant has six parts besides TypeOK: what a call may have come   *)
(* to at each await, the rows sessions have flushed, the names they are    *)
(* about to give, the cached totals, the counts on their way into the      *)
(* cache, and the scans.                                                   *)
(***************************************************************************)
EXTENDS AuthorService, FiniteSetTheorems, TLAPS

Reading == {"lookup", "count", "store", "data", "page", "list"}
Unchecked == {"idle", "load", "check"} \cup Reading
Unwritten == Unchecked \cup {"flush"}

\* Which calls get where, and what they have asked for.
RouteInv(c) ==
    /\ pc[c] = "load" => Op[c] \in {"update", "delete"}
    /\ pc[c] = "load" /\ Op[c] = "update" => arg[c].name \in Names
    /\ pc[c] \in {"load", "flush"} /\ Op[c] = "delete" => arg[c].name = None
    /\ pc[c] = "check" => Op[c] \in {"create", "update"}
    /\ pc[c] = "flush" => Op[c] \in {"create", "update", "delete"}
    /\ pc[c] \in {"check", "flush"} /\ Op[c] # "delete" => arg[c].name \in Names
    /\ pc[c] \in {"load", "check", "flush"} /\ Op[c] # "create" => arg[c].id \in Ids
    /\ pc[c] \in {"check", "flush"} /\ Op[c] = "create" => arg[c].id = 0
    /\ pc[c] = "refresh" => Op[c] \in {"create", "update"}
    /\ pc[c] \in {"sweep", "drop"} => Op[c] \in {"create", "delete"}
    /\ pc[c] \in {"lookup", "count", "store"} => arg[c].name \in Filters
    /\ pc[c] = "page" => Op[c] = "scan" /\ Accepted(PageSize)
    /\ pend[c].kind # "none" => Op[c] \in {"create", "update", "delete"}

\* What a call has come to.
CallInv(c) ==
    /\ pc[c] \in Unwritten => pend[c].kind = "none" /\ c \notin committed
    /\ pc[c] \in Unchecked => ruledOut[c] = {}
    /\ pc[c] \in Unwritten \cup {"refresh", "sweep"} => res[c] = "none" /\ inv[c] = "none"
    /\ inv[c] = "swept" <=> pc[c] = "drop"
    /\ pc[c] = "drop" \/ (pc[c] = "commit" /\ Via[c] = "ws") => res[c] = "ok"
    /\ pc[c] \in {"reply", "commit", "done"} => res[c] # "none"
    /\ res[c] \notin {"none", "ok"} => pend[c].kind = "none"
    /\ res[c] \in Refusals \cup {"dberror"} => c \notin committed
    /\ res[c] = "unsettled" => Via[c] = "ws" /\ pc[c] \in {"reply", "done"}
    /\ c \in committed => Op[c] \in {"create", "update", "delete"}
    /\ c \in committed => pc[c] = "done" \/ (pc[c] = "reply" /\ Via[c] = "ws")
    /\ c \in sent => pc[c] = "done" \/ (pc[c] = "commit" /\ Via[c] = "http")
    /\ Via[c] = "ws" /\ Op[c] = "create" =>
          /\ pc[c] \in {"refresh", "sweep", "drop", "commit"} => pend[c].kind # "none"
          /\ pc[c] \in {"reply", "done"} /\ res[c] = "ok" => c \in committed
    /\ (pend[c].kind # "none" /\ pc[c] \in {"reply", "commit"}) \/ c \in committed =>
          Op[c] = "update" \/ inv[c] \in {"done", "failed"}

\* The rows flushed and not committed: each session has a row of its own, an
\* insert one that is not there yet and an update one that is.
PendingInv ==
    /\ \A i \in Live : i < nextId
    /\ \A c \in Calls :
        /\ pend[c].kind = "insert" => /\ pend[c].id \in Ids \ Live /\ pend[c].id < nextId
                                      /\ pend[c].name \in Names
        /\ pend[c].kind = "update" => pend[c].id \in Live /\ pend[c].name \in Names
        /\ pend[c].kind = "delete" => pend[c].id \in Live /\ pend[c].name = None
    /\ \A c, d \in Calls : c # d /\ pend[c].kind # "none" /\ pend[d].kind # "none" =>
          pend[c].id # pend[d].id

\* A row other than i has the name n only from a call that c could not see.
Clear(c, n, i) ==
    \A j \in Live \ {i} : name[j] = n => namer[j] # None /\ namer[j] \notin ruledOut[c]

\* The name a call is about to give is clear of the others.
NameInv ==
    /\ \A i \in Ids : namer[i] # None => namer[i] \in committed
    /\ \A c \in Calls :
        /\ ruledOut[c] \subseteq committed
        /\ pc[c] = "flush" => Clear(c, arg[c].name, arg[c].id)
        /\ pend[c].kind # "none" => Clear(c, pend[c].name, pend[c].id)

\* A total that saw every committed write is right, and a write whose keys have
\* been looked for since is one that the entry came after, or will delete it.
TotalInv ==
    \A f \in Filters : Cached(f) =>
        /\ cache[f].saw \subseteq committed
        /\ committed \subseteq cache[f].saw => cache[f].count = Cardinality(Matching(f))
        /\ \A w \in Calls :
            /\ inv[w] = "done" => w \in cache[f].late
            /\ inv[w] = "swept" => w \in cache[f].late \/ f \in found[w]

\* The same of a total that has been counted and not been stored.
TallyInv ==
    \A c \in Calls : pc[c] = "store" =>
        /\ tally[c].saw \subseteq committed
        /\ committed \subseteq tally[c].saw =>
              tally[c].total = Cardinality(Matching(arg[c].name))

\* A scan has read, up to its cursor, the rows of its first page's time.
ScanInv(c) ==
    /\ \A i \in scan[c].base : i < nextId /\ \A d \in Calls :
          pend[d].kind = "insert" => pend[d].id # i
    /\ scan[c].sorted => /\ ~scan[c].twice
                         /\ \A i \in scan[c].got : i <= scan[c].last
                         /\ \A i \in scan[c].base \cap Live :
                               i <= scan[c].last => i \in scan[c].got
    /\ Op[c] = "scan" /\ res[c] = "ok" /\ scan[c].sorted =>
          scan[c].base \cap Live \subseteq scan[c].got

IInv ==
    /\ TypeOK
    /\ \A c \in Calls : RouteInv(c)
    /\ \A c \in Calls : CallInv(c)
    /\ PendingInv
    /\ NamesUniqueUnlessConcurrent /\ NameInv
    /\ TotalInv
    /\ TallyInv
    /\ \A c \in Calls : ScanInv(c)

-----------------------------------------------------------------------------
(* What a step may do to a call.                                           *)

\* The step is not one of c.
Same(c) ==
    /\ pc'[c] = pc[c] /\ arg'[c] = arg[c] /\ res'[c] = res[c] /\ inv'[c] = inv[c]
    /\ found'[c] = found[c] /\ tally'[c] = tally[c] /\ scan'[c] = scan[c]
    /\ pend'[c] = pend[c] /\ ruledOut'[c] = ruledOut[c]
    /\ c \in sent' <=> c \in sent
    /\ c \in committed' <=> c \in committed

Own(c) ==
    \/ RequestCreate(c) \/ RequestUpdate(c) \/ RequestDelete(c)
    \/ RequestPage(c) \/ PageHandler(c) \/ RequestList(c) \/ ListHandler(c)
    \/ Serve(c)
    \/ StatementFails(c) \/ InvalidationFails(c)
    \/ CommitFails(c) \/ AcknowledgementLost(c)

\* A step is one of a call, and leaves the other calls as they are; or a key of
\* the cache expires.
LEMMA StepOfCall ==
    ASSUME TypeOK, NEW c \in Calls, Own(c), NEW d \in Calls \ {c}
    PROVE  Same(d)
<1> USE DEF TypeOK, TableTypeOK, tableVars, ghostVars, Same
<1>1. CASE RequestCreate(c)
  BY <1>1 DEF RequestCreate, Request, Goto
<1>2. CASE RequestUpdate(c)
  BY <1>2 DEF RequestUpdate, Request, Goto
<1>3. CASE RequestDelete(c)
  BY <1>3 DEF RequestDelete, Request, Goto
<1>4. CASE RequestPage(c)
  BY <1>4 DEF RequestPage, Pages, PageRequest, Request, Goto
<1>5. CASE PageHandler(c)
  BY <1>5 DEF PageHandler, Pages, PageRequest, Request, Goto
<1>6. CASE RequestList(c)
  BY <1>6 DEF RequestList, ListRequest, Request, Goto
<1>7. CASE ListHandler(c)
  BY <1>7 DEF ListHandler, ListRequest, Request, Goto
<1>8. CASE LoadRow(c)
  BY <1>8 DEF LoadRow, Raise, Goto, Result
<1>9. CASE CheckName(c)
  BY <1>9 DEF CheckName, NameTaken, NameFree, Raise, Goto, Result
<1>10. CASE FlushWrite(c)
  BY <1>10 DEF FlushWrite, Insert, Rename, Remove, FlushInsert, FlushUpdate,
      FlushDelete, Flush, Raise, Goto, Result
<1>11. CASE Refresh(c)
  BY <1>11 DEF Refresh, Raise, Goto, Result
<1>12. CASE Sweep(c)
  BY <1>12 DEF Sweep, Goto, Result
<1>13. CASE DropFound(c)
  BY <1>13 DEF DropFound, Goto
<1>14. CASE Reply(c)
  BY <1>14 DEF Reply, Goto
<1>15. CASE CommitWrite(c) \/ AcknowledgementLost(c)
  BY <1>15 DEF CommitWrite, Settle, AcknowledgementLost, Commit, Goto, Result,
      FailedAnswer, Fault, Outcomes
<1>16. CASE LookUpTotal(c)
  BY <1>16 DEF LookUpTotal, Goto
<1>17. CASE CountRows(c)
  BY <1>17 DEF CountRows, Goto
<1>18. CASE StoreTotal(c)
  BY <1>18 DEF StoreTotal, Goto
<1>19. CASE PageEnds(c)
  BY <1>19 DEF PageEnds, Goto
<1>20. CASE ReadPage(c)
  BY <1>20 DEF ReadPage, Goto, Result
<1>21. CASE ListRows(c)
  BY <1>21 DEF ListRows, Goto
<1>22. CASE StatementFails(c)
  BY <1>22 DEF StatementFails, Raise, Rollback, Goto, Result
<1>23. CASE InvalidationFails(c)
  BY <1>23 DEF InvalidationFails, Goto, Result
<1>24. CASE CommitFails(c)
  BY <1>24 DEF CommitFails, Rollback, Result, Goto
<1> QED
  BY <1>1, <1>2, <1>3, <1>4, <1>5, <1>6, <1>7, <1>8, <1>9, <1>10, <1>11,
      <1>12, <1>13, <1>14, <1>15, <1>16, <1>17, <1>18, <1>19, <1>20, <1>21,
      <1>22, <1>23, <1>24 DEF Own, Serve

-----------------------------------------------------------------------------
(* Types.                                                                  *)

\* The rows of a filter can be counted.
LEMMA CountTyped == \A f : Cardinality(Matching(f)) \in Nat
<1> TAKE f
<1>1. IsFiniteSet(Ids)
  BY BoundsAssumption, FS_Interval DEF Ids
<1>2. Matching(f) \subseteq Ids
  BY DEF Matching, Live
<1> QED BY <1>1, <1>2, FS_Subset, FS_CardinalityType

\* Where a call goes is an await, and what it comes to an outcome.
LEMMA GotoTyped ==
    ASSUME TypeOK, NEW c \in Calls, NEW from, NEW to \in Awaits, Goto(c, from, to)
    PROVE  pc' \in [Calls -> Awaits]
BY DEF TypeOK, Goto

LEMMA ResultTyped ==
    ASSUME TypeOK, NEW c \in Calls, NEW r \in Outcomes, Result(c, r)
    PROVE  res' \in [Calls -> Outcomes]
BY DEF TypeOK, Result

\* A session flushes a row.
LEMMA FlushTyped ==
    ASSUME TypeOK, NEW c \in Calls, NEW kind \in {"insert", "update", "delete"},
           NEW i \in Nat, NEW n \in Names \cup {None}, Flush(c, kind, i, n)
    PROVE  pend' \in [Calls -> Writes] /\ UNCHANGED <<name, heaped>>
<1>1. [kind |-> kind, id |-> i, name |-> n] \in Writes
  BY DEF Writes
<1> QED BY <1>1 DEF Flush, TypeOK, TableTypeOK

\* A request arrives with an argument.
LEMMA RequestTyped ==
    ASSUME TypeOK, NEW c \in Calls, NEW ops, NEW to \in Awaits, NEW i \in Nat,
           NEW n \in Names \cup {None}, Request(c, ops, to, Arg(i, n))
    PROVE  TypeOK'
<1>1. Arg(i, n) \in Args
  BY DEF Arg, Args
<1> QED
  BY <1>1 DEF Request, Goto, TypeOK, TableTypeOK, CacheTypeOK, tableVars, ghostVars

\* Every step preserves the types.
LEMMA TypeInductive ==
    ASSUME TypeOK, [Next]_vars
    PROVE  TypeOK'
<1> USE NoneAssumption, BoundsAssumption, CallsAssumption DEF tableVars, ghostVars, Refusals
<1>1. ASSUME NEW c \in Calls, Own(c) PROVE TypeOK'
  <2>1. CASE RequestCreate(c)
    BY <1>1, <2>1, RequestTyped DEF RequestCreate, Ids, Awaits
  <2>2. CASE RequestUpdate(c)
    BY <1>1, <2>2, RequestTyped DEF RequestUpdate, Ids, Awaits
  <2>3. CASE RequestDelete(c)
    BY <1>1, <2>3, RequestTyped DEF RequestDelete, Ids, Awaits
  <2>4. CASE RequestPage(c)
    BY <1>1, <2>4, RequestTyped DEF RequestPage, Pages, PageRequest, Strategy,
        NoArg, Ids, Awaits
  <2>5. CASE PageHandler(c)
    BY <1>1, <2>5, RequestTyped DEF PageHandler, Pages, PageRequest, Strategy,
        NoArg, Ids, Awaits
  <2>6. CASE RequestList(c)
    BY <1>1, <2>6, RequestTyped DEF RequestList, ListRequest, NoArg, Ids,
        Awaits
  <2>7. CASE ListHandler(c)
    BY <1>1, <2>7, RequestTyped DEF ListHandler, ListRequest, NoArg, Ids,
        Awaits
  <2>8. CASE LoadRow(c)
    <3>1. pc' \in [Calls -> Awaits]
      BY <1>1, <2>8, GotoTyped DEF LoadRow, Raise, Awaits
    <3>2. res' \in [Calls -> Outcomes]
      BY <1>1, <2>8, ResultTyped DEF LoadRow, Raise, TypeOK, Outcomes
    <3>3. arg' \in [Calls -> Args]
      <4>1. arg[c].id \in Live => name[arg[c].id] \in Names \cup {None}
        BY <1>1 DEF TypeOK, TableTypeOK, Live
      <4> DEFINE n == name[arg[c].id]
      <4>a. arg[c] \in Args
        BY <1>1 DEF TypeOK
      <4>b. [arg[c] EXCEPT !.old = n] = [id |-> arg[c].id, name |-> arg[c].name, old |-> n]
        BY <4>a DEF Args
      <4>2. arg[c].id \in Live => [arg[c] EXCEPT !.old = n] \in Args
        BY <4>a, <4>b, <4>1 DEF Args
      <4>3. \/ arg' = arg
            \/ arg[c].id \in Live /\ arg' = [arg EXCEPT ![c].old = name[arg[c].id]]
        BY <2>8 DEF LoadRow
      <4> QED BY <1>1, <4>2, <4>3 DEF TypeOK
    <3> QED BY <1>1, <2>8, <3>1, <3>2, <3>3 DEF LoadRow, Raise, Goto, Result,
        TypeOK, TableTypeOK, CacheTypeOK, Live
  <2>9. CASE CheckName(c)
    <3>1. pc' \in [Calls -> Awaits]
      BY <1>1, <2>9, GotoTyped DEF CheckName, NameTaken, NameFree, Raise,
          Awaits
    <3>2. res' \in [Calls -> Outcomes]
      BY <1>1, <2>9, ResultTyped DEF CheckName, NameTaken, NameFree, Raise,
          TypeOK, Outcomes
    <3>3. arg' \in [Calls -> Args]
      BY <1>1, <2>9 DEF CheckName, TypeOK
    <3> QED BY <1>1, <2>9, <3>1, <3>2, <3>3 DEF CheckName, NameTaken,
        NameFree, Raise, Goto, Result, TypeOK, TableTypeOK, CacheTypeOK
  <2>10. CASE FlushWrite(c)
    <3>1. pc' \in [Calls -> Awaits]
      BY <1>1, <2>10, GotoTyped DEF FlushWrite, Insert, Rename, Remove, Raise,
          Awaits
    <3>2. res' \in [Calls -> Outcomes]
      BY <1>1, <2>10, ResultTyped DEF FlushWrite, Insert, Rename, Remove,
          Raise, TypeOK, Outcomes
    <3>3. arg' \in [Calls -> Args]
      BY <1>1, <2>10 DEF FlushWrite, TypeOK
    <3>4. TableTypeOK'
      <4>1. arg[c].id \in Nat /\ arg[c].name \in Names \cup {None}
        BY <1>1 DEF TypeOK, Args
      <4>2. CASE Insert(c)
        BY <1>1, <4>1, <4>2, FlushTyped DEF Insert, FlushInsert, TypeOK, TableTypeOK
      <4>3. CASE Rename(c)
        BY <1>1, <4>1, <4>3, FlushTyped DEF Rename, FlushUpdate, TypeOK, TableTypeOK
      <4>4. CASE Remove(c)
        BY <1>1, <4>1, <4>4, FlushTyped DEF Remove, FlushDelete, TypeOK, TableTypeOK
      <4> QED BY <2>10, <4>2, <4>3, <4>4 DEF FlushWrite
    <3> QED BY <1>1, <2>10, <3>1, <3>2, <3>3, <3>4 DEF FlushWrite, TypeOK, CacheTypeOK
  <2>11. CASE Refresh(c)
    <3>1. pc' \in [Calls -> Awaits]
      BY <1>1, <2>11, GotoTyped DEF Refresh, Raise, Returned, Awaits
    <3>2. res' \in [Calls -> Outcomes]
      BY <1>1, <2>11, ResultTyped DEF Refresh, Raise, Returned, TypeOK,
          Outcomes
    <3>3. arg' \in [Calls -> Args]
      BY <1>1, <2>11 DEF Refresh, TypeOK
    <3> QED BY <1>1, <2>11, <3>1, <3>2, <3>3 DEF Refresh, Raise, Returned,
        Goto, Result, TypeOK, TableTypeOK, CacheTypeOK
  <2>12. CASE Sweep(c)
    BY <1>1, <2>12 DEF Sweep, Returned, Found, Goto, Result, TypeOK,
        TableTypeOK, CacheTypeOK, Awaits, Outcomes, Args
  <2>13. CASE DropFound(c)
    BY <1>1, <2>13 DEF DropFound, Returned, Drop, Goto, TypeOK, TableTypeOK,
        CacheTypeOK, Awaits, Outcomes, Args, Entries, NoEntry
  <2>14. CASE Reply(c)
    BY <1>1, <2>14 DEF Reply, Goto, Arg, NoArg, TypeOK, TableTypeOK,
        CacheTypeOK, Awaits, Outcomes, Args
  <2>15. CASE CommitWrite(c) \/ AcknowledgementLost(c)
    <3>1. Settle(c)
      BY <2>15 DEF CommitWrite, AcknowledgementLost
    <3>2. res' \in [Calls -> Outcomes] /\ faults' \in Nat
      <4>1. FailedAnswer(c) \in Outcomes
        BY <1>1 DEF FailedAnswer, TypeOK, Outcomes
      <4> QED BY <1>1, <2>15, <4>1, ResultTyped
          DEF CommitWrite, AcknowledgementLost, Fault, TypeOK
    <3>3. TableTypeOK' /\ committed' \in SUBSET Calls /\ namer' \in [Ids -> Calls \cup {None}]
      BY <1>1, <3>1 DEF Settle, Commit, NoWrite, TypeOK, TableTypeOK, Writes, Ids
    <3>4. pc' \in [Calls -> Awaits]
      BY <1>1, <3>1, GotoTyped DEF Settle, Committed, Awaits
    <3> QED BY <1>1, <3>1, <3>2, <3>3, <3>4 DEF Settle, TypeOK, CacheTypeOK
  <2>16. CASE LookUpTotal(c)
    <3>1. pc' \in [Calls -> Awaits]
      BY <1>1, <2>16, GotoTyped DEF LookUpTotal, Awaits
    <3>2. res' \in [Calls -> Outcomes]
      BY <1>1, <2>16 DEF LookUpTotal, TypeOK
    <3>3. arg' \in [Calls -> Args]
      BY <1>1, <2>16 DEF LookUpTotal, TypeOK
    <3> QED BY <1>1, <2>16, <3>1, <3>2, <3>3 DEF LookUpTotal, Goto, Fault,
        TypeOK, TableTypeOK, CacheTypeOK
  <2>17. CASE CountRows(c)
    BY <1>1, <2>17, CountTyped DEF CountRows, Goto, TypeOK, TableTypeOK,
        CacheTypeOK, Awaits, Outcomes, Args
  <2>18. CASE StoreTotal(c)
    <3>1. pc' \in [Calls -> Awaits]
      BY <1>1, <2>18, GotoTyped DEF StoreTotal, Awaits
    <3>2. res' \in [Calls -> Outcomes]
      BY <1>1, <2>18 DEF StoreTotal, TypeOK
    <3>3. arg' \in [Calls -> Args]
      BY <1>1, <2>18 DEF StoreTotal, TypeOK
    <3>4. CacheTypeOK'
      <4>1. tally[c] \in [total : Nat, saw : SUBSET Calls]
        BY <1>1 DEF TypeOK
      <4>2. [count |-> tally[c].total, saw |-> tally[c].saw,
             late |-> {w \in Calls : inv[w] # "none"}, set |-> TRUE, ttl |-> TRUE] \in Entries
        BY <4>1 DEF Entries
      <4> QED BY <1>1, <2>18, <4>2 DEF StoreTotal, Put, TypeOK, CacheTypeOK
    <3>5. tally' \in [Calls -> [total : Nat, saw : SUBSET Calls]] /\ faults' \in Nat
      BY <1>1, <2>18 DEF StoreTotal, Fault, NoTally, TypeOK
    <3> QED BY <1>1, <2>18, <3>1, <3>2, <3>3, <3>4, <3>5 DEF StoreTotal, TypeOK, TableTypeOK
  <2>19. CASE PageEnds(c)
    <3>1. pc' \in [Calls -> Awaits]
      BY <1>1, <2>19, GotoTyped DEF PageEnds, Awaits
    <3>2. res' \in [Calls -> Outcomes]
      BY <1>1, <2>19 DEF PageEnds, TypeOK
    <3>3. arg' \in [Calls -> Args]
      BY <1>1, <2>19 DEF PageEnds, Arg, NoArg, Args, TypeOK
    <3> QED BY <1>1, <2>19, <3>1, <3>2, <3>3 DEF PageEnds, Goto, Fault, Arg,
        NoArg, TypeOK, TableTypeOK, CacheTypeOK
  <2>20. CASE ReadPage(c)
    <3> DEFINE Scans == [last : Nat, got : SUBSET Ids, base : SUBSET Ids,
                         twice : BOOLEAN, sorted : BOOLEAN]
    <3>1. scan \in [Calls -> Scans] /\ scan[c] \in Scans
      BY <1>1 DEF TypeOK
    <3>2. \A S \in SUBSET After(c), last \in 0..MaxId, b \in BOOLEAN :
             [last |-> last, got |-> scan[c].got \cup S,
              base |-> IF scan[c].last = 0 THEN Live ELSE scan[c].base,
              twice |-> scan[c].twice \/ scan[c].got \cap S # {},
              sorted |-> scan[c].sorted /\ b] \in Scans
      BY <3>1 DEF After, Live
    <3>3. scan' \in [Calls -> Scans]
      <4>1. PICK S \in SUBSET After(c), last \in 0..MaxId :
               scan' = [scan EXCEPT ![c] =
                  [last |-> last, got |-> scan[c].got \cup S,
                   base |-> IF scan[c].last = 0 THEN Live ELSE scan[c].base,
                   twice |-> scan[c].twice \/ scan[c].got \cap S # {},
                   sorted |-> scan[c].sorted /\ (Least(S, After(c)) /\ \A i \in S : i <= last)]]
        BY <2>20 DEF ReadPage
      <4>2. (Least(S, After(c)) /\ \A i \in S : i <= last) \in BOOLEAN
        BY DEF Least
      <4> HIDE DEF Scans
      <4> QED BY <1>1, <3>1, <3>2, <4>1, <4>2
    <3>4. pc' \in [Calls -> Awaits]
      BY <1>1, <2>20, GotoTyped DEF ReadPage, Awaits
    <3>5. res' \in [Calls -> Outcomes]
      BY <1>1, <2>20, ResultTyped DEF ReadPage, Outcomes
    <3> QED BY <1>1, <2>20, <3>3, <3>4, <3>5 DEF ReadPage, TypeOK, TableTypeOK, CacheTypeOK
  <2>21. CASE ListRows(c)
    BY <1>1, <2>21 DEF ListRows, Goto, TypeOK, TableTypeOK, CacheTypeOK,
        Awaits, Outcomes, Args
  <2>22. CASE StatementFails(c)
    BY <1>1, <2>22 DEF StatementFails, Raise, Rollback, Fault, Goto, Result,
        NoWrite, TypeOK, TableTypeOK, CacheTypeOK, Awaits, Outcomes, Args,
        Writes
  <2>23. CASE InvalidationFails(c)
    BY <1>1, <2>23 DEF InvalidationFails, Returned, Fault, Goto, Result,
        TypeOK, TableTypeOK, CacheTypeOK, Awaits, Outcomes, Args
  <2>24. CASE CommitFails(c)
    BY <1>1, <2>24 DEF CommitFails, Committed, Rollback, Result, FailedAnswer,
        Fault, Goto, NoWrite, TypeOK, TableTypeOK, CacheTypeOK, Awaits,
        Outcomes, Args, Writes
  <2> QED
    BY <1>1, <2>1, <2>2, <2>3, <2>4, <2>5, <2>6, <2>7, <2>8, <2>9, <2>10,
        <2>11, <2>12, <2>13, <2>14, <2>15, <2>16, <2>17, <2>18, <2>19, <2>20,
        <2>21, <2>22, <2>23, <2>24 DEF Own, Serve
<1>2. ASSUME NEW f \in Filters, TotalExpires(f) PROVE TypeOK'
  BY <1>2 DEF TotalExpires, Lapse, Entries, NoEntry, TypeOK, TableTypeOK, CacheTypeOK
<1>3. CASE UNCHANGED vars
  BY <1>3 DEF vars, TypeOK, TableTypeOK, CacheTypeOK
<1> QED BY <1>1, <1>2, <1>3 DEF Next, Own

\* Of any call a step is its own or leaves it alone.
LEMMA OwnOrSame ==
    ASSUME TypeOK, [Next]_vars, NEW c \in Calls
    PROVE  Own(c) \/ Same(c)
<1>1. CASE \E d \in Calls : Own(d)
  BY <1>1, StepOfCall
<1>2. CASE \E f \in Filters : TotalExpires(f)
  BY <1>2 DEF TotalExpires, Same, tableVars, ghostVars
<1>3. CASE UNCHANGED vars
  BY <1>3 DEF vars, Same, tableVars
<1> QED BY <1>1, <1>2, <1>3 DEF Next, Own

-----------------------------------------------------------------------------
(* The calls.                                                              *)

\* Calls keep to the awaits of their operation.
LEMMA RouteInductive ==
    ASSUME IInv, [Next]_vars, NEW c \in Calls
    PROVE  RouteInv(c)'
<1>a. TypeOK /\ RouteInv(c) /\ CallInv(c)
  BY DEF IInv
<1>b. pend[c] \in Writes /\ arg[c] \in Args
  BY <1>a DEF TypeOK, TableTypeOK
<1> USE NoneAssumption, CallsAssumption
<1>1. CASE Same(c)
  BY <1>a, <1>1 DEF Same, RouteInv
<1>2. CASE RequestCreate(c)
  BY <1>a, <1>b, <1>2 DEF RequestCreate, Request, Goto, Arg, TypeOK, RouteInv,
      tableVars, ghostVars
<1>3. CASE RequestUpdate(c)
  BY <1>a, <1>b, <1>3 DEF RequestUpdate, Request, Goto, Arg, TypeOK, RouteInv,
      tableVars, ghostVars
<1>4. CASE RequestDelete(c)
  BY <1>a, <1>b, <1>4 DEF RequestDelete, Request, Goto, Arg, TypeOK, RouteInv,
      tableVars, ghostVars
<1>5. CASE RequestPage(c)
  <2>1. Strategy("") = "cursor"
    BY CursorAssumption DEF Strategy
  <2>2. Strategy(None) = "offset"
    BY DEF Strategy
  <2>3. \/ Request(c, {"scan"}, "page", NoArg) /\ Accepted(PageSize)
        \/ \E f \in Filters : Request(c, {"page"}, "lookup", Arg(0, f))
    BY <1>5, <2>1, <2>2 DEF RequestPage, PageHandler, Pages, PageRequest
  <2>4. CASE Request(c, {"scan"}, "page", NoArg) /\ Accepted(PageSize)
    BY <1>a, <2>4 DEF Request, Goto, TypeOK, RouteInv, tableVars
  <2>5. ASSUME NEW f \in Filters, Request(c, {"page"}, "lookup", Arg(0, f))
        PROVE  RouteInv(c)'
    <3>1. Arg(0, f).name = f
      BY DEF Arg
    <3>2. arg'[c].name \in Filters /\ pc'[c] = "lookup" /\ UNCHANGED pend
      BY <1>a, <2>5, <3>1 DEF Request, Goto, TypeOK, tableVars
    <3> QED BY <1>a, <3>2 DEF RouteInv
  <2> QED BY <2>3, <2>4, <2>5
<1>6. CASE PageHandler(c)
  <2>1. Strategy("") = "cursor"
    BY CursorAssumption DEF Strategy
  <2>2. Strategy(None) = "offset"
    BY DEF Strategy
  <2>3. \/ Request(c, {"scan"}, "page", NoArg) /\ Accepted(PageSize)
        \/ \E f \in Filters : Request(c, {"page"}, "lookup", Arg(0, f))
    BY <1>6, <2>1, <2>2 DEF RequestPage, PageHandler, Pages, PageRequest
  <2>4. CASE Request(c, {"scan"}, "page", NoArg) /\ Accepted(PageSize)
    BY <1>a, <2>4 DEF Request, Goto, TypeOK, RouteInv, tableVars
  <2>5. ASSUME NEW f \in Filters, Request(c, {"page"}, "lookup", Arg(0, f))
        PROVE  RouteInv(c)'
    <3>1. Arg(0, f).name = f
      BY DEF Arg
    <3>2. arg'[c].name \in Filters /\ pc'[c] = "lookup" /\ UNCHANGED pend
      BY <1>a, <2>5, <3>1 DEF Request, Goto, TypeOK, tableVars
    <3> QED BY <1>a, <3>2 DEF RouteInv
  <2> QED BY <2>3, <2>4, <2>5
<1>7. CASE RequestList(c)
  BY <1>a, <1>b, <1>7 DEF RequestList, ListRequest, Request, Goto, Arg, NoArg,
      TypeOK, RouteInv, tableVars, ghostVars
<1>8. CASE ListHandler(c)
  BY <1>a, <1>b, <1>8 DEF ListHandler, ListRequest, Request, Goto, Arg, NoArg,
      TypeOK, RouteInv, tableVars, ghostVars
<1>9. CASE LoadRow(c)
  <2>1. arg'[c].name = arg[c].name /\ arg'[c].id = arg[c].id /\ UNCHANGED pend
    <3>1. arg[c].id \in Live /\ arg' = [arg EXCEPT ![c].old = name[arg[c].id]] =>
             arg'[c] = [arg[c] EXCEPT !.old = name[arg[c].id]]
      BY <1>a DEF TypeOK
    <3>2. \A x : /\ [arg[c] EXCEPT !.old = x].name = arg[c].name
                /\ [arg[c] EXCEPT !.old = x].id = arg[c].id
      BY <1>b DEF Args
    <3> QED BY <3>1, <3>2, <1>9 DEF LoadRow, tableVars
  <2>2. /\ pc[c] = "load"
        /\ \/ pc'[c] = "reply"
           \/ pc'[c] = "check" /\ Op[c] = "update"
           \/ pc'[c] = "flush" /\ Op[c] # "update"
    BY <1>a, <1>9 DEF LoadRow, Raise, Goto, TypeOK
  <2> QED BY <1>a, <2>1, <2>2 DEF RouteInv
<1>10. CASE CheckName(c)
  BY <1>a, <1>b, <1>10 DEF CheckName, NameTaken, NameFree, Raise, Goto,
      Result, TypeOK, RouteInv, tableVars, ghostVars
<1>11. CASE FlushWrite(c)
  BY <1>a, <1>b, <1>11 DEF FlushWrite, Insert, Rename, Remove, FlushInsert,
      FlushUpdate, FlushDelete, Flush, RowGone, Raise, Goto, Result, TypeOK,
      RouteInv, tableVars, ghostVars, TableTypeOK
<1>12. CASE Refresh(c)
  BY <1>a, <1>b, <1>12 DEF Refresh, Raise, Returned, Goto, Result, TypeOK,
      RouteInv, tableVars, ghostVars
<1>13. CASE Sweep(c)
  BY <1>a, <1>b, <1>13 DEF Sweep, Returned, Found, Goto, Result, TypeOK,
      RouteInv, tableVars, ghostVars
<1>14. CASE DropFound(c)
  BY <1>a, <1>b, <1>14 DEF DropFound, Returned, Drop, Goto, TypeOK, RouteInv,
      tableVars, ghostVars
<1>15. CASE Reply(c)
  BY <1>a, <1>b, <1>15 DEF Reply, Goto, Arg, NoArg, TypeOK, RouteInv,
      tableVars, ghostVars
<1>16. CASE CommitWrite(c) \/ AcknowledgementLost(c)
  BY <1>a, <1>b, <1>16 DEF CommitWrite, Settle, AcknowledgementLost, Commit,
      Committed, Goto, NoWrite, TypeOK, RouteInv, tableVars, ghostVars,
      TableTypeOK, Result, FailedAnswer, Fault, Outcomes
<1>17. CASE LookUpTotal(c)
  BY <1>a, <1>b, <1>17 DEF LookUpTotal, Goto, Fault, TypeOK, RouteInv,
      tableVars, ghostVars
<1>18. CASE CountRows(c)
  BY <1>a, <1>b, <1>18 DEF CountRows, Goto, TypeOK, RouteInv, tableVars,
      ghostVars
<1>19. CASE StoreTotal(c)
  BY <1>a, <1>b, <1>19 DEF StoreTotal, Put, Fault, Goto, NoTally, TypeOK,
      RouteInv, tableVars, ghostVars
<1>20. CASE PageEnds(c)
  BY <1>a, <1>b, <1>20 DEF PageEnds, Goto, Fault, Arg, NoArg, TypeOK,
      RouteInv, tableVars, ghostVars
<1>21. CASE ReadPage(c)
  BY <1>a, <1>b, <1>21 DEF ReadPage, Goto, Result, TypeOK, RouteInv,
      tableVars, ghostVars
<1>22. CASE ListRows(c)
  BY <1>a, <1>b, <1>22 DEF ListRows, Goto, TypeOK, RouteInv, tableVars,
      ghostVars
<1>23. CASE StatementFails(c)
  BY <1>a, <1>b, <1>23 DEF StatementFails, Raise, Rollback, Fault, Goto,
      Result, NoWrite, TypeOK, RouteInv, tableVars, ghostVars, TableTypeOK
<1>24. CASE InvalidationFails(c)
  BY <1>a, <1>b, <1>24 DEF InvalidationFails, Returned, Fault, Goto, Result,
      TypeOK, RouteInv, tableVars, ghostVars
<1>25. CASE CommitFails(c)
  BY <1>a, <1>b, <1>25 DEF CommitFails, Committed, Rollback, Result,
      FailedAnswer, Fault, Goto, NoWrite, TypeOK, RouteInv, tableVars,
      ghostVars, TableTypeOK
<1> QED
  BY <1>a, OwnOrSame, <1>1, <1>2, <1>3, <1>4, <1>5, <1>6, <1>7, <1>8, <1>9,
      <1>10, <1>11, <1>12, <1>13, <1>14, <1>15, <1>16, <1>17, <1>18, <1>19,
      <1>20, <1>21, <1>22, <1>23, <1>24, <1>25 DEF Own, Serve

\* What a call has come to agrees with what it has done.
LEMMA CallInductive ==
    ASSUME IInv, [Next]_vars, NEW c \in Calls
    PROVE  CallInv(c)'
<1> USE DEF Refusals
<1>a. TypeOK /\ RouteInv(c) /\ CallInv(c)
  BY DEF IInv
<1>b. pend[c] \in Writes /\ arg[c] \in Args
  BY <1>a DEF TypeOK, TableTypeOK
<1> USE NoneAssumption, CallsAssumption
<1>1. CASE Same(c)
  BY <1>a, <1>1 DEF Same, CallInv
<1>2. CASE RequestCreate(c)
  BY <1>a, <1>b, <1>2 DEF RequestCreate, Request, Goto, Arg, TypeOK, CallInv,
      tableVars, ghostVars, RouteInv, Unchecked, Unwritten, Reading
<1>3. CASE RequestUpdate(c)
  BY <1>a, <1>b, <1>3 DEF RequestUpdate, Request, Goto, Arg, TypeOK, CallInv,
      tableVars, ghostVars, RouteInv, Unchecked, Unwritten, Reading
<1>4. CASE RequestDelete(c)
  BY <1>a, <1>b, <1>4 DEF RequestDelete, Request, Goto, Arg, TypeOK, CallInv,
      tableVars, ghostVars, RouteInv, Unchecked, Unwritten, Reading
<1>5. CASE RequestPage(c)
  BY <1>a, <1>b, <1>5 DEF RequestPage, Pages, PageRequest, Strategy, Request,
      Goto, Arg, NoArg, TypeOK, CallInv, tableVars, ghostVars, RouteInv,
      Unchecked, Unwritten, Reading
<1>6. CASE PageHandler(c)
  BY <1>a, <1>b, <1>6 DEF PageHandler, Pages, PageRequest, Strategy, Request,
      Goto, Arg, NoArg, TypeOK, CallInv, tableVars, ghostVars, RouteInv,
      Unchecked, Unwritten, Reading
<1>7. CASE RequestList(c)
  BY <1>a, <1>b, <1>7 DEF RequestList, ListRequest, Request, Goto, Arg, NoArg,
      TypeOK, CallInv, tableVars, ghostVars, RouteInv, Unchecked, Unwritten,
      Reading
<1>8. CASE ListHandler(c)
  BY <1>a, <1>b, <1>8 DEF ListHandler, ListRequest, Request, Goto, Arg, NoArg,
      TypeOK, CallInv, tableVars, ghostVars, RouteInv, Unchecked, Unwritten,
      Reading
<1>9. CASE LoadRow(c)
  BY <1>a, <1>b, <1>9 DEF LoadRow, Raise, Goto, Result, TypeOK, CallInv,
      tableVars, ghostVars, RouteInv, Unchecked, Unwritten, Reading
<1>10. CASE CheckName(c)
  BY <1>a, <1>b, <1>10 DEF CheckName, NameTaken, NameFree, Raise, Goto,
      Result, TypeOK, CallInv, tableVars, ghostVars, RouteInv, Unchecked,
      Unwritten, Reading
<1>11. CASE FlushWrite(c)
  BY <1>a, <1>b, <1>11 DEF FlushWrite, Insert, Rename, Remove, FlushInsert,
      FlushUpdate, FlushDelete, Flush, RowGone, Raise, Goto, Result, TypeOK,
      CallInv, tableVars, ghostVars, RouteInv, Unchecked, Unwritten, Reading,
      TableTypeOK
<1>12. CASE Refresh(c)
  BY <1>a, <1>b, <1>12 DEF Refresh, Raise, Returned, Goto, Result, TypeOK,
      CallInv, tableVars, ghostVars, RouteInv, Unchecked, Unwritten, Reading
<1>13. CASE Sweep(c)
  BY <1>a, <1>b, <1>13 DEF Sweep, Returned, Found, Goto, Result, TypeOK,
      CallInv, tableVars, ghostVars, RouteInv, Unchecked, Unwritten, Reading
<1>14. CASE DropFound(c)
  BY <1>a, <1>b, <1>14 DEF DropFound, Returned, Drop, Goto, TypeOK, CallInv,
      tableVars, ghostVars, RouteInv, Unchecked, Unwritten, Reading
<1>15. CASE Reply(c)
  BY <1>a, <1>b, <1>15 DEF Reply, Goto, Arg, NoArg, TypeOK, CallInv,
      tableVars, ghostVars, RouteInv, Unchecked, Unwritten, Reading
<1>16. CASE CommitWrite(c) \/ AcknowledgementLost(c)
  BY <1>a, <1>b, <1>16 DEF CommitWrite, Settle, AcknowledgementLost, Commit,
      Committed, Goto, NoWrite, TypeOK, CallInv, tableVars, ghostVars, RouteInv,
      Unchecked, Unwritten, Reading, TableTypeOK, Result, FailedAnswer, Fault,
      Outcomes
<1>17. CASE LookUpTotal(c)
  BY <1>a, <1>b, <1>17 DEF LookUpTotal, Goto, Fault, TypeOK, CallInv,
      tableVars, ghostVars, RouteInv, Unchecked, Unwritten, Reading
<1>18. CASE CountRows(c)
  BY <1>a, <1>b, <1>18 DEF CountRows, Goto, TypeOK, CallInv, tableVars,
      ghostVars, RouteInv, Unchecked, Unwritten, Reading
<1>19. CASE StoreTotal(c)
  BY <1>a, <1>b, <1>19 DEF StoreTotal, Put, Fault, Goto, NoTally, TypeOK,
      CallInv, tableVars, ghostVars, RouteInv, Unchecked, Unwritten, Reading
<1>20. CASE PageEnds(c)
  BY <1>a, <1>b, <1>20 DEF PageEnds, Goto, Fault, Arg, NoArg, TypeOK, CallInv,
      tableVars, ghostVars, RouteInv, Unchecked, Unwritten, Reading
<1>21. CASE ReadPage(c)
  BY <1>a, <1>b, <1>21 DEF ReadPage, Goto, Result, TypeOK, CallInv, tableVars,
      ghostVars, RouteInv, Unchecked, Unwritten, Reading
<1>22. CASE ListRows(c)
  BY <1>a, <1>b, <1>22 DEF ListRows, Goto, TypeOK, CallInv, tableVars,
      ghostVars, RouteInv, Unchecked, Unwritten, Reading
<1>23. CASE StatementFails(c)
  BY <1>a, <1>b, <1>23 DEF StatementFails, Raise, Rollback, Fault, Goto,
      Result, NoWrite, TypeOK, CallInv, tableVars, ghostVars, RouteInv,
      Unchecked, Unwritten, Reading, TableTypeOK
<1>24. CASE InvalidationFails(c)
  BY <1>a, <1>b, <1>24 DEF InvalidationFails, Returned, Fault, Goto, Result,
      TypeOK, CallInv, tableVars, ghostVars, RouteInv, Unchecked, Unwritten,
      Reading
<1>25. CASE CommitFails(c)
  BY <1>a, <1>b, <1>25 DEF CommitFails, Committed, Rollback, Result,
      FailedAnswer, Fault, Goto, NoWrite, TypeOK, CallInv, tableVars,
      ghostVars, RouteInv, Unchecked, Unwritten, Reading, TableTypeOK
<1> QED
  BY <1>a, OwnOrSame, <1>1, <1>2, <1>3, <1>4, <1>5, <1>6, <1>7, <1>8, <1>9,
      <1>10, <1>11, <1>12, <1>13, <1>14, <1>15, <1>16, <1>17, <1>18, <1>19,
      <1>20, <1>21, <1>22, <1>23, <1>24, <1>25 DEF Own, Serve

-----------------------------------------------------------------------------
(* The table.                                                              *)

\* A step leaves the table alone, flushes a row, rolls one back or commits.
LEMMA TableSteps ==
    ASSUME [Next]_vars
    PROVE  \/ UNCHANGED <<name, nextId, pend, committed, namer>>
           \/ \E c \in Calls : FlushWrite(c)
           \/ \E c \in Calls : Rollback(c) /\ UNCHANGED <<committed, namer>>
           \/ \E c \in Calls : Settle(c)
<1> USE DEF tableVars, ghostVars
<1>1. ASSUME NEW c \in Calls, Own(c)
      PROVE  \/ UNCHANGED <<name, nextId, pend, committed, namer>>
             \/ FlushWrite(c) \/ Settle(c)
             \/ Rollback(c) /\ UNCHANGED <<committed, namer>>
  <2>1. CASE RequestCreate(c)
    BY <2>1 DEF RequestCreate, Request
  <2>2. CASE RequestUpdate(c)
    BY <2>2 DEF RequestUpdate, Request
  <2>3. CASE RequestDelete(c)
    BY <2>3 DEF RequestDelete, Request
  <2>4. CASE RequestPage(c)
    BY <2>4 DEF RequestPage, Pages, PageRequest, Request
  <2>5. CASE PageHandler(c)
    BY <2>5 DEF PageHandler, Pages, PageRequest, Request
  <2>6. CASE RequestList(c)
    BY <2>6 DEF RequestList, ListRequest, Request
  <2>7. CASE ListHandler(c)
    BY <2>7 DEF ListHandler, ListRequest, Request
  <2>8. CASE LoadRow(c)
    BY <2>8 DEF LoadRow
  <2>9. CASE CheckName(c)
    BY <2>9 DEF CheckName
  <2>11. CASE Refresh(c)
    BY <2>11 DEF Refresh
  <2>12. CASE Sweep(c)
    BY <2>12 DEF Sweep
  <2>13. CASE DropFound(c)
    BY <2>13 DEF DropFound
  <2>14. CASE Reply(c)
    BY <2>14 DEF Reply
  <2>16. CASE LookUpTotal(c)
    BY <2>16 DEF LookUpTotal
  <2>17. CASE CountRows(c)
    BY <2>17 DEF CountRows
  <2>18. CASE StoreTotal(c)
    BY <2>18 DEF StoreTotal
  <2>19. CASE PageEnds(c)
    BY <2>19 DEF PageEnds
  <2>20. CASE ReadPage(c)
    BY <2>20 DEF ReadPage
  <2>21. CASE ListRows(c)
    BY <2>21 DEF ListRows
  <2>22. CASE StatementFails(c)
    BY <2>22 DEF StatementFails
  <2>23. CASE InvalidationFails(c)
    BY <2>23 DEF InvalidationFails
  <2>24. CASE CommitFails(c)
    BY <2>24 DEF CommitFails
  <2> QED
    BY <1>1, <2>1, <2>2, <2>3, <2>4, <2>5, <2>6, <2>7, <2>8, <2>9, <2>11,
        <2>12, <2>13, <2>14, <2>16, <2>17, <2>18, <2>19, <2>20, <2>21, <2>22,
        <2>23, <2>24 DEF Own, Serve, CommitWrite, AcknowledgementLost
<1>2. CASE \E f \in Filters : TotalExpires(f)
  BY <1>2 DEF TotalExpires
<1>3. CASE UNCHANGED vars
  BY <1>3 DEF vars
<1> QED BY <1>1, <1>2, <1>3 DEF Next, Own

\* What a flush does: nothing, or it claims a row that no session has.
LEMMA FlushClaims ==
    ASSUME IInv, NEW c \in Calls, FlushWrite(c)
    PROVE  /\ UNCHANGED <<name, committed, namer>> /\ pend[c].kind = "none"
           /\ \/ UNCHANGED <<pend, nextId>>
              \/ /\ pend' = [pend EXCEPT ![c] =
                       [kind |-> "insert", id |-> nextId, name |-> arg[c].name]]
                 /\ nextId \in Ids /\ nextId' = nextId + 1 /\ arg[c].name \in Names
              \/ /\ \E kind \in {"update", "delete"}, n \in Names \cup {None} :
                       /\ pend' = [pend EXCEPT ![c] =
                              [kind |-> kind, id |-> arg[c].id, name |-> n]]
                       /\ kind = "update" => n \in Names
                       /\ kind = "delete" => n = None
                       /\ n = arg[c].name
                 /\ arg[c].id \in Live /\ ~Locked(arg[c].id, c)
                 /\ UNCHANGED nextId
<1>a. TypeOK /\ RouteInv(c) /\ CallInv(c)
  BY DEF IInv
<1>b. pc[c] = "flush" /\ pend[c].kind = "none"
  BY <1>a DEF FlushWrite, CallInv, Unwritten
<1>c. UNCHANGED <<name, committed, namer>>
  BY DEF FlushWrite, Insert, Rename, Remove, FlushInsert, FlushUpdate,
      FlushDelete, Flush, tableVars, ghostVars
<1>d. Op[c] # "delete" => arg[c].name \in Names
  BY <1>a, <1>b DEF RouteInv
<1>e. Op[c] = "delete" => arg[c].name = None
  BY <1>a, <1>b DEF RouteInv
<1>f. Op[c] # "create" => arg[c].id \in Ids
  BY <1>a, <1>b DEF RouteInv
<1>1. CASE Insert(c)
  BY <1>1, <1>b, <1>c, <1>d DEF Insert, FlushInsert, Flush
<1>2. CASE Rename(c)
  <2>1. CASE UNCHANGED tableVars
    BY <2>1, <1>b, <1>c DEF tableVars
  <2>2. CASE FlushUpdate(c, arg[c].id, arg[c].name)
    <3>1. arg[c].id \in Live
      BY <1>2, <2>2, <1>f DEF Rename, FlushUpdate, Live
    <3> QED BY <1>2, <2>2, <3>1, <1>b, <1>c, <1>d DEF Rename, FlushUpdate, Flush
  <2> QED BY <1>2, <2>1, <2>2 DEF Rename
<1>3. CASE Remove(c)
  <2>1. CASE UNCHANGED tableVars
    BY <2>1, <1>b, <1>c DEF tableVars
  <2>2. CASE FlushDelete(c, arg[c].id)
    <3>1. arg[c].id \in Live
      BY <1>3, <2>2, <1>f DEF Remove, FlushDelete, Live
    <3> QED BY <1>3, <2>2, <3>1, <1>b, <1>c, <1>e DEF Remove, FlushDelete, Flush
  <2> QED BY <1>3, <2>1, <2>2 DEF Remove
<1> QED BY <1>1, <1>2, <1>3 DEF FlushWrite

\* Sessions keep to the rows they have flushed.
LEMMA PendingInductive ==
    ASSUME IInv, [Next]_vars
    PROVE  PendingInv'
<1>a. TypeOK /\ PendingInv
  BY DEF IInv
<1>b. /\ name \in [Ids -> Names \cup {None}] /\ nextId \in Nat /\ Live \subseteq Ids
      /\ pend \in [Calls -> Writes] /\ Ids \subseteq Nat /\ NoWrite.kind = "none"
  BY <1>a DEF TypeOK, TableTypeOK, Live, Ids, NoWrite
<1>1. CASE UNCHANGED <<name, nextId, pend, committed, namer>>
  BY <1>a, <1>1 DEF PendingInv, Live
<1>2. ASSUME NEW c \in Calls, FlushWrite(c) PROVE PendingInv'
  <2>a. UNCHANGED <<name, Live>> /\ pend[c].kind = "none"
    BY <1>2, FlushClaims DEF Live
  <2>1. CASE UNCHANGED <<pend, nextId>>
    BY <1>a, <2>a, <2>1 DEF PendingInv
  <2>2. CASE /\ pend' = [pend EXCEPT ![c] =
                    [kind |-> "insert", id |-> nextId, name |-> arg[c].name]]
             /\ nextId \in Ids /\ nextId' = nextId + 1 /\ arg[c].name \in Names
    <3>1. \A d \in Calls : pend'[d] = IF d = c
                THEN [kind |-> "insert", id |-> nextId, name |-> arg[c].name] ELSE pend[d]
      BY <1>b, <2>2
    <3>2. \A d \in Calls : pend[d].kind # "none" => pend[d].id < nextId
      BY <1>a, <1>b DEF PendingInv, Writes
    <3>3. \A d \in Calls : /\ pend[d].id \in Nat
                            /\ pend[d].kind \in {"none", "insert", "update", "delete"}
      BY <1>b DEF Writes
    <3> QED BY <1>a, <1>b, <2>a, <2>2, <3>1, <3>2, <3>3 DEF PendingInv
  <2>3. ASSUME NEW kind \in {"update", "delete"}, NEW n \in Names \cup {None},
               pend' = [pend EXCEPT ![c] = [kind |-> kind, id |-> arg[c].id, name |-> n]],
               kind = "update" => n \in Names, kind = "delete" => n = None,
               arg[c].id \in Live, ~Locked(arg[c].id, c), UNCHANGED nextId
        PROVE  PendingInv'
    <3>1. \A d \in Calls : pend'[d] = IF d = c
                THEN [kind |-> kind, id |-> arg[c].id, name |-> n] ELSE pend[d]
      BY <1>b, <2>3
    <3>2. \A d \in Calls \ {c} : pend[d].kind # "none" => pend[d].id # arg[c].id
      BY <1>a, <1>b, <2>3 DEF PendingInv, Locked, Writes
    <3> QED BY <1>a, <1>b, <2>a, <2>3, <3>1, <3>2 DEF PendingInv
  <2> QED BY <1>2, FlushClaims, <2>1, <2>2, <2>3
<1>3. ASSUME NEW c \in Calls, Rollback(c) PROVE PendingInv'
  <2>1. UNCHANGED <<name, Live, nextId>>
    BY <1>3 DEF Rollback, Live
  <2>2. \A d \in Calls : pend'[d] = IF d = c THEN NoWrite ELSE pend[d]
    BY <1>3, <1>b DEF Rollback
  <2> QED BY <1>a, <1>b, <2>1, <2>2 DEF PendingInv
<1>4. ASSUME NEW c \in Calls, Settle(c) PROVE PendingInv'
  <2>1. \A d \in Calls : pend'[d] = IF d = c THEN NoWrite ELSE pend[d]
    BY <1>4, <1>b DEF Settle, Commit
  <2>2. UNCHANGED nextId
    BY <1>4 DEF Settle, Commit
  <2>3. \A i \in Ids : pend[c].kind = "none" \/ i # pend[c].id => name'[i] = name[i]
    BY <1>4, <1>b DEF Settle, Commit
  <2>4. \A i \in Ids : i \in Live' => i \in Live \/ (pend[c].kind = "insert" /\ i = pend[c].id)
    <3> TAKE i \in Ids
    <3>1. CASE pend[c].kind = "none" \/ i # pend[c].id
      BY <2>3, <3>1 DEF Live
    <3>2. CASE pend[c].kind = "insert" /\ i = pend[c].id
      BY <3>2
    <3>3. CASE pend[c].kind \in {"update", "delete"} /\ i = pend[c].id
      BY <1>a, <3>3 DEF PendingInv
    <3> QED BY <1>b, <3>1, <3>2, <3>3 DEF Writes
  <2>5. \A i \in Live : i # pend[c].id \/ pend[c].kind = "none" => i \in Live'
    BY <2>3 DEF Live
  <2>6. \A i \in Live' : i \in Ids
    BY <1>b DEF Live
  <2>7. \A i \in Live' : i < nextId'
    BY <1>a, <2>2, <2>4, <2>6 DEF PendingInv
  <2>8. \A d \in Calls \ {c} : /\ pend'[d] = pend[d]
                               /\ pend[d].kind # "none" /\ pend[c].kind # "none" => pend[d].id # pend[c].id
    BY <1>a, <2>1 DEF PendingInv
  <2>9. ASSUME NEW d \in Calls
        PROVE  /\ pend'[d].kind = "insert" => /\ pend'[d].id \in Ids \ Live' /\ pend'[d].id < nextId'
                                              /\ pend'[d].name \in Names
               /\ pend'[d].kind = "update" => pend'[d].id \in Live' /\ pend'[d].name \in Names
               /\ pend'[d].kind = "delete" => pend'[d].id \in Live' /\ pend'[d].name = None
    <3>1. CASE d = c
      BY <1>b, <2>1, <3>1
    <3>2. CASE d # c
      BY <1>a, <2>2, <2>4, <2>5, <2>8, <3>2 DEF PendingInv
    <3> QED BY <3>1, <3>2
  <2> QED BY <1>a, <1>b, <2>1, <2>7, <2>9 DEF PendingInv
<1> QED BY TableSteps, <1>1, <1>2, <1>3, <1>4

-----------------------------------------------------------------------------
(* Names.                                                                  *)

\* Only a check or a delete's load leads to a flush, and only a check changes
\* what a call has ruled out.
LEMMA OtherSteps ==
    ASSUME TypeOK, NEW c \in Calls, Own(c)
    PROVE  \/ LoadRow(c) \/ CheckName(c) \/ FlushWrite(c) \/ Settle(c)
           \/ /\ pc'[c] # "flush" /\ ruledOut'[c] = ruledOut[c]
              /\ pend'[c] = pend[c] \/ pend'[c] = NoWrite
<1> USE DEF tableVars, ghostVars, TypeOK, TableTypeOK
<1>1. CASE RequestCreate(c)
  BY <1>1 DEF RequestCreate, Request, Goto
<1>2. CASE RequestUpdate(c)
  BY <1>2 DEF RequestUpdate, Request, Goto
<1>3. CASE RequestDelete(c)
  BY <1>3 DEF RequestDelete, Request, Goto
<1>4. CASE RequestPage(c)
  BY <1>4 DEF RequestPage, Pages, PageRequest, Request, Goto
<1>5. CASE PageHandler(c)
  BY <1>5 DEF PageHandler, Pages, PageRequest, Request, Goto
<1>6. CASE RequestList(c)
  BY <1>6 DEF RequestList, ListRequest, Request, Goto
<1>7. CASE ListHandler(c)
  BY <1>7 DEF ListHandler, ListRequest, Request, Goto
<1>11. CASE Refresh(c)
  BY <1>11 DEF Refresh, Raise, Returned, Goto
<1>12. CASE Sweep(c)
  BY <1>12 DEF Sweep, Returned, Goto
<1>13. CASE DropFound(c)
  BY <1>13 DEF DropFound, Returned, Goto
<1>14. CASE Reply(c)
  BY <1>14 DEF Reply, Goto
<1>16. CASE LookUpTotal(c)
  BY <1>16 DEF LookUpTotal, Goto
<1>17. CASE CountRows(c)
  BY <1>17 DEF CountRows, Goto
<1>18. CASE StoreTotal(c)
  BY <1>18 DEF StoreTotal, Goto
<1>19. CASE PageEnds(c)
  BY <1>19 DEF PageEnds, Goto
<1>20. CASE ReadPage(c)
  BY <1>20 DEF ReadPage, Goto
<1>21. CASE ListRows(c)
  BY <1>21 DEF ListRows, Goto
<1>22. CASE StatementFails(c)
  BY <1>22 DEF StatementFails, Raise, Rollback, Goto
<1>23. CASE InvalidationFails(c)
  BY <1>23 DEF InvalidationFails, Returned, Goto
<1>24. CASE CommitFails(c)
  BY <1>24 DEF CommitFails, Committed, Rollback, Goto
<1> QED
  BY <1>1, <1>2, <1>3, <1>4, <1>5, <1>6, <1>7, <1>11, <1>12, <1>13, <1>14,
      <1>16, <1>17, <1>18, <1>19, <1>20, <1>21, <1>22, <1>23, <1>24
  DEF Own, Serve, CommitWrite, AcknowledgementLost

\* What a flush claims is the row and the name that the call has checked.
LEMMA FlushedAsChecked ==
    ASSUME IInv, NEW c \in Calls, FlushWrite(c)
    PROVE  pend'[c].kind # "none" =>
             (pend'[c].name = arg[c].name /\ (arg[c].id \in Live => pend'[c].id = arg[c].id))
<1>a. RouteInv(c) /\ CallInv(c)
  BY DEF IInv
<1>b. pend \in [Calls -> Writes] /\ Live \subseteq Ids /\ pc[c] = "flush"
  BY DEF IInv, TypeOK, TableTypeOK, Live, FlushWrite
<1>1. CASE UNCHANGED pend
  BY <1>1, FlushClaims
<1>2. CASE pend' = [pend EXCEPT ![c] =
               [kind |-> "insert", id |-> nextId, name |-> arg[c].name]]
  <2>1. arg[c].id \notin Live
    <3>1. CASE Op[c] = "create"
      BY <1>a, <1>b, <3>1, BoundsAssumption DEF RouteInv, Ids
    <3>2. CASE Op[c] # "create"
      <4>1. pend'[c].kind # "insert"
        BY <1>a, <1>b, <3>2 DEF FlushWrite, Insert, Rename, Remove,
            FlushUpdate, FlushDelete, Flush, tableVars, CallInv, Unwritten
      <4>2. pend'[c] = [kind |-> "insert", id |-> nextId, name |-> arg[c].name]
        BY <1>b, <1>2
      <4> QED BY <4>1, <4>2
    <3> QED BY <3>1, <3>2
  <2> QED BY <1>b, <1>2, <2>1
<1>3. ASSUME NEW kind \in {"update", "delete"}, NEW n \in Names \cup {None}, n = arg[c].name,
             pend' = [pend EXCEPT ![c] = [kind |-> kind, id |-> arg[c].id, name |-> n]]
      PROVE  pend'[c].name = arg[c].name /\ pend'[c].id = arg[c].id
  BY <1>b, <1>3
<1> QED BY FlushClaims, <1>1, <1>2, <1>3

\* The names stay accounted for in a step that commits none.
LEMMA NamesKept ==
    ASSUME IInv, [Next]_vars, UNCHANGED <<name, namer, committed>>
    PROVE  NamesUniqueUnlessConcurrent' /\ NameInv'
<1>a. TypeOK /\ NamesUniqueUnlessConcurrent /\ NameInv
  BY DEF IInv
<1>b. UNCHANGED Live
  BY DEF Live
<1>c. name \in [Ids -> Names \cup {None}] /\ pend \in [Calls -> Writes] /\ Live \subseteq Ids
  BY <1>a DEF TypeOK, TableTypeOK, Live
<1> USE NoneAssumption
<1>1. ASSUME NEW c \in Calls
      PROVE  /\ ruledOut'[c] \subseteq committed
             /\ c \in committed => ruledOut'[c] = ruledOut[c]
             /\ pc'[c] = "flush" => Clear(c, arg[c].name, arg[c].id)'
             /\ pend'[c].kind # "none" => Clear(c, pend[c].name, pend[c].id)'
  <2>a. RouteInv(c) /\ CallInv(c) /\ ruledOut[c] \subseteq committed
    BY <1>a DEF IInv, NameInv
  <2>b. pc[c] = "flush" => Clear(c, arg[c].name, arg[c].id)
    BY <1>a DEF NameInv
  <2>c. pend[c].kind # "none" => Clear(c, pend[c].name, pend[c].id)
    BY <1>a DEF NameInv
  <2>1. CASE Same(c)
    BY <1>a, <1>b, <2>a, <2>b, <2>c, <2>1 DEF Same, Clear
  <2>2. CASE LoadRow(c)
    <3>1. UNCHANGED <<ruledOut, pend>> /\ pc[c] = "load" /\ arg'[c].name = arg[c].name
      <4>1. arg[c] \in Args
        BY <1>a DEF TypeOK
      <4>2. \A x : [arg[c] EXCEPT !.old = x].name = arg[c].name
        BY <4>1 DEF Args
      <4>3. \A x : arg' = [arg EXCEPT ![c].old = x] => arg'[c] = [arg[c] EXCEPT !.old = x]
        BY <1>a DEF TypeOK
      <4> QED BY <2>2, <4>2, <4>3 DEF LoadRow, tableVars, ghostVars
    <3>2. pc'[c] = "flush" => Op[c] # "update"
      BY <1>a, <2>2 DEF LoadRow, Raise, Goto, TypeOK
    <3>3. pc'[c] = "flush" => arg'[c].name = None
      BY <2>a, <3>1, <3>2 DEF RouteInv
    <3>4. pc'[c] = "flush" => Clear(c, arg[c].name, arg[c].id)'
      BY <1>b, <3>3 DEF Clear, Live
    <3> QED BY <1>b, <2>a, <2>c, <3>1, <3>4 DEF Clear
  <2>3. CASE CheckName(c)
    <3>1. UNCHANGED <<arg, pend>> /\ pc[c] = "check" /\ pend[c].kind = "none"
          /\ c \notin committed /\ ruledOut[c] = {} /\ arg[c].name \in Names
      BY <2>a, <2>3 DEF CheckName, CallInv, RouteInv, tableVars, Unwritten, Unchecked
    <3>2. CASE NameTaken(c)
      BY <1>a, <2>a, <3>1, <3>2 DEF NameTaken, Raise, Goto, TypeOK
    <3>3. CASE NameFree(c)
      <4>1. CASE Matching(arg[c].name) = {} /\ ruledOut' = [ruledOut EXCEPT ![c] = committed]
        <5>1. \A j \in Live : name[j] # arg[c].name
          BY <4>1 DEF Matching
        <5>2. Clear(c, arg[c].name, arg[c].id)'
          BY <1>b, <3>1, <5>1 DEF Clear
        <5> QED BY <1>a, <3>1, <4>1, <5>2 DEF TypeOK
      <4>2. CASE arg[c].id \in Matching(arg[c].name) /\ UNCHANGED ruledOut
        <5>1. arg[c].id \in Live /\ name[arg[c].id] = arg[c].name
          BY <3>1, <4>2 DEF Matching
        <5>2. Clear(c, arg[c].name, arg[c].id)'
          BY <1>a, <1>b, <3>1, <4>2, <5>1 DEF Clear, NamesUniqueUnlessConcurrent
        <5> QED BY <2>a, <3>1, <4>2, <5>2
      <4> QED BY <3>3, <4>1, <4>2 DEF NameFree
    <3> QED BY <2>3, <3>2, <3>3 DEF CheckName
  <2>4. CASE FlushWrite(c)
    <3>1. UNCHANGED <<ruledOut, arg>> /\ pc[c] = "flush"
      BY <2>4 DEF FlushWrite, ghostVars
    <3>2. pc'[c] # "flush"
      BY <1>a, <2>4 DEF FlushWrite, Insert, Rename, Remove, Raise, Goto, TypeOK
    <3>3. pend'[c].kind # "none" =>
             (pend'[c].name = arg[c].name /\ (arg[c].id \in Live => pend'[c].id = arg[c].id))
      BY <2>4, FlushedAsChecked
    <3>4. pend'[c].kind # "none" => Clear(c, pend[c].name, pend[c].id)'
      <4>1. \A j \in Live : j # arg[c].id /\ name[j] = arg[c].name =>
               namer[j] # None /\ namer[j] \notin ruledOut[c]
        BY <2>b, <3>1 DEF Clear
      <4> SUFFICES ASSUME pend'[c].kind # "none", NEW j \in Live, j # pend'[c].id,
                          name[j] = pend'[c].name
                   PROVE  namer[j] # None /\ namer[j] \notin ruledOut[c]
        BY <1>b, <3>1 DEF Clear
      <4>2. pend'[c].name = arg[c].name
        BY <3>3
      <4>3. arg[c].id \in Live => pend'[c].id = arg[c].id
        BY <3>3
      <4>4. j # arg[c].id
        BY <4>3
      <4> QED BY <4>1, <4>2, <4>4
    <3> QED BY <2>a, <3>1, <3>2, <3>4
  <2>5. CASE Settle(c)
    <3>1. pend'[c] = NoWrite /\ UNCHANGED ruledOut /\ pc'[c] # "flush"
      BY <1>a, <1>c, <2>5 DEF Settle, Commit, Goto, Committed, TypeOK
    <3> QED BY <2>a, <3>1 DEF NoWrite
  <2>6. CASE /\ pc'[c] # "flush" /\ ruledOut'[c] = ruledOut[c]
             /\ pend'[c] = pend[c] \/ pend'[c] = NoWrite
    BY <1>b, <2>a, <2>c, <2>6 DEF Clear, NoWrite
  <2> QED BY <1>a, OwnOrSame, OtherSteps, <2>1, <2>2, <2>3, <2>4, <2>5, <2>6
<1>2. NameInv'
  BY <1>a, <1>1 DEF NameInv
<1>3. NamesUniqueUnlessConcurrent'
  <2>1. \A i \in Live : namer[i] # None => namer[i] \in committed /\ namer[i] \in Calls
    BY <1>a, <1>c DEF NameInv, TypeOK
  <2>2. \A i \in Live : namer[i] # None => ruledOut'[namer[i]] = ruledOut[namer[i]]
    BY <1>1, <2>1
  <2> QED BY <1>a, <1>b, <2>2 DEF NamesUniqueUnlessConcurrent
<1> QED BY <1>2, <1>3

\* A commit gives its name to its own row only, to which the call had cleared it,
\* and no other call has seen that commit.
LEMMA NamesCommitted ==
    ASSUME IInv, NEW c \in Calls, Settle(c), [Next]_vars
    PROVE  NamesUniqueUnlessConcurrent' /\ NameInv'
<1>a. TypeOK /\ NamesUniqueUnlessConcurrent /\ NameInv /\ CallInv(c)
  BY DEF IInv
<1>b. /\ name \in [Ids -> Names \cup {None}] /\ pend \in [Calls -> Writes]
      /\ namer \in [Ids -> Calls \cup {None}] /\ committed \subseteq Calls
      /\ Live = {i \in Ids : name[i] # None} /\ pc \in [Calls -> Awaits]
  BY <1>a DEF TypeOK, TableTypeOK, Live
<1> USE NoneAssumption
<1> DEFINE n == pend[c].name
           row == pend[c].id
<1>1. CASE pend[c].kind = "none"
  <2>1. UNCHANGED <<name, namer, committed>>
    BY <1>1 DEF Settle, Commit
  <2> QED BY <2>1, NamesKept
<1>2. CASE pend[c].kind # "none"
  <2>a. /\ name' = [name EXCEPT ![row] = n] /\ committed' = committed \cup {c}
        /\ namer' = IF n = name[row] THEN namer ELSE [namer EXCEPT ![row] = c]
        /\ pend' = [pend EXCEPT ![c] = NoWrite]
        /\ UNCHANGED <<arg, ruledOut>> /\ pc'[c] # "flush"
        /\ \A d \in Calls \ {c} : pc'[d] = pc[d]
    BY <1>b, <1>2 DEF Settle, Commit, Committed, Goto
  <2>b. c \notin committed
    BY <1>a DEF Settle, Goto, CallInv
  <2>c. Live' = {i \in Ids : name'[i] # None}
    BY DEF Live
  <2>d. \A d \in Calls : ruledOut[d] \subseteq committed
    BY <1>a DEF NameInv
  <2>e. Clear(c, n, row)
    BY <1>a, <1>2 DEF NameInv
  <2>f. \A i \in Ids : i # row =>
           (name'[i] = name[i] /\ namer'[i] = namer[i] /\ (i \in Live' <=> i \in Live))
    BY <1>b, <2>a, <2>c
  <2>g. row \in Ids =>
           (name'[row] = n /\ (namer'[row] = c \/ (name[row] = n /\ namer'[row] = namer[row])))
    BY <1>b, <2>a
  <2>1. ASSUME NEW d \in Calls, NEW m, NEW i, Clear(d, m, i), i # row \/ d # c
        PROVE  Clear(d, m, i)'
    <3> SUFFICES ASSUME NEW j \in Live', j # i, name'[j] = m
                 PROVE  namer'[j] # None /\ namer'[j] \notin ruledOut[d]
      BY <2>a DEF Clear
    <3>1. CASE j # row
      BY <1>b, <2>c, <2>f, <2>1, <3>1 DEF Clear
    <3>2. CASE j = row /\ namer'[j] = c
      BY <2>b, <2>d, <3>2
    <3>3. CASE j = row /\ name[j] = name'[j] /\ namer'[j] = namer[j]
      BY <1>b, <2>c, <2>1, <3>3 DEF Clear
    <3> QED BY <2>c, <2>g, <3>1, <3>2, <3>3
  <2>2. NameInv'
    <3>1. \A i \in Ids : namer'[i] # None => namer'[i] \in committed'
      BY <1>a, <2>a, <2>f, <2>g DEF NameInv
    <3>2. ASSUME NEW d \in Calls
          PROVE  /\ ruledOut'[d] \subseteq committed'
                 /\ pc'[d] = "flush" => Clear(d, arg[d].name, arg[d].id)'
                 /\ pend'[d].kind # "none" => Clear(d, pend[d].name, pend[d].id)'
      <4>1. CASE d = c
        BY <1>b, <2>a, <2>d, <4>1 DEF NoWrite
      <4>2. CASE d # c
        <5>1. pend'[d] = pend[d] /\ pc'[d] = pc[d]
          BY <1>b, <2>a, <4>2
        <5>2. pc[d] = "flush" => Clear(d, arg[d].name, arg[d].id)
          BY <1>a DEF NameInv
        <5>3. pend[d].kind # "none" => Clear(d, pend[d].name, pend[d].id)
          BY <1>a DEF NameInv
        <5>4. pc'[d] = "flush" => Clear(d, arg[d].name, arg[d].id)'
          BY <2>1, <2>a, <4>2, <5>1, <5>2 DEF Clear
        <5>5. pend'[d].kind # "none" => Clear(d, pend[d].name, pend[d].id)'
          BY <2>1, <4>2, <5>1, <5>3 DEF Clear
        <5> QED BY <2>a, <2>d, <5>4, <5>5
      <4> QED BY <4>1, <4>2
    <3> QED BY <3>1, <3>2 DEF NameInv
  <2>3. ASSUME NEW i \in Live', NEW j \in Live', i # j, name'[i] = name'[j]
        PROVE  namer'[i] # None /\ namer'[j] # None
               /\ namer'[i] \notin ruledOut[namer'[j]] /\ namer'[j] \notin ruledOut[namer'[i]]
    <3>1. ASSUME NEW k \in Live', k # row, name'[k] = n, namer'[row] = c
          PROVE  namer'[k] # None /\ namer'[k] \notin ruledOut[c] /\ c \notin ruledOut[namer'[k]]
      <4>1. k \in Live /\ name[k] = n /\ namer'[k] = namer[k]
        BY <2>c, <2>f, <3>1
      <4>2. namer[k] # None /\ namer[k] \notin ruledOut[c]
        BY <2>e, <3>1, <4>1 DEF Clear
      <4>3. namer[k] \in Calls
        BY <1>b, <4>1, <4>2
      <4> QED BY <2>b, <2>d, <4>1, <4>2, <4>3
    <3>2. CASE i = row /\ namer'[row] = c
      BY <2>3, <2>c, <2>g, <3>1, <3>2
    <3>3. CASE j = row /\ namer'[row] = c
      BY <2>3, <2>c, <2>g, <3>1, <3>3
    <3>4. CASE (i = row \/ j = row) => name[row] = n /\ namer'[row] = namer[row]
      <4>1. ASSUME NEW k \in {i, j} PROVE name'[k] = name[k] /\ namer'[k] = namer[k] /\ k \in Live
        BY <1>b, <2>c, <2>f, <2>g, <3>4, <4>1
      <4> QED BY <1>a, <2>3, <4>1 DEF NamesUniqueUnlessConcurrent
    <3> QED BY <2>c, <2>g, <3>2, <3>3, <3>4
  <2>4. NamesUniqueUnlessConcurrent'
    BY <2>3, <2>a DEF NamesUniqueUnlessConcurrent
  <2> QED BY <2>2, <2>4
<1> QED BY <1>1, <1>2

\* The names stay accounted for.
LEMMA NamesInductive ==
    ASSUME IInv, [Next]_vars
    PROVE  NamesUniqueUnlessConcurrent' /\ NameInv'
<1>1. CASE \E c \in Calls : Settle(c)
  BY <1>1, NamesCommitted
<1>2. CASE UNCHANGED <<name, namer, committed>>
  BY <1>2, NamesKept
<1> QED BY <1>1, <1>2, TableSteps, FlushClaims DEF Rollback

-----------------------------------------------------------------------------
(* The cached totals.                                                      *)

\* A step leaves the cache and the invalidations alone, or it is one of five,
\* none of which touches the table.
LEMMA CacheSteps ==
    ASSUME [Next]_vars
    PROVE  \/ UNCHANGED <<cache, inv, found>>
           \/ /\ UNCHANGED <<name, committed>>
              /\ \/ \E c \in Calls : \/ Sweep(c) \/ DropFound(c)
                                     \/ InvalidationFails(c) \/ StoreTotal(c)
                 \/ \E f \in Filters : TotalExpires(f)
<1> USE DEF tableVars, ghostVars
<1>1. ASSUME NEW c \in Calls, Own(c)
      PROVE  \/ UNCHANGED <<cache, inv, found>>
             \/ /\ UNCHANGED <<name, committed>>
                /\ Sweep(c) \/ DropFound(c) \/ InvalidationFails(c) \/ StoreTotal(c)
  <2>1. CASE RequestCreate(c)
    BY <2>1 DEF RequestCreate, Request
  <2>2. CASE RequestUpdate(c)
    BY <2>2 DEF RequestUpdate, Request
  <2>3. CASE RequestDelete(c)
    BY <2>3 DEF RequestDelete, Request
  <2>4. CASE RequestPage(c)
    BY <2>4 DEF RequestPage, Pages, PageRequest, Request
  <2>5. CASE PageHandler(c)
    BY <2>5 DEF PageHandler, Pages, PageRequest, Request
  <2>6. CASE RequestList(c)
    BY <2>6 DEF RequestList, ListRequest, Request
  <2>7. CASE ListHandler(c)
    BY <2>7 DEF ListHandler, ListRequest, Request
  <2>8. CASE LoadRow(c)
    BY <2>8 DEF LoadRow
  <2>9. CASE CheckName(c)
    BY <2>9 DEF CheckName
  <2>10. CASE FlushWrite(c)
    BY <2>10 DEF FlushWrite
  <2>11. CASE Refresh(c)
    BY <2>11 DEF Refresh
  <2>12. CASE Sweep(c)
    BY <2>12 DEF Sweep
  <2>13. CASE DropFound(c)
    BY <2>13 DEF DropFound
  <2>14. CASE Reply(c)
    BY <2>14 DEF Reply
  <2>15. CASE CommitWrite(c) \/ AcknowledgementLost(c)
    BY <2>15 DEF CommitWrite, Settle, AcknowledgementLost, Result, FailedAnswer,
        Fault, Outcomes
  <2>16. CASE LookUpTotal(c)
    BY <2>16 DEF LookUpTotal
  <2>17. CASE CountRows(c)
    BY <2>17 DEF CountRows
  <2>18. CASE StoreTotal(c)
    BY <2>18 DEF StoreTotal
  <2>19. CASE PageEnds(c)
    BY <2>19 DEF PageEnds
  <2>20. CASE ReadPage(c)
    BY <2>20 DEF ReadPage
  <2>21. CASE ListRows(c)
    BY <2>21 DEF ListRows
  <2>22. CASE StatementFails(c)
    BY <2>22 DEF StatementFails
  <2>23. CASE InvalidationFails(c)
    BY <2>23 DEF InvalidationFails
  <2>24. CASE CommitFails(c)
    BY <2>24 DEF CommitFails
  <2> QED
    BY <1>1, <2>1, <2>2, <2>3, <2>4, <2>5, <2>6, <2>7, <2>8, <2>9, <2>10,
        <2>11, <2>12, <2>13, <2>14, <2>15, <2>16, <2>17, <2>18, <2>19, <2>20,
        <2>21, <2>22, <2>23, <2>24 DEF Own, Serve
<1>2. CASE \E f \in Filters : TotalExpires(f)
  BY <1>2 DEF TotalExpires
<1>3. CASE UNCHANGED vars
  BY <1>3 DEF vars
<1> QED BY <1>1, <1>2, <1>3 DEF Next, Own

\* A step leaves the rows alone, or commits a call no total has seen.
LEMMA RowSteps ==
    ASSUME IInv, [Next]_vars
    PROVE  /\ UNCHANGED <<name, committed>> \/ \E c \in Calls \ committed : c \in committed'
           /\ committed \subseteq committed'
<1>1. CASE UNCHANGED <<name, committed>>
  BY <1>1
<1>2. ASSUME NEW c \in Calls, Settle(c)
      PROVE  /\ UNCHANGED <<name, committed>> \/ (c \notin committed /\ c \in committed')
             /\ committed \subseteq committed'
  <2>1. c \notin committed
    BY <1>2 DEF IInv, CallInv, Settle, Goto
  <2> QED BY <1>2, <2>1 DEF Settle, Commit
<1> QED BY <1>1, <1>2, TableSteps, FlushClaims DEF Rollback

\* A total counted and not stored still accounts for what it misses.
LEMMA TallyInductive ==
    ASSUME IInv, [Next]_vars
    PROVE  TallyInv'
<1> SUFFICES ASSUME NEW c \in Calls, pc'[c] = "store"
             PROVE  /\ tally'[c].saw \subseteq committed'
                    /\ committed' \subseteq tally'[c].saw =>
                          tally'[c].total = Cardinality(Matching(arg[c].name))'
  BY DEF TallyInv
<1>a. TypeOK /\ TallyInv
  BY DEF IInv
<1>1. CASE Same(c)
  <2>1. /\ tally[c].saw \subseteq committed
        /\ committed \subseteq tally[c].saw =>
              tally[c].total = Cardinality(Matching(arg[c].name))
    BY <1>a, <1>1 DEF Same, TallyInv
  <2>2. tally'[c] = tally[c] /\ arg'[c] = arg[c]
    BY <1>1 DEF Same
  <2>3. CASE UNCHANGED <<name, committed>>
    BY <2>1, <2>2, <2>3 DEF Matching, Live
  <2>4. CASE \E d \in Calls \ committed : d \in committed'
    BY <2>1, <2>2, <2>4, RowSteps
  <2> QED BY <2>3, <2>4, RowSteps
<1>2. CASE CountRows(c)
  <2>1. /\ tally'[c] = [total |-> Cardinality(Matching(arg[c].name)), saw |-> committed]
        /\ UNCHANGED <<name, arg, committed>>
    BY <1>a, <1>2 DEF CountRows, TypeOK, tableVars, ghostVars
  <2> QED BY <2>1 DEF Matching, Live
<1>3. CASE RequestCreate(c)
  BY <1>a, <1>3 DEF RequestCreate, Request, Goto, TypeOK
<1>4. CASE RequestUpdate(c)
  BY <1>a, <1>4 DEF RequestUpdate, Request, Goto, TypeOK
<1>5. CASE RequestDelete(c)
  BY <1>a, <1>5 DEF RequestDelete, Request, Goto, TypeOK
<1>6. CASE RequestPage(c)
  BY <1>a, <1>6 DEF RequestPage, Pages, PageRequest, Strategy, Request, Goto,
      TypeOK
<1>7. CASE PageHandler(c)
  BY <1>a, <1>7 DEF PageHandler, Pages, PageRequest, Strategy, Request, Goto,
      TypeOK
<1>8. CASE RequestList(c)
  BY <1>a, <1>8 DEF RequestList, ListRequest, Request, Goto, TypeOK
<1>9. CASE ListHandler(c)
  BY <1>a, <1>9 DEF ListHandler, ListRequest, Request, Goto, TypeOK
<1>10. CASE LoadRow(c)
  BY <1>a, <1>10 DEF LoadRow, Raise, Goto, TypeOK
<1>11. CASE CheckName(c)
  BY <1>a, <1>11 DEF CheckName, NameTaken, NameFree, Raise, Goto, TypeOK
<1>12. CASE FlushWrite(c)
  BY <1>a, <1>12 DEF FlushWrite, Insert, Rename, Remove, Raise, Goto, TypeOK
<1>13. CASE Refresh(c)
  BY <1>a, <1>13 DEF Refresh, Raise, Returned, Goto, TypeOK
<1>14. CASE Sweep(c)
  BY <1>a, <1>14 DEF Sweep, Returned, Goto, TypeOK
<1>15. CASE DropFound(c)
  BY <1>a, <1>15 DEF DropFound, Returned, Goto, TypeOK
<1>16. CASE Reply(c)
  BY <1>a, <1>16 DEF Reply, Goto, TypeOK
<1>17. CASE CommitWrite(c) \/ AcknowledgementLost(c)
  BY <1>a, <1>17 DEF CommitWrite, Settle, AcknowledgementLost, Committed, Goto,
      TypeOK, Result, FailedAnswer, Fault, Outcomes
<1>18. CASE LookUpTotal(c)
  BY <1>a, <1>18 DEF LookUpTotal, Goto, TypeOK
<1>19. CASE StoreTotal(c)
  BY <1>a, <1>19 DEF StoreTotal, Goto, TypeOK
<1>20. CASE PageEnds(c)
  BY <1>a, <1>20 DEF PageEnds, Goto, TypeOK
<1>21. CASE ReadPage(c)
  BY <1>a, <1>21 DEF ReadPage, Goto, TypeOK
<1>22. CASE ListRows(c)
  BY <1>a, <1>22 DEF ListRows, Goto, TypeOK
<1>23. CASE StatementFails(c)
  BY <1>a, <1>23 DEF StatementFails, Raise, Goto, TypeOK
<1>24. CASE InvalidationFails(c)
  BY <1>a, <1>24 DEF InvalidationFails, Returned, Goto, TypeOK
<1>25. CASE CommitFails(c)
  BY <1>a, <1>25 DEF CommitFails, Committed, Goto, TypeOK
<1> QED
  BY <1>a, OwnOrSame, <1>1, <1>2, <1>3, <1>4, <1>5, <1>6, <1>7, <1>8, <1>9,
      <1>10, <1>11, <1>12, <1>13, <1>14, <1>15, <1>16, <1>17, <1>18, <1>19,
      <1>20, <1>21, <1>22, <1>23, <1>24, <1>25 DEF Own, Serve

\* A cached total still accounts for what it misses.
LEMMA TotalInductive ==
    ASSUME IInv, [Next]_vars
    PROVE  TotalInv'
<1>a. TypeOK /\ TotalInv /\ TallyInv /\ \A c \in Calls : CallInv(c)
  BY DEF IInv
<1> DEFINE Fresh(f) ==
             /\ cache[f].saw \subseteq committed
             /\ committed \subseteq cache[f].saw => cache[f].count = Cardinality(Matching(f))
           Swept(f, w) ==
             /\ inv[w] = "done" => w \in cache[f].late
             /\ inv[w] = "swept" => w \in cache[f].late \/ f \in found[w]
<1>b. \A f \in Filters : Cached(f) => Fresh(f) /\ \A w \in Calls : Swept(f, w)
  BY <1>a DEF TotalInv
<1>1. ASSUME NEW f \in Filters, cache'[f] = cache[f], Cached(f) PROVE Fresh(f)'
  <2>1. CASE UNCHANGED <<name, committed>>
    <3>1. Cardinality(Matching(f))' = Cardinality(Matching(f))
      BY <2>1 DEF Matching, Live
    <3> QED BY <1>b, <1>1, <2>1, <3>1
  <2>2. CASE \E d \in Calls \ committed : d \in committed'
    BY <1>b, <1>1, <2>2, RowSteps
  <2> QED BY <2>1, <2>2, RowSteps
<1>2. SUFFICES ASSUME NEW f \in Filters, Cached(f)'
               PROVE  Fresh(f)' /\ \A w \in Calls : Swept(f, w)'
  BY DEF TotalInv
<1>3. CASE UNCHANGED <<cache, inv, found>>
  BY <1>b, <1>1, <1>2, <1>3 DEF Cached
<1>4. ASSUME NEW c \in Calls, Sweep(c) PROVE Fresh(f)' /\ \A w \in Calls : Swept(f, w)'
  <2>1. /\ cache' = cache /\ Cached(f)
        /\ found' = [found EXCEPT ![c] = Found]
        /\ inv' = [inv EXCEPT ![c] = IF Found = {} THEN "done" ELSE "swept"]
    BY <1>2, <1>4 DEF Sweep, Cached
  <2>2. f \in Found
    BY <2>1 DEF Found
  <2>3. \A w \in Calls : Swept(f, w)'
    BY <1>a, <1>b, <2>1, <2>2 DEF TypeOK
  <2> QED BY <1>1, <2>1, <2>3
<1>5. ASSUME NEW c \in Calls, DropFound(c) PROVE Fresh(f)' /\ \A w \in Calls : Swept(f, w)'
  <2>1. /\ cache'[f] = IF f \in found[c] THEN NoEntry ELSE cache[f]
        /\ found' = [found EXCEPT ![c] = {}] /\ inv' = [inv EXCEPT ![c] = "done"]
    BY <1>5 DEF DropFound, Drop
  <2>2. cache'[f] = cache[f] /\ f \notin found[c] /\ Cached(f)
    BY <1>2, <2>1 DEF Cached, NoEntry
  <2>3. inv[c] = "swept"
    BY <1>a, <1>5 DEF DropFound, Goto, CallInv
  <2>4. \A w \in Calls : Swept(f, w)'
    BY <1>a, <1>b, <2>1, <2>2, <2>3 DEF TypeOK
  <2> QED BY <1>1, <2>2, <2>4
<1>6. ASSUME NEW c \in Calls, InvalidationFails(c)
      PROVE  Fresh(f)' /\ \A w \in Calls : Swept(f, w)'
  <2>1. /\ cache' = cache /\ Cached(f)
        /\ found' = [found EXCEPT ![c] = {}] /\ inv' = [inv EXCEPT ![c] = "failed"]
    BY <1>2, <1>6 DEF InvalidationFails, Cached
  <2>2. \A w \in Calls : Swept(f, w)'
    BY <1>a, <1>b, <2>1 DEF TypeOK
  <2> QED BY <1>1, <2>1, <2>2
<1>7. ASSUME NEW c \in Calls, StoreTotal(c), UNCHANGED <<name, committed>>
      PROVE  Fresh(f)' /\ \A w \in Calls : Swept(f, w)'
  <2>a. UNCHANGED <<inv, found, arg>> /\ pc[c] = "store"
    BY <1>7 DEF StoreTotal, Goto
  <2>1. CASE cache'[f] = cache[f]
    BY <1>b, <1>1, <1>2, <2>a, <2>1 DEF Cached
  <2>2. CASE f = arg[c].name /\ cache'[f].count = tally[c].total /\ cache'[f].saw = tally[c].saw
             /\ cache'[f].late = {w \in Calls : inv[w] # "none"}
    <3>1. Cardinality(Matching(f))' = Cardinality(Matching(f))
      BY <1>7 DEF Matching, Live
    <3>2. Fresh(f)'
      BY <1>a, <1>7, <2>a, <2>2, <3>1 DEF TallyInv
    <3> QED BY <2>a, <2>2, <3>2
  <2>3. cache'[f] = cache[f] \/ (f = arg[c].name /\
           cache'[f] = [count |-> tally[c].total, saw |-> tally[c].saw,
                        late |-> {w \in Calls : inv[w] # "none"}, set |-> TRUE, ttl |-> TRUE])
    BY <1>a, <1>7 DEF StoreTotal, Put, TypeOK, CacheTypeOK
  <2> QED BY <2>1, <2>2, <2>3
<1>8. ASSUME NEW g \in Filters, TotalExpires(g) PROVE Fresh(f)' /\ \A w \in Calls : Swept(f, w)'
  <2>1. cache'[f] = cache[f] /\ Cached(f) /\ UNCHANGED <<inv, found>>
    BY <1>a, <1>2, <1>8 DEF TotalExpires, Lapse, Cached, NoEntry, TypeOK, CacheTypeOK
  <2> QED BY <1>b, <1>1, <2>1
<1> QED BY <1>3, <1>4, <1>5, <1>6, <1>7, <1>8, CacheSteps

-----------------------------------------------------------------------------
(* The scans.                                                              *)

\* Rows appear by the commit of an insert, and an insert takes a fresh id.
LEMMA RowsAppear ==
    ASSUME IInv, [Next]_vars
    PROVE  /\ nextId \in Nat /\ nextId' \in Nat /\ nextId <= nextId'
           /\ \A i \in Live' \ Live : \E d \in Calls : pend[d].kind = "insert" /\ pend[d].id = i
           /\ \A d \in Calls : pend'[d].kind = "insert" =>
                 (pend'[d].id = nextId \/ (pend[d].kind = "insert" /\ pend'[d].id = pend[d].id))
<1>a. /\ TypeOK /\ PendingInv /\ nextId \in Nat /\ pend \in [Calls -> Writes]
      /\ name \in [Ids -> Names \cup {None}]
  BY DEF IInv, TypeOK, TableTypeOK
<1>1. CASE UNCHANGED <<name, nextId, pend, committed, namer>>
  BY <1>a, <1>1 DEF Live
<1>2. CASE \E c \in Calls : FlushWrite(c)
  <2>1. PICK c \in Calls : FlushWrite(c)
    BY <1>2
  <2>2. UNCHANGED name /\ (nextId' = nextId \/ nextId' = nextId + 1)
    BY <2>1, FlushClaims
  <2>3. \/ UNCHANGED pend
        \/ pend' = [pend EXCEPT ![c] = [kind |-> "insert", id |-> nextId, name |-> arg[c].name]]
        \/ \E kind \in {"update", "delete"}, n \in Names \cup {None} :
              pend' = [pend EXCEPT ![c] = [kind |-> kind, id |-> arg[c].id, name |-> n]]
    BY <2>1, FlushClaims
  <2>4. \A d \in Calls : pend'[d].kind = "insert" =>
           (pend'[d].id = nextId \/ (pend[d].kind = "insert" /\ pend'[d].id = pend[d].id))
    BY <1>a, <2>3
  <2> QED BY <1>a, <2>2, <2>4 DEF Live
<1>3. CASE \E c \in Calls : Rollback(c) /\ UNCHANGED <<committed, namer>>
  BY <1>a, <1>3 DEF Rollback, NoWrite, Live
<1>4. CASE \E c \in Calls : Settle(c)
  <2>1. PICK c \in Calls : Settle(c)
    BY <1>4
  <2>2. /\ pend' = [pend EXCEPT ![c] = NoWrite] /\ UNCHANGED nextId
        /\ name' = IF pend[c].kind = "none" THEN name
                   ELSE [name EXCEPT ![pend[c].id] = pend[c].name]
    BY <2>1 DEF Settle, Commit
  <2>3. \A i \in Live' \ Live : pend[c].kind # "none" /\ pend[c].id = i
    BY <1>a, <2>2 DEF Live
  <2>4. \A i \in Live' \ Live : pend[c].kind = "insert"
    BY <1>a, <2>3 DEF PendingInv, Writes
  <2> QED BY <1>a, <2>2, <2>3, <2>4 DEF NoWrite
<1> QED BY <1>1, <1>2, <1>3, <1>4, TableSteps

\* A page is read for the scan, or its state stays.
LEMMA ScanSteps ==
    ASSUME IInv, [Next]_vars, NEW c \in Calls
    PROVE  \/ ReadPage(c)
           \/ scan'[c] = scan[c] /\ (Op[c] = "scan" /\ res'[c] = "ok" => res[c] = "ok")
<1>a. TypeOK /\ RouteInv(c)
  BY DEF IInv
<1>1. CASE Same(c)
  BY <1>1 DEF Same
<1>2. CASE RequestCreate(c)
  BY <1>a, <1>2 DEF RequestCreate, Request, Goto, TypeOK, RouteInv
<1>3. CASE RequestUpdate(c)
  BY <1>a, <1>3 DEF RequestUpdate, Request, Goto, TypeOK, RouteInv
<1>4. CASE RequestDelete(c)
  BY <1>a, <1>4 DEF RequestDelete, Request, Goto, TypeOK, RouteInv
<1>5. CASE RequestPage(c)
  BY <1>a, <1>5 DEF RequestPage, Pages, PageRequest, Request, Goto, TypeOK,
      RouteInv
<1>6. CASE PageHandler(c)
  BY <1>a, <1>6 DEF PageHandler, Pages, PageRequest, Request, Goto, TypeOK,
      RouteInv
<1>7. CASE RequestList(c)
  BY <1>a, <1>7 DEF RequestList, ListRequest, Request, Goto, TypeOK, RouteInv
<1>8. CASE ListHandler(c)
  BY <1>a, <1>8 DEF ListHandler, ListRequest, Request, Goto, TypeOK, RouteInv
<1>9. CASE LoadRow(c)
  BY <1>a, <1>9 DEF LoadRow, Raise, Goto, Result, TypeOK, RouteInv
<1>10. CASE CheckName(c)
  BY <1>a, <1>10 DEF CheckName, NameTaken, NameFree, Raise, Goto, Result,
      TypeOK, RouteInv
<1>11. CASE FlushWrite(c)
  BY <1>a, <1>11 DEF FlushWrite, Insert, Rename, Remove, Raise, Goto, Result,
      TypeOK, RouteInv
<1>12. CASE Refresh(c)
  BY <1>a, <1>12 DEF Refresh, Raise, Goto, Result, TypeOK, RouteInv
<1>13. CASE Sweep(c)
  BY <1>a, <1>13 DEF Sweep, Goto, Result, TypeOK, RouteInv
<1>14. CASE DropFound(c)
  BY <1>a, <1>14 DEF DropFound, Goto, TypeOK, RouteInv
<1>15. CASE Reply(c)
  BY <1>a, <1>15 DEF Reply, Goto, TypeOK, RouteInv
<1>16. CASE CommitWrite(c) \/ AcknowledgementLost(c)
  BY <1>a, <1>16 DEF CommitWrite, Settle, AcknowledgementLost, Goto, TypeOK,
      RouteInv, Result, FailedAnswer, Fault, Outcomes
<1>17. CASE LookUpTotal(c)
  BY <1>a, <1>17 DEF LookUpTotal, Goto, TypeOK, RouteInv
<1>18. CASE CountRows(c)
  BY <1>a, <1>18 DEF CountRows, Goto, TypeOK, RouteInv
<1>19. CASE StoreTotal(c)
  BY <1>a, <1>19 DEF StoreTotal, Goto, TypeOK, RouteInv
<1>20. CASE PageEnds(c)
  BY <1>a, <1>20 DEF PageEnds, Goto, TypeOK, RouteInv
<1>21. CASE ListRows(c)
  BY <1>a, <1>21 DEF ListRows, Goto, TypeOK, RouteInv
<1>22. CASE StatementFails(c)
  BY <1>a, <1>22 DEF StatementFails, Raise, Goto, Result, TypeOK, RouteInv
<1>23. CASE InvalidationFails(c)
  BY <1>a, <1>23 DEF InvalidationFails, Goto, Result, TypeOK, RouteInv
<1>24. CASE CommitFails(c)
  BY <1>a, <1>24 DEF CommitFails, Result, FailedAnswer, Goto, TypeOK, RouteInv
<1> QED
  BY <1>a, OwnOrSame, <1>1, <1>2, <1>3, <1>4, <1>5, <1>6, <1>7, <1>8, <1>9,
      <1>10, <1>11, <1>12, <1>13, <1>14, <1>15, <1>16, <1>17, <1>18, <1>19,
      <1>20, <1>21, <1>22, <1>23, <1>24 DEF Own, Serve

\* A page read in id order after the rows up to the cursor extends them.
LEMMA ScanInductive ==
    ASSUME IInv, [Next]_vars, NEW c \in Calls
    PROVE  ScanInv(c)'
<1>a. TypeOK /\ PendingInv /\ ScanInv(c)
  BY DEF IInv
<1>b. /\ scan[c].last \in Nat /\ scan[c].got \subseteq Ids /\ scan[c].base \subseteq Ids
      /\ scan[c].twice \in BOOLEAN /\ scan[c].sorted \in BOOLEAN
      /\ Live \subseteq Ids /\ Ids \subseteq Nat \ {0}
  BY <1>a DEF TypeOK, Live, Ids
<1>1. CASE scan'[c] = scan[c] /\ (Op[c] = "scan" /\ res'[c] = "ok" => res[c] = "ok")
  <2>1. \A i \in scan[c].base : i \in Live' => i \in Live
    BY <1>a, RowsAppear DEF ScanInv
  <2>2. \A i \in scan[c].base : i < nextId /\ \A d \in Calls :
           pend[d].kind = "insert" => pend[d].id # i
    BY <1>a DEF ScanInv
  <2>3. \A i \in scan[c].base : i < nextId' /\ \A d \in Calls :
           pend'[d].kind = "insert" => pend'[d].id # i
    <3>1. /\ nextId \in Nat /\ nextId' \in Nat /\ nextId <= nextId'
          /\ \A d \in Calls : pend'[d].kind = "insert" =>
                (pend'[d].id = nextId \/ (pend[d].kind = "insert" /\ pend'[d].id = pend[d].id))
      BY RowsAppear
    <3>2. \A i \in scan[c].base : i \in Nat
      BY <1>b
    <3> QED BY <2>2, <3>1, <3>2
  <2>4. scan[c].sorted =>
           /\ ~scan[c].twice /\ \A i \in scan[c].got : i <= scan[c].last
           /\ \A i \in scan[c].base \cap Live' : i <= scan[c].last => i \in scan[c].got
    BY <1>a, <2>1 DEF ScanInv
  <2>5. Op[c] = "scan" /\ res'[c] = "ok" /\ scan[c].sorted =>
           scan[c].base \cap Live' \subseteq scan[c].got
    BY <1>a, <1>1, <2>1 DEF ScanInv
  <2> QED BY <1>1, <2>3, <2>4, <2>5 DEF ScanInv
<1>2. CASE ReadPage(c)
  <2> DEFINE inOrder(S, last) == Least(S, After(c)) /\ \A i \in S : i <= last
  <2>p. PICK S \in SUBSET After(c), last \in 0..MaxId :
           /\ IF S = {} THEN last = scan[c].last ELSE last \in S
           /\ res' = [res EXCEPT ![c] = IF S # After(c) THEN "none" ELSE "ok"]
           /\ scan' = [scan EXCEPT ![c] =
                 [last |-> last, got |-> scan[c].got \cup S,
                  base |-> IF scan[c].last = 0 THEN Live ELSE scan[c].base,
                  twice |-> scan[c].twice \/ scan[c].got \cap S # {},
                  sorted |-> scan[c].sorted /\ inOrder(S, last)]]
    BY <1>2 DEF ReadPage, HasMore, Result
  <2>1. /\ S \subseteq After(c) /\ (S = {} => last = scan[c].last) /\ (S # {} => last \in S)
        /\ scan'[c].last = last /\ scan'[c].got = scan[c].got \cup S
        /\ scan'[c].base = IF scan[c].last = 0 THEN Live ELSE scan[c].base
        /\ scan'[c].twice <=> (scan[c].twice \/ scan[c].got \cap S # {})
        /\ scan'[c].sorted <=> (scan[c].sorted /\ inOrder(S, last))
    BY <1>a, <2>p DEF TypeOK
  <2>a. UNCHANGED <<Live, pend, nextId>>
    BY <1>2 DEF ReadPage, tableVars, Live
  <2>b. \A i : i \in After(c) <=> i \in Live /\ i > scan[c].last
    BY DEF After
  <2>c. scan[c].last <= last /\ last \in Nat
    BY <1>b, <2>p, <2>b, BoundsAssumption
  <2>d. scan'[c].base = Live \/ (scan[c].last # 0 /\ scan'[c].base = scan[c].base)
    BY <2>1
  <2>e. scan'[c].got = scan[c].got \cup S /\ scan'[c].last = last
    BY <2>1
  <2>f. res'[c] = "ok" => S = After(c)
    BY <1>a, <2>p DEF TypeOK
  <2>2. \A i \in scan'[c].base : i < nextId /\ \A d \in Calls :
           pend[d].kind = "insert" => pend[d].id # i
    BY <1>a, <2>d DEF PendingInv, ScanInv
  <2>3. ASSUME scan'[c].sorted
        PROVE  /\ ~scan'[c].twice
               /\ \A i \in scan'[c].got : i <= last
               /\ \A i \in scan'[c].base \cap Live : i <= last => i \in scan'[c].got
               /\ res'[c] = "ok" => scan'[c].base \cap Live \subseteq scan'[c].got
    <3>1. /\ scan[c].sorted /\ ~scan[c].twice
          /\ \A i \in scan[c].got : i <= scan[c].last
          /\ \A i \in scan[c].base \cap Live : i <= scan[c].last => i \in scan[c].got
      BY <1>a, <2>1, <2>3 DEF ScanInv
    <3>2. /\ \A i \in S, j \in After(c) \ S : i < j
          /\ \A i \in S : i <= last
      BY <2>1, <2>3 DEF Least
    <3>a. (\A i \in scan[c].got : i \in Nat) /\ \A i \in Live : i \in Nat
      BY <1>b
    <3>b. \A i \in S : i \in Nat /\ i > scan[c].last
      BY <2>1, <2>b, <3>a
    <3>3. scan[c].got \cap S = {}
      BY <1>b, <3>1, <3>a, <3>b
    <3>4. \A i \in scan'[c].got : i <= last
      <4>1. \A i \in scan[c].got : i <= last
        BY <1>b, <2>c, <3>1, <3>a
      <4> QED BY <2>e, <3>2, <4>1
    <3>5. ASSUME NEW i \in Live, i \in scan'[c].base, i \notin scan'[c].got
          PROVE  i \in After(c) \ S
      <4>1. i \notin scan[c].got /\ i \notin S
        BY <2>e, <3>5
      <4>2. i > scan[c].last
        BY <1>b, <2>1, <3>1, <3>5, <4>1
      <4> QED BY <2>b, <4>1, <4>2
    <3>6. ASSUME NEW i \in After(c) \ S PROVE i > last
      <4>1. CASE S = {}
        BY <2>1, <2>b, <4>1
      <4>2. CASE S # {}
        BY <2>1, <3>2, <4>2, <1>b, <2>b
      <4> QED BY <4>1, <4>2
    <3>7. \A i \in scan'[c].base \cap Live : i <= last => i \in scan'[c].got
      <4> SUFFICES ASSUME NEW i \in Live, i \in scan'[c].base, i <= last, i \notin scan'[c].got
                   PROVE  FALSE
        OBVIOUS
      <4>1. i > last
        BY <3>5, <3>6
      <4> QED BY <2>c, <3>a, <4>1
    <3>8. ~scan'[c].twice
      BY <2>1, <3>1, <3>3
    <3>9. res'[c] = "ok" => scan'[c].base \cap Live \subseteq scan'[c].got
      BY <2>f, <3>5
    <3> QED BY <3>4, <3>7, <3>8, <3>9
  <2> QED BY <2>2, <2>3, <2>a, <2>e DEF ScanInv
<1> QED BY <1>1, <1>2, ScanSteps

-----------------------------------------------------------------------------
(* The theorems.                                                           *)

\* The invariant holds initially.
LEMMA Initially == Init => IInv
<1> SUFFICES ASSUME Init PROVE IInv
  OBVIOUS
<1> USE NoneAssumption, BoundsAssumption, CallsAssumption
<1>1. /\ name \in [Ids -> Names \cup {None}] /\ Live = 1..InitialRows /\ nextId = InitialRows + 1
      /\ Distinct(name, Live) /\ pend = [c \in Calls |-> NoWrite] /\ heaped = TRUE
      /\ cache = [f \in Filters |-> NoEntry]
  BY DEF Init, TableInit, CacheInit
<1>2. TypeOK
  <2>1. TableTypeOK /\ CacheTypeOK
    BY <1>1 DEF TableTypeOK, CacheTypeOK, Writes, NoWrite, Entries, NoEntry
  <2>2. NewScan \in [last : Nat, got : SUBSET Ids, base : SUBSET Ids,
                    twice : BOOLEAN, sorted : BOOLEAN]
    BY DEF NewScan, LastId
  <2> QED BY <2>1, <2>2 DEF Init, TypeOK, Awaits, Outcomes, Args, Arg, NoArg, NoTally
<1>3. \A c \in Calls : RouteInv(c) /\ CallInv(c)
  BY <1>1 DEF Init, RouteInv, CallInv, NoWrite, Unwritten, Unchecked, Reading
<1>4. PendingInv
  BY <1>1 DEF PendingInv, NoWrite
<1>5. NamesUniqueUnlessConcurrent
  BY <1>1 DEF NamesUniqueUnlessConcurrent, Distinct
<1>6. NameInv
  BY <1>1 DEF Init, NameInv, NoWrite
<1>7. TotalInv
  BY <1>1 DEF TotalInv, Cached, NoEntry
<1>8. TallyInv
  BY DEF Init, TallyInv
<1>9. \A c \in Calls : ScanInv(c)
  BY <1>1 DEF Init, ScanInv, NewScan, NoWrite
<1> QED BY <1>2, <1>3, <1>4, <1>5, <1>6, <1>7, <1>8, <1>9 DEF IInv

\* The invariant holds throughout.
THEOREM Invariance == Spec => []IInv
<1>1. ASSUME IInv, [Next]_vars PROVE IInv'
  <2>1. TypeOK'
    BY <1>1, TypeInductive DEF IInv
  <2>2. \A c \in Calls : RouteInv(c)' /\ CallInv(c)' /\ ScanInv(c)'
    BY <1>1, RouteInductive, CallInductive, ScanInductive
  <2> QED
    BY <1>1, <2>1, <2>2, PendingInductive, NamesInductive, TotalInductive, TallyInductive DEF IInv
<1> QED BY <1>1, Initially, PTL DEF Spec

\* Every variable keeps its type.
THEOREM TypeCorrect == Spec => []TypeOK
<1>1. IInv => TypeOK
  BY DEF IInv
<1> QED BY <1>1, Invariance, PTL

\* Two authors share a name only when each was named by a call that could not
\* see the other: one that was under way when the other checked the name
\* (CreateAuthorCommand and UpdateAuthorCommand, which check before they write).
THEOREM NamesCollideOnlyInRaces == Spec => []NamesUniqueUnlessConcurrent
<1>1. IInv => NamesUniqueUnlessConcurrent
  BY DEF IInv
<1> QED BY <1>1, Invariance, PTL

\* A call answered with an error holds no row that it could still commit, and
\* it has changed none, whatever failed in the repository and in the session,
\* but for a WebSocket create whose COMMIT itself reported the error.
THEOREM ErrorsLeaveNoEffect == Spec => []ErrorLeavesNoEffect
<1>1. IInv => ErrorLeavesNoEffect
  <2> SUFFICES ASSUME IInv, NEW c \in sent, res[c] # "ok"
               PROVE  /\ pend[c].kind = "none"
                      /\ c \in committed =>
                            res[c] = "unsettled" /\ Via[c] = "ws" /\ Op[c] = "create"
    BY DEF ErrorLeavesNoEffect
  <2>1. c \in Calls
    BY DEF IInv, TypeOK
  <2>2. CallInv(c) /\ res[c] \in Outcomes
    BY <2>1 DEF IInv, TypeOK
  <2>3. pc[c] \in {"reply", "commit", "done"}
    BY <2>2 DEF CallInv
  <2>4. res[c] \notin {"none", "ok"} /\ pend[c].kind = "none"
    BY <2>2, <2>3 DEF CallInv
  <2>5. c \in committed => res[c] = "unsettled" /\ Via[c] = "ws"
    BY <2>2, <2>4 DEF CallInv, Outcomes
  <2> QED BY <2>1, <2>2, <2>4, <2>5, CallsAssumption DEF CallInv
<1> QED BY <1>1, Invariance, PTL

\* The WebSocket handler answers a create with its row committed.
THEOREM WsAnswersAreCommitted == Spec => []WsAnswerIsCommitted
<1>1. IInv => WsAnswerIsCommitted
  <2> SUFFICES ASSUME IInv, NEW c \in sent, Via[c] = "ws", Op[c] = "create", res[c] = "ok"
               PROVE  c \in committed
    BY DEF WsAnswerIsCommitted
  <2>1. c \in Calls
    BY DEF IInv, TypeOK
  <2>2. CallInv(c)
    BY <2>1 DEF IInv
  <2>3. pc[c] = "done"
    BY <2>2 DEF CallInv
  <2> QED BY <2>2, <2>3 DEF CallInv
<1> QED BY <1>1, Invariance, PTL

\* A wrong cached total misses a committed write that renamed, whose
\* invalidation failed, or that looked for keys before the entry was stored.
THEOREM StaleTotalsAreAccounted == Spec => []StaleTotalAccounted
<1>1. IInv => StaleTotalAccounted
  <2> SUFFICES ASSUME IInv, NEW f \in Filters, Cached(f),
                      cache[f].count # Cardinality(Matching(f))
               PROVE  \E w \in committed \ cache[f].saw :
                         Op[w] = "update" \/ inv[w] = "failed" \/ w \in cache[f].late
    BY DEF StaleTotalAccounted
  <2>1. PICK w \in committed : w \notin cache[f].saw
    BY DEF IInv, TotalInv
  <2>2. w \in Calls
    BY DEF IInv, TypeOK
  <2>3. Op[w] = "update" \/ inv[w] \in {"done", "failed"}
    BY <2>1, <2>2 DEF IInv, CallInv
  <2>4. inv[w] = "done" => w \in cache[f].late
    BY <2>2 DEF IInv, TotalInv
  <2> QED BY <2>1, <2>3, <2>4
<1> QED BY <1>1, Invariance, PTL

\* A cursor scan whose pages all came in id order returns every row that was
\* there throughout, and none twice.
THEOREM SortedScansAreExact == Spec => []ScanExactWhenSorted
<1>1. IInv => ScanExactWhenSorted
  <2> SUFFICES ASSUME IInv, NEW c \in Calls, Op[c] = "scan", res[c] = "ok", scan[c].sorted
               PROVE  ~scan[c].twice /\ scan[c].base \cap Live \subseteq scan[c].got
    BY DEF ScanExactWhenSorted
  <2>1. ScanInv(c)
    BY DEF IInv
  <2> QED BY <2>1 DEF ScanInv
<1> QED BY <1>1, Invariance, PTL
-----------------------------------------------------------------------------
(* Names without a race.                                                   *)

\* A call between its name check and the commit of the name.
Naming(c) == \/ pc[c] = "flush" /\ Op[c] \in {"create", "update"}
             \/ pend[c].kind \in {"insert", "update"}
NamingAlone == \A c, d \in Calls : Naming(c) /\ Naming(d) => c = d

\* No row other than i has the name n.
Free(n, i) == \A j \in Live \ {i} : name[j] # n
Cleared(c) == /\ pc[c] = "flush" => Free(arg[c].name, arg[c].id)
              /\ pend[c].kind # "none" => Free(pend[c].name, pend[c].id)
NamesUnique == Distinct(name, Live)
UniqueInv == NamesUnique /\ \A c \in Calls : Cleared(c)

\* A step that commits nothing leaves what has been checked free.
LEMMA UniqueKept ==
    ASSUME IInv, UniqueInv, [Next]_vars, UNCHANGED name
    PROVE  UniqueInv'
<1>a. TypeOK /\ NamesUnique /\ (\A c \in Calls : Cleared(c))
  BY DEF IInv, UniqueInv
<1>b. UNCHANGED Live
  BY DEF Live
<1>c. name \in [Ids -> Names \cup {None}] /\ pend \in [Calls -> Writes] /\ Live \subseteq Ids
  BY <1>a DEF TypeOK, TableTypeOK, Live
<1> USE NoneAssumption
<1>1. ASSUME NEW c \in Calls PROVE Cleared(c)'
  <2>a. RouteInv(c) /\ CallInv(c) /\ Cleared(c)
    BY <1>a DEF IInv
  <2>1. CASE Same(c)
    BY <1>b, <2>a, <2>1 DEF Same, Cleared, Free
  <2>2. CASE LoadRow(c)
    <3>1. UNCHANGED pend /\ pc[c] = "load" /\ arg'[c].name = arg[c].name
      <4>1. arg[c] \in Args
        BY <1>a DEF TypeOK
      <4>2. \A x : [arg[c] EXCEPT !.old = x].name = arg[c].name
        BY <4>1 DEF Args
      <4>3. \A x : arg' = [arg EXCEPT ![c].old = x] => arg'[c] = [arg[c] EXCEPT !.old = x]
        BY <1>a DEF TypeOK
      <4> QED BY <2>2, <4>2, <4>3 DEF LoadRow, tableVars
    <3>2. pc'[c] = "flush" => arg'[c].name = None
      BY <1>a, <2>2, <2>a, <3>1 DEF LoadRow, Raise, Goto, TypeOK, RouteInv
    <3>3. pc'[c] = "flush" => Free(arg[c].name, arg[c].id)'
      BY <1>b, <3>2 DEF Free, Live
    <3> QED BY <1>b, <2>a, <3>1, <3>3 DEF Cleared, Free
  <2>3. CASE CheckName(c)
    <3>1. UNCHANGED <<arg, pend>> /\ pend[c].kind = "none" /\ arg[c].name \in Names
      BY <2>a, <2>3 DEF CheckName, CallInv, RouteInv, tableVars, Unwritten, Unchecked
    <3>2. pc'[c] = "flush" => NameFree(c)
      BY <1>a, <2>3 DEF CheckName, NameTaken, Raise, Goto, TypeOK
    <3>3. NameFree(c) => Free(arg[c].name, arg[c].id)
      BY <1>a, <3>1 DEF NameFree, Matching, Free, NamesUnique, Distinct
    <3> QED BY <1>b, <3>1, <3>2, <3>3 DEF Cleared, Free
  <2>4. CASE FlushWrite(c)
    <3>1. UNCHANGED arg /\ pc[c] = "flush" /\ pc'[c] # "flush"
      BY <1>a, <2>4 DEF FlushWrite, Insert, Rename, Remove, Raise, Goto, TypeOK
    <3>2. pend'[c].kind # "none" =>
             (pend'[c].name = arg[c].name /\ (arg[c].id \in Live => pend'[c].id = arg[c].id))
      BY <2>4, FlushedAsChecked
    <3>3. Free(arg[c].name, arg[c].id)
      BY <2>a, <3>1 DEF Cleared
    <3>4. pend'[c].kind # "none" => Free(pend[c].name, pend[c].id)'
      BY <1>b, <3>2, <3>3 DEF Free
    <3> QED BY <3>1, <3>4 DEF Cleared
  <2>5. CASE Settle(c)
    <3>1. pend'[c] = NoWrite /\ pc'[c] # "flush"
      BY <1>a, <1>c, <2>5 DEF Settle, Commit, Goto, Committed, TypeOK
    <3> QED BY <3>1 DEF NoWrite, Cleared
  <2>6. CASE pc'[c] # "flush" /\ (pend'[c] = pend[c] \/ pend'[c] = NoWrite)
    BY <1>b, <2>a, <2>6 DEF Cleared, Free, NoWrite
  <2> QED BY <1>a, OwnOrSame, OtherSteps, <2>1, <2>2, <2>3, <2>4, <2>5, <2>6
<1> QED BY <1>1, <1>a, <1>b DEF UniqueInv, NamesUnique, Distinct

\* A commit gives its row a name that is free, and no other call is about to.
LEMMA UniqueCommitted ==
    ASSUME IInv, UniqueInv, NamingAlone, NEW c \in Calls, Settle(c),
           [Next]_vars
    PROVE  UniqueInv'
<1>a. TypeOK /\ NamesUnique /\ PendingInv /\ (\A d \in Calls : Cleared(d))
  BY DEF IInv, UniqueInv
<1>b. /\ name \in [Ids -> Names \cup {None}] /\ pend \in [Calls -> Writes]
      /\ Live = {i \in Ids : name[i] # None} /\ Live' = {i \in Ids : name'[i] # None}
      /\ pc \in [Calls -> Awaits]
  BY <1>a DEF TypeOK, TableTypeOK, Live
<1> USE NoneAssumption
<1> DEFINE n == pend[c].name
           row == pend[c].id
<1>1. CASE pend[c].kind = "none"
  <2>1. UNCHANGED name
    BY <1>1 DEF Settle, Commit
  <2> QED BY <2>1, UniqueKept
<1>2. CASE pend[c].kind # "none"
  <2>1. /\ name' = [name EXCEPT ![row] = n] /\ pend' = [pend EXCEPT ![c] = NoWrite]
        /\ UNCHANGED arg /\ pc'[c] # "flush"
        /\ \A d \in Calls \ {c} : pc'[d] = pc[d]
    BY <1>b, <1>2 DEF Settle, Commit, Committed, Goto
  <2>2. \A i \in Ids : i # row => name'[i] = name[i]
    BY <1>b, <2>1
  <2>3. row \in Ids => name'[row] = n
    BY <1>b, <2>1
  <2>4. \A j \in Live \ {row} : name[j] # n
    BY <1>a, <1>2 DEF Cleared, Free
  <2>5. NamesUnique'
    BY <1>a, <1>b, <2>2, <2>3, <2>4 DEF NamesUnique, Distinct
  <2>6. ASSUME NEW m, NEW i, Free(m, i), n = None
        PROVE  Free(m, i)'
    BY <1>b, <2>2, <2>3, <2>6 DEF Free
  <2>7. ASSUME NEW d \in Calls PROVE Cleared(d)'
    <3>1. CASE d = c
      BY <1>b, <2>1, <3>1 DEF Cleared, NoWrite
    <3>2. CASE d # c /\ n = None
      <4>1. pend'[d] = pend[d] /\ pc'[d] = pc[d] /\ arg'[d] = arg[d] /\ Cleared(d)
        BY <1>a, <1>b, <2>1, <3>2
      <4>2. pc'[d] = "flush" => Free(arg[d].name, arg[d].id)'
        BY <2>1, <2>6, <3>2, <4>1 DEF Cleared, Free
      <4>3. ASSUME pend'[d].kind # "none" PROVE Free(pend[d].name, pend[d].id)'
        <5>1. Free(pend[d].name, pend[d].id)
          BY <4>1, <4>3 DEF Cleared
        <5>2. Free(pend[d].name, pend[d].id)'  <=> \A j \in Live' \ {pend[d].id} : name'[j] # pend[d].name
          BY <4>1 DEF Free
        <5> QED BY <1>b, <2>2, <2>3, <3>2, <5>1, <5>2 DEF Free
      <4> QED BY <4>2, <4>3 DEF Cleared
    <3>3. CASE d # c /\ n # None
      <4>1. pend'[d] = pend[d] /\ pc'[d] = pc[d] /\ arg'[d] = arg[d] /\ RouteInv(d)
        BY <1>b, <2>1, <3>3 DEF IInv
      <4>2. Naming(c)
        BY <1>a, <1>b, <1>2, <3>3 DEF Naming, PendingInv, Writes
      <4>3. ~Naming(d)
        BY <3>3, <4>2 DEF NamingAlone
      <4>4. pc[d] = "flush" => arg[d].name = None
        BY <4>1, <4>3 DEF Naming, RouteInv
      <4>5. pend[d].kind # "none" => pend[d].name = None
        BY <1>a, <1>b, <4>3 DEF Naming, PendingInv, Writes
      <4>6. \A i : Free(None, i)'
        BY <1>b DEF Free
      <4>7. pc'[d] = "flush" => Free(arg[d].name, arg[d].id)'
        BY <4>1, <4>4, <4>6 DEF Free
      <4>8. pend'[d].kind # "none" => Free(pend[d].name, pend[d].id)'
        BY <4>1, <4>5, <4>6 DEF Free
      <4> QED BY <4>7, <4>8 DEF Cleared
    <3> QED BY <3>1, <3>2, <3>3
  <2> QED BY <2>5, <2>7 DEF UniqueInv
<1> QED BY <1>1, <1>2

\* author.name has no unique constraint; yet as long as no two calls are between
\* their name checks and their commits at once, no two authors ever share a name,
\* whatever else reads, deletes, fails or answers early meanwhile.
THEOREM NamesUniqueWithoutRaces == Spec => ([]NamingAlone => []NamesUnique)
<1>1. Init => UniqueInv
  BY DEF Init, TableInit, UniqueInv, NamesUnique, Cleared, NoWrite
<1>2. IInv /\ UniqueInv /\ NamingAlone /\ [Next]_vars => UniqueInv'
  <2> SUFFICES ASSUME IInv, UniqueInv, NamingAlone, [Next]_vars PROVE UniqueInv'
    OBVIOUS
  <2>1. CASE \E c \in Calls : Settle(c)
    BY <2>1, UniqueCommitted
  <2>2. CASE UNCHANGED name
    BY <2>2, UniqueKept
  <2> QED BY <2>1, <2>2, TableSteps, FlushClaims DEF Rollback
<1>3. UniqueInv => NamesUnique
  BY DEF UniqueInv
<1> QED BY <1>1, <1>2, <1>3, Invariance, PTL DEF Spec
=============================================================================
