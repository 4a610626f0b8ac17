--------------------------- MODULE AuthorService ---------------------------
(***************************************************************************)
(* The author API: the commands (commands/author_commands.py) behind the   *)
(* HTTP endpoints and the WebSocket handlers, offset pages with their      *)
(* cached totals, and cursor scans, over the table and the count cache.    *)
(* Every call runs in a session of its own; pc[c] names the await it is    *)
(* in, and between two awaits other calls run.                             *)
(*                                                                         *)
(* A WebSocket handler commits before it answers (session.begin()).  An    *)
(* HTTP endpoint's session comes from get_session, a yield dependency that *)
(* FastAPI resumes, and that then commits, once the response is out.       *)
(***************************************************************************)
EXTENDS Naturals, FiniteSets

CONSTANTS Calls, Names, None, InitialRows, InitialNames, MaxId,
          Op,         \* Op[c]: create, update, delete, page or scan
          Via,        \* Via[c]: http or ws
          Filters,    \* the filters pages are asked with; None: no filter
          PageSize,   \* per_page of the requests
          DefaultPageSize, MaxPageSize,
          MaxRequests,\* bound: calls under way or ended
          MaxFaults   \* bound: database and Redis commands that fail

VARIABLES name, nextId, pend, heaped, cache,
          pc,
          arg,        \* the id and name of the request, and the loaded name
          res,        \* what the command came to
          sent,       \* the calls whose response has been sent
          inv,        \* how far a call's invalidate_count_cache is
          found,      \* the keys its SCAN returned
          tally,      \* an offset page's COUNT: the total and the calls it saw
          scan,       \* a cursor scan: cursor and pages so far
          faults,     \* commands that have failed
          committed,  \* ghost: calls whose write is committed
          namer,      \* ghost: the call that gave a row its present name
          ruledOut    \* ghost: calls committed when c found its name free

INSTANCE AuthorTable
INSTANCE CountCache
INSTANCE Paging

tableVars == <<name, nextId, pend, heaped>>
ghostVars == <<committed, namer, ruledOut>>
vars == <<name, nextId, pend, heaped, cache, pc, arg, res, sent, inv, found,
          tally, scan, faults, committed, namer, ruledOut>>

ASSUME NoneAssumption == None \notin Calls /\ None \notin Names
\* The empty cursor is a cursor.
ASSUME CursorAssumption == None # ""
ASSUME BoundsAssumption == /\ InitialRows \in Nat /\ MaxId \in Nat
                           /\ InitialRows <= MaxId
                           /\ PageSize \in Nat \cup {None}
                           /\ DefaultPageSize \in Nat \ {0} /\ MaxPageSize \in Nat \ {0}
                           /\ MaxRequests \in Nat /\ MaxFaults \in Nat
ASSUME CallsAssumption ==
    /\ Op \in [Calls -> {"create", "update", "delete", "page", "scan"}]
    /\ Via \in [Calls -> {"http", "ws"}]
    /\ Filters \subseteq Names \cup {None}
    \* The WebSocket API registers no handler that updates or deletes.
    /\ \A c \in Calls : Op[c] \in {"update", "delete"} => Via[c] = "http"

Arg(i, n) == [id |-> i, name |-> n, old |-> None]
NoArg == Arg(0, None)
\* Mutant: -1 for a total that is not known.
UnknownTotal == [total |-> 0 - 1, saw |-> {}]
NoTally == [total |-> 0, saw |-> {}]
\* A scan: its cursor, the ids returned, the rows of its first page's time,
\* whether an id came twice, and whether every page came in id order.
NewScan == [last |-> LastId(""), got |-> {}, base |-> {}, twice |-> FALSE, sorted |-> TRUE]

Awaits == {"idle", "load", "check", "flush", "refresh", "sweep", "drop", "reply", "commit",
           "lookup", "count", "store", "data", "page", "list", "done"}
Refusals == {"conflict", "notfound"}
Outcomes == {"none", "ok", "dberror", "unsettled"} \cup Refusals
Args == [id : Nat, name : Names \cup {None}, old : Names \cup {None}]

TypeOK ==
    /\ TableTypeOK
    /\ CacheTypeOK
    /\ pc \in [Calls -> Awaits]
    /\ arg \in [Calls -> Args]
    /\ res \in [Calls -> Outcomes]
    /\ sent \in SUBSET Calls
    /\ inv \in [Calls -> {"none", "swept", "done", "failed"}]
    /\ found \in [Calls -> SUBSET Filters]
    /\ tally \in [Calls -> [total : Nat, saw : SUBSET Calls]]
    /\ scan \in [Calls -> [last : Nat, got : SUBSET Ids, base : SUBSET Ids,
                           twice : BOOLEAN, sorted : BOOLEAN]]
    /\ faults \in Nat
    /\ committed \in SUBSET Calls
    /\ namer \in [Ids -> Calls \cup {None}]
    /\ ruledOut \in [Calls -> SUBSET Calls]

Init ==
    /\ TableInit
    /\ CacheInit
    /\ pc = [c \in Calls |-> "idle"]
    /\ arg = [c \in Calls |-> NoArg]
    /\ res = [c \in Calls |-> "none"]
    /\ sent = {}
    /\ inv = [c \in Calls |-> "none"]
    /\ found = [c \in Calls |-> {}]
    /\ tally = [c \in Calls |-> NoTally]
    /\ scan = [c \in Calls |-> NewScan]
    /\ faults = 0
    /\ committed = {}
    /\ namer = [i \in Ids |-> None]
    /\ ruledOut = [c \in Calls |-> {}]

-----------------------------------------------------------------------------
(* Shared by the actions.                                                  *)

Goto(c, from, to) == pc[c] = from /\ pc' = [pc EXCEPT ![c] = to]

Fault == faults < MaxFaults /\ faults' = faults + 1

Result(c, r) == res' = [res EXCEPT ![c] = r]

\* Mutant: the WebSocket handler opens no transaction of its own.
ReturnedUnbegun(c) == "reply"

\* A command that returned: the WebSocket handler commits, then answers; the
\* HTTP endpoint answers, and its session commits behind the response.
Returned(c) == IF Via[c] = "ws" THEN "commit" ELSE "reply"

\* The command raised; handle_http_errors and handle_ws_errors make an answer.
Raise(c, from, r) == Goto(c, from, "reply") /\ Result(c, r)

-----------------------------------------------------------------------------
(* Requests.                                                               *)

Request(c, ops, to, a) ==
    /\ Op[c] \in ops
    /\ Cardinality({d \in Calls : pc[d] # "idle"}) < MaxRequests
    /\ Goto(c, "idle", to)
    /\ arg' = [arg EXCEPT ![c] = a]
    /\ UNCHANGED <<tableVars, cache, res, sent, inv, found, tally, scan, faults, ghostVars>>

RequestCreate(c) == \E n \in Names : Request(c, {"create"}, "check", Arg(0, n))
RequestUpdate(c) == \E i \in Ids, n \in Names :
    Request(c, {"update"}, "load", Arg(i, n))
RequestDelete(c) == \E i \in Ids : Request(c, {"delete"}, "load", Arg(i, None))
\* get_paginated_results: a cursor, the empty one for the first page, asks for
\* a scan, and no cursor for an offset page.  A page size below 1 is refused.
PageRequest(c, cursor, f) ==
    /\ Accepted(PageSize)
    /\ IF Strategy(cursor) = "cursor" THEN Request(c, {"scan"}, "page", NoArg)
       ELSE Request(c, {"page"}, "lookup", Arg(0, f))
Pages(c) == PageRequest(c, "", None) \/ \E f \in Filters : PageRequest(c, None, f)
RequestPage(c) == Via[c] = "http" /\ Pages(c)
PageHandler(c) == Via[c] = "ws" /\ Pages(c)
\* GetAuthorsCommand: all rows, those with a name, or those a search finds.
ListRequest(c) == Request(c, {"page", "scan"}, "list", NoArg)
RequestList(c) == Via[c] = "http" /\ ListRequest(c)
ListHandler(c) == Via[c] = "ws" /\ ListRequest(c)

-----------------------------------------------------------------------------
(* The commands.                                                           *)

\* get_by_id of an update or a delete.
LoadRow(c) ==
    /\ pc[c] = "load"
    /\ \/ /\ arg[c].id \notin Live
          /\ Raise(c, "load", "notfound")
          /\ UNCHANGED arg
       \/ /\ arg[c].id \in Live
          /\ Goto(c, "load", IF Op[c] = "update" THEN "check" ELSE "flush")
          /\ arg' = [arg EXCEPT ![c].old = name[arg[c].id]]
          /\ UNCHANGED res
    /\ UNCHANGED <<tableVars, cache, sent, inv, found, tally, scan, faults, ghostVars>>

\* get_by_name: no row has the name, or first() returns one that has it, which
\* an update may find to be its own.
NameTaken(c) == /\ \E i \in Matching(arg[c].name) : i # arg[c].id
                /\ Raise(c, "check", "conflict")
                /\ UNCHANGED ruledOut

\* Mutant: a command that does not look the name up.
NameUnchecked(c) == /\ Goto(c, "check", "flush")
                    /\ ruledOut' = [ruledOut EXCEPT ![c] = committed]
                    /\ UNCHANGED res

NameFree(c) ==
    /\ Goto(c, "check", "flush")
    /\ \/ /\ Matching(arg[c].name) = {}
          /\ ruledOut' = [ruledOut EXCEPT ![c] = committed]
       \/ /\ arg[c].id \in Matching(arg[c].name)
          /\ UNCHANGED ruledOut
    /\ UNCHANGED res

CheckName(c) ==
    /\ pc[c] = "check"
    /\ NameTaken(c) \/ NameFree(c)
    /\ UNCHANGED <<tableVars, cache, arg, sent, inv, found, tally, scan, faults, committed, namer>>

Insert(c) ==
    /\ Op[c] = "create"
    /\ FlushInsert(c, arg[c].name)
    /\ Goto(c, "flush", "refresh")
    /\ UNCHANGED res

\* An update that sets the loaded name again issues no statement.
Rename(c) ==
    /\ Op[c] = "update"
    /\ \/ /\ arg[c].name = arg[c].old
          /\ Goto(c, "flush", "refresh")
          /\ UNCHANGED <<tableVars, res>>
       \/ /\ arg[c].name # arg[c].old
          /\ FlushUpdate(c, arg[c].id, arg[c].name)
          /\ Goto(c, "flush", "refresh")
          /\ UNCHANGED res
       \/ /\ arg[c].name # arg[c].old
          /\ RowGone(arg[c].id, c)
          /\ Raise(c, "flush", "dberror")
          /\ UNCHANGED tableVars

\* A DELETE that finds no row is only warned about.
Remove(c) ==
    /\ Op[c] = "delete"
    /\ Goto(c, "flush", "sweep")
    /\ \/ FlushDelete(c, arg[c].id)
       \/ RowGone(arg[c].id, c) /\ UNCHANGED tableVars
    /\ UNCHANGED res

FlushWrite(c) ==
    /\ pc[c] = "flush"
    /\ Insert(c) \/ Rename(c) \/ Remove(c)
    /\ UNCHANGED <<cache, arg, sent, inv, found, tally, scan, faults, ghostVars>>

\* session.refresh: raises when the row it reads has gone.
Refresh(c) ==
    /\ pc[c] = "refresh"
    /\ \/ /\ pend[c].kind # "none" \/ arg[c].id \in Live
          /\ Goto(c, "refresh", IF Op[c] = "create" THEN "sweep" ELSE Returned(c))
          /\ Result(c, IF Op[c] = "create" THEN "none" ELSE "ok")
       \/ /\ pend[c].kind = "none" /\ arg[c].id \notin Live
          /\ Raise(c, "refresh", "dberror")
    /\ UNCHANGED <<tableVars, cache, arg, sent, inv, found, tally, scan, faults, ghostVars>>

\* A statement fails: the repository rolls back and raises.
StatementFails(c) ==
    /\ pc[c] \in {"load", "check", "flush", "refresh"}
    /\ Raise(c, pc[c], "dberror")
    /\ Rollback(c)
    /\ Fault
    /\ UNCHANGED <<cache, arg, sent, inv, found, tally, scan, ghostVars>>

-----------------------------------------------------------------------------
(* invalidate_count_cache, before the commit; redis_safe swallows errors.  *)

\* Mutant: a sweep that finds the unfiltered total only.
SweepUnfiltered(c) ==
    /\ Goto(c, "sweep", "drop")
    /\ found' = [found EXCEPT ![c] = FoundUnfiltered]
    /\ inv' = [inv EXCEPT ![c] = "swept"]
    /\ Result(c, "ok")
    /\ UNCHANGED <<tableVars, cache, arg, sent, tally, scan, faults, ghostVars>>

Sweep(c) ==
    /\ Goto(c, "sweep", IF Found = {} THEN Returned(c) ELSE "drop")
    /\ found' = [found EXCEPT ![c] = Found]
    /\ inv' = [inv EXCEPT ![c] = IF Found = {} THEN "done" ELSE "swept"]
    /\ Result(c, "ok")
    /\ UNCHANGED <<tableVars, cache, arg, sent, tally, scan, faults, ghostVars>>

DropFound(c) ==
    /\ Goto(c, "drop", Returned(c))
    /\ Drop(found[c])
    /\ inv' = [inv EXCEPT ![c] = "done"]
    /\ found' = [found EXCEPT ![c] = {}]
    /\ UNCHANGED <<tableVars, arg, res, sent, tally, scan, faults, ghostVars>>

\* No pool, or a Redis error at the SCAN or at the DELETE.
InvalidationFails(c) ==
    /\ pc[c] \in {"sweep", "drop"}
    /\ Goto(c, pc[c], Returned(c))
    /\ inv' = [inv EXCEPT ![c] = "failed"]
    /\ Result(c, "ok")
    /\ found' = [found EXCEPT ![c] = {}]
    /\ Fault
    /\ UNCHANGED <<tableVars, cache, arg, sent, tally, scan, ghostVars>>

-----------------------------------------------------------------------------
(* The answer and the commit.                                              *)

\* Only the endpoints that write take their session from get_session.
Reply(c) ==
    /\ Goto(c, "reply", IF Via[c] = "http" /\ Op[c] # "scan" THEN "commit" ELSE "done")
    /\ sent' = sent \cup {c}
    /\ arg' = [arg EXCEPT ![c] = NoArg]
    /\ UNCHANGED <<tableVars, cache, res, inv, found, tally, scan, faults, ghostVars>>

Committed(c) == IF Via[c] = "ws" THEN "reply" ELSE "done"

\* The COMMIT takes effect.
Settle(c) ==
    /\ Goto(c, "commit", Committed(c))
    /\ Commit(c)
    /\ committed' = IF pend[c].kind = "none" THEN committed ELSE committed \cup {c}
    /\ namer' = IF pend[c].kind = "none" \/ pend[c].name = name[pend[c].id] THEN namer
                ELSE [namer EXCEPT ![pend[c].id] = c]
    /\ UNCHANGED <<cache, arg, sent, inv, found, tally, scan, ruledOut>>

CommitWrite(c) == Settle(c) /\ UNCHANGED <<res, faults>>

\* What becomes of a COMMIT that raises: over a WebSocket the client is told of
\* a database error, over HTTP it has its answer.
FailedAnswer(c) == IF Via[c] = "ws" THEN "unsettled" ELSE res[c]

\* The COMMIT raises and has no effect.
CommitFails(c) ==
    /\ Goto(c, "commit", Committed(c))
    /\ Rollback(c)
    /\ Result(c, FailedAnswer(c))
    /\ Fault
    /\ UNCHANGED <<cache, arg, sent, inv, found, tally, scan, ghostVars>>

\* The COMMIT takes effect and its acknowledgement is lost, so that it raises.
AcknowledgementLost(c) ==
    /\ Settle(c)
    /\ Result(c, FailedAnswer(c))
    /\ Fault

-----------------------------------------------------------------------------
(* An offset page: the cached total or a COUNT, then the page's rows.      *)

\* A Redis error, or no pool, is a miss.
LookUpTotal(c) ==
    /\ pc[c] = "lookup"
    /\ \/ Cached(arg[c].name) /\ Goto(c, "lookup", "data") /\ UNCHANGED faults
       \/ ~Cached(arg[c].name) /\ Goto(c, "lookup", "count") /\ UNCHANGED faults
       \/ Cached(arg[c].name) /\ Goto(c, "lookup", "count") /\ Fault
    /\ UNCHANGED <<tableVars, cache, arg, res, sent, inv, found, tally, scan, ghostVars>>

CountRows(c) ==
    /\ Goto(c, "count", "store")
    /\ tally' = [tally EXCEPT ![c] = [total |-> Cardinality(Matching(arg[c].name)),
                                      saw |-> committed]]
    /\ UNCHANGED <<tableVars, cache, arg, res, sent, inv, found, scan, faults, ghostVars>>

\* SETEX, or nothing when Redis fails.
StoreTotal(c) ==
    /\ Goto(c, "store", "data")
    /\ \/ /\ Put(arg[c].name, tally[c].total, tally[c].saw,
                 {w \in Calls : inv[w] # "none"})
          /\ UNCHANGED faults
       \/ Fault /\ UNCHANGED cache
    /\ tally' = [tally EXCEPT ![c] = NoTally]
    /\ UNCHANGED <<tableVars, arg, res, sent, inv, found, scan, ghostVars>>

\* The rows are read and returned, or a query fails.  The client asks again.
PageEnds(c) ==
    /\ \/ Goto(c, "data", "idle") /\ UNCHANGED faults
       \/ Goto(c, "count", "idle") /\ Fault
    /\ arg' = [arg EXCEPT ![c] = NoArg]
    /\ UNCHANGED <<tableVars, cache, res, sent, inv, found, tally, scan, ghostVars>>

\* The query of a list ends, with rows or an error.
ListRows(c) ==
    /\ Goto(c, "list", "idle")
    /\ UNCHANGED <<tableVars, cache, arg, res, sent, inv, found, tally, scan, faults, ghostVars>>

TotalExpires(f) ==
    /\ Lapse(f)
    /\ UNCHANGED <<tableVars, pc, arg, res, sent, inv, found, tally, scan, faults, ghostVars>>

-----------------------------------------------------------------------------
(* A cursor scan: pages of rows with id > last, in no stated order.        *)

Least(S, T) == S \subseteq T /\ \A i \in S, j \in T \ S : i < j

\* WHERE id > last_id
After(c) == {i \in Live : i > scan[c].last}

\* Mutant: LIMIT page_size, which cannot tell that more rows follow.
NoLookAhead(c, S) == FALSE

\* LIMIT page_size + 1: has_more when the extra row came back.
HasMore(c, S) == S # After(c)

ReadPage(c) ==
    /\ pc[c] = "page"
    /\ \E S \in SUBSET After(c), last \in 0..MaxId :
           LET more == HasMore(c, S)
               inOrder == Least(S, After(c)) /\ \A i \in S : i <= last
           IN  /\ Cardinality(S) <= Capped(PageSize)
               /\ more => Cardinality(S) = Capped(PageSize)
               /\ IF S = {} THEN last = scan[c].last ELSE last \in S
               /\ heaped => inOrder
               /\ Goto(c, "page", IF more THEN "page" ELSE "reply")
               /\ Result(c, IF more THEN "none" ELSE "ok")
               /\ scan' = [scan EXCEPT ![c] =
                      [last |-> last, got |-> @.got \cup S,
                       base |-> IF @.last = 0 THEN Live ELSE @.base,
                       twice |-> @.twice \/ @.got \cap S # {},
                       sorted |-> @.sorted /\ inOrder]]
               /\ UNCHANGED <<tableVars, cache, arg, sent, inv, found, tally, faults, ghostVars>>

-----------------------------------------------------------------------------
\* What the server does next for a call it has begun.
Serve(c) ==
    \/ LoadRow(c) \/ CheckName(c) \/ FlushWrite(c) \/ Refresh(c)
    \/ Sweep(c) \/ DropFound(c) \/ Reply(c) \/ CommitWrite(c)
    \/ LookUpTotal(c) \/ CountRows(c) \/ StoreTotal(c) \/ PageEnds(c)
    \/ ReadPage(c) \/ ListRows(c)

Next ==
    \/ \E c \in Calls :
        \/ RequestCreate(c) \/ RequestUpdate(c) \/ RequestDelete(c)
        \/ RequestPage(c) \/ PageHandler(c) \/ RequestList(c) \/ ListHandler(c)
        \/ Serve(c)
        \/ StatementFails(c) \/ InvalidationFails(c)
        \/ CommitFails(c) \/ AcknowledgementLost(c)
    \/ \E f \in Filters : TotalExpires(f)

\* The event loop resumes every call whose await has ended, a row lock is
\* released when its holder ends, and Redis ends a key when its TTL is over.
Fairness == /\ \A c \in Calls : WF_vars(Serve(c))
            /\ \A f \in Filters : WF_vars(TotalExpires(f))

Spec == Init /\ [][Next]_vars /\ Fairness

-----------------------------------------------------------------------------
(* Properties.                                                             *)

\* The name check and the insert are separate statements and author.name has
\* no unique constraint, so two rows may share a name; but then each was named
\* by a call whose check could not see the other call's commit.
NamesUniqueUnlessConcurrent ==
    \A i, j \in Live :
        i # j /\ name[i] = name[j] =>
            /\ namer[i] # None /\ namer[j] # None
            /\ namer[i] \notin ruledOut[namer[j]]
            /\ namer[j] \notin ruledOut[namer[i]]

\* Whatever fails and wherever, an answered call that failed holds no flushed
\* row its session could still commit, and it has changed no row unless what
\* failed is the COMMIT of a WebSocket create itself.
ErrorLeavesNoEffect ==
    \A c \in sent : res[c] # "ok" =>
        /\ pend[c].kind = "none"
        /\ c \in committed => res[c] = "unsettled" /\ Via[c] = "ws" /\ Op[c] = "create"

\* The answer to a WebSocket create is sent with its row committed, so that
\* every later call sees the author.
WsAnswerIsCommitted ==
    \A c \in sent : Via[c] = "ws" /\ Op[c] = "create" /\ res[c] = "ok" => c \in committed

\* A cached total that is wrong has a cause: a write it did not count, which
\* renames (renames invalidate nothing), whose invalidation failed, or which had
\* looked for keys to delete before the entry was there.
StaleTotalAccounted ==
    \A f \in Filters :
        Cached(f) /\ cache[f].count # Cardinality(Matching(f)) =>
            \E w \in committed \ cache[f].saw :
                Op[w] = "update" \/ inv[w] = "failed" \/ w \in cache[f].late

\* A scan whose pages all came in id order returns every row that was there
\* from its first page on, and none twice, whatever else commits meanwhile.
ScanExactWhenSorted ==
    \A c \in Calls :
        Op[c] = "scan" /\ res[c] = "ok" /\ scan[c].sorted =>
            ~scan[c].twice /\ scan[c].base \cap Live \subseteq scan[c].got

\* Offset pages of the table, were it left alone: pages 1 to the counted last one
\* partition its rows, has_more is right on each, the page after them is empty.
OffsetPagesPartition ==
    \A size \in 1..(MaxId + 1) : OffsetPagesExact(Cardinality(Live), size)

\* The ids that authors have had, and what each call has been answered.
UsedIds == {i \in Ids : i <= InitialRows \/ namer[i] # None}
Answer(c) == IF res[c] \in Refusals THEN "refused"
             ELSE IF res[c] = "ok" THEN "ok" ELSE "failed"
Answered == [c \in Calls |-> IF c \in sent THEN Answer(c) ELSE "open"]

Api == INSTANCE AuthorApi WITH used <- UsedIds, outcome <- Answered

\* The service implements the API's promises, whatever fails and however calls
\* interleave: a call has one answer and at most one effect, a refusal has none,
\* not even later, a WebSocket create is answered after its commit, and only one
\* that is told of a database error may leave its client in doubt.
ImplementsAuthorApi == Api!Spec

\* However counts, invalidations and commits interleave, once the writers are
\* done the cached totals become right and stay right.
TotalsConverge ==
    <>[](\A f \in Filters : Cached(f) => cache[f].count = Cardinality(Matching(f)))

\* Every call ends, whatever it fails at and whichever row it waits for.
EveryCallEnds ==
    \A c \in Calls : pc[c] # "idle" ~> pc[c] \in {"idle", "done"}
=============================================================================
