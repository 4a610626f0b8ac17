---------------------------- MODULE AuthorTable ----------------------------
(***************************************************************************)
(* The table author as the repository sees it (repositories/base.py,       *)
(* repositories/author_repository.py, storage/db.py): committed rows, and  *)
(* the one row each call's session has flushed and not yet committed.      *)
(* PostgreSQL runs at READ COMMITTED: a statement reads committed rows, an *)
(* UPDATE or DELETE waits for a row another session has flushed.           *)
(***************************************************************************)
EXTENDS Naturals, FiniteSets

CONSTANTS Calls, Names, None,
          InitialRows,   \* rows 1..InitialRows exist at the start
          InitialNames,  \* the names that they may have
          MaxId          \* bound: ids the sequence may hand out

VARIABLES name,      \* the committed rows: id -> name, None when there is none
          nextId,    \* author_id_seq
          pend,      \* the row each call has flushed and not committed
          heaped     \* an unordered SELECT still returns rows in id order

Ids == 1..MaxId
NoWrite == [kind |-> "none", id |-> 0, name |-> None]
Writes == [kind : {"none", "insert", "update", "delete"},
           id : Nat, name : Names \cup {None}]

Live == {i \in Ids : name[i] # None}

\* The initial names: the API alone, one call at a time, made them.
Distinct(f, S) == \A i, j \in S : f[i] = f[j] => i = j

TableTypeOK == /\ name \in [Ids -> Names \cup {None}]
               /\ nextId \in Nat
               /\ pend \in [Calls -> Writes]
               /\ heaped \in BOOLEAN

TableInit == /\ name \in [Ids -> Names \cup {None}]
             /\ Live = 1..InitialRows
             /\ \A i \in Live : name[i] \in InitialNames
             /\ Distinct(name, Live)
             /\ nextId = InitialRows + 1
             /\ pend = [c \in Calls |-> NoWrite]
             /\ heaped = TRUE

\* The rows a filter selects; None selects all.
Matching(f) == {i \in Live : f = None \/ name[i] = f}

\* An UPDATE or DELETE of row i by c waits for the session that flushed it.
Locked(i, c) == \E d \in Calls \ {c} : /\ pend[d].kind \in {"update", "delete"}
                                       /\ pend[d].id = i

Flush(c, kind, i, n) ==
    /\ pend' = [pend EXCEPT ![c] = [kind |-> kind, id |-> i, name |-> n]]
    /\ UNCHANGED <<name, heaped>>

\* session.add + flush of a new row: the sequence is not transactional.
FlushInsert(c, n) == /\ nextId \in Ids
                     /\ Flush(c, "insert", nextId, n)
                     /\ nextId' = nextId + 1

FlushUpdate(c, i, n) == /\ ~Locked(i, c)
                        /\ name[i] # None
                        /\ Flush(c, "update", i, n)
                        /\ UNCHANGED nextId

FlushDelete(c, i) == /\ ~Locked(i, c)
                     /\ name[i] # None
                     /\ Flush(c, "delete", i, None)
                     /\ UNCHANGED nextId

\* The row is gone: StaleDataError for an UPDATE, a warning for a DELETE.
RowGone(i, c) == ~Locked(i, c) /\ name[i] = None

\* A rewritten, removed or late row leaves the heap out of id order.
InOrder(w) == \/ w.kind = "none"
              \/ w.kind = "insert" /\ \A i \in Live : i < w.id

Commit(c) ==
    /\ name' = IF pend[c].kind = "none" THEN name
               ELSE [name EXCEPT ![pend[c].id] = pend[c].name]
    /\ heaped' = (heaped /\ InOrder(pend[c]))
    /\ pend' = [pend EXCEPT ![c] = NoWrite]
    /\ UNCHANGED nextId

\* Mutant: an error handler that leaves the flushed row in the session.
KeepFlushed(c) == UNCHANGED <<name, nextId, pend, heaped>>

\* The dead version an aborted INSERT or UPDATE leaves may be reused.
Rollback(c) ==
    /\ heaped' = (heaped /\ pend[c].kind = "none")
    /\ pend' = [pend EXCEPT ![c] = NoWrite]
    /\ UNCHANGED <<name, nextId>>
=============================================================================
