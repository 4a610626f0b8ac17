--------------------------- MODULE AuditPipeline ---------------------------
(***************************************************************************)
(* The audit log of utils/audit_logger.py and the part of the lifespan in  *)
(* app/__init__.py that shuts it down: calls of log_user_action put        *)
(* entries into a bounded asyncio.Queue, one background worker takes them  *)
(* out in batches and writes each batch in one transaction, and the        *)
(* shutdown flushes the queue, closes the Redis pools and then cancels the *)
(* worker.  An action is the code between two awaits.                      *)
(***************************************************************************)
EXTENDS Naturals, Sequences, FiniteSets

CONSTANTS Calls,          \* the calls of log_user_action, one entry each
          QueueMax,       \* AUDIT_QUEUE_MAX_SIZE
          BatchSize,      \* AUDIT_BATCH_SIZE
          Backpressure,   \* the calls that find AUDIT_QUEUE_TIMEOUT > 0
          MaxFailures     \* bound on the errors of the database and the loop

VARIABLES call,       \* where each call of log_user_action is
          queue,      \* _audit_queue
          worker,     \* the await audit_log_worker is in
          batch,      \* the worker's local batch
          shutdown,   \* how far the lifespan has come
          remaining,  \* flush_audit_queue's remaining_logs
          table,      \* the committed rows of each entry
          errors,     \* audit_log_errors_total and the error log lines
          failures

vars == <<call, queue, worker, batch, shutdown, remaining, table, errors, failures>>

ASSUME QueueAssumption == QueueMax \in Nat \ {0}
ASSUME BatchAssumption == BatchSize \in Nat \ {0}
ASSUME FailureAssumption == MaxFailures \in Nat /\ Backpressure \subseteq Calls

\* The entries of a sequence.
Entries(s) == {s[i] : i \in 1 .. Len(s)}

TypeOK ==
    /\ call \in [Calls -> {"new", "waiting", "accepted", "dropped", "rejected"}]
    /\ queue \in Seq(Calls)
    /\ worker \in {"collect", "write", "backoff", "cancelled"}
    /\ batch \in Seq(Calls)
    /\ shutdown \in {"no", "flush", "close", "done"}
    /\ remaining \in Seq(Calls)
    /\ table \in [Calls -> Nat]
    /\ errors \in Nat
    /\ failures \in Nat

Init ==
    /\ call = [c \in Calls |-> "new"]
    /\ queue = <<>>
    /\ worker = "collect"
    /\ batch = <<>>
    /\ shutdown = "no"
    /\ remaining = <<>>
    /\ table = [c \in Calls |-> 0]
    /\ errors = 0
    /\ failures = 0

-----------------------------------------------------------------------------

Full == Len(queue) >= QueueMax

Return(c, from, to) == call[c] = from /\ call' = [call EXCEPT ![c] = to]

\* asyncio.Queue.put_nowait when there is room.
Put(c) == ~Full /\ queue' = Append(queue, c)

\* A commit inserts one row per entry of the batch.
Insert(s) ==
    table' = [c \in Calls |-> IF c \in Entries(s) THEN table[c] + 1 ELSE table[c]]

\* An exception where one is possible.
Fail == failures < MaxFailures /\ failures' = failures + 1

-----------------------------------------------------------------------------
(* log_user_action, called by requests and messages while the app serves   *)

PutNowait(c) ==
    /\ shutdown = "no"
    /\ Return(c, "new", "accepted")
    /\ Put(c)
    /\ UNCHANGED <<worker, batch, shutdown, remaining, table, errors, failures>>

\* QueueFull with a timeout, a setting that every call reads: the call awaits
\* queue.put.
AwaitSpace(c) ==
    /\ shutdown = "no"
    /\ Full /\ c \in Backpressure
    /\ Return(c, "new", "waiting")
    /\ UNCHANGED <<queue, worker, batch, shutdown, remaining, table, errors,
                   failures>>

\* QueueFull without a timeout.
DropNow(c) ==
    /\ shutdown = "no"
    /\ Full /\ c \notin Backpressure
    /\ Return(c, "new", "dropped")
    /\ UNCHANGED <<queue, worker, batch, shutdown, remaining, table, errors,
                   failures>>

\* Invalid input: a ValidationError for the caller, or None.
Reject(c) ==
    /\ shutdown = "no"
    /\ Return(c, "new", "rejected")
    /\ UNCHANGED <<queue, worker, batch, shutdown, remaining, table, errors,
                   failures>>

\* Mutant: a call woken from its wait does not check again that there is room.
PutWithoutCheck(c) ==
    /\ Return(c, "waiting", "accepted")
    /\ queue' = Append(queue, c)
    /\ UNCHANGED <<worker, batch, shutdown, remaining, table, errors, failures>>

\* The awaited put finds room again; another call may have taken it first.
PutResumes(c) ==
    /\ Return(c, "waiting", "accepted")
    /\ Put(c)
    /\ UNCHANGED <<worker, batch, shutdown, remaining, table, errors, failures>>

\* Mutant: queue.put is awaited without wait_for.
PutNeverTimesOut(c) == FALSE /\ UNCHANGED vars

\* wait_for gives up after AUDIT_QUEUE_TIMEOUT.
PutTimesOut(c) ==
    /\ Return(c, "waiting", "dropped")
    /\ UNCHANGED <<queue, worker, batch, shutdown, remaining, table, errors,
                   failures>>

-----------------------------------------------------------------------------
(* audit_log_worker                                                        *)

\* queue.get returns the oldest entry; a full batch is written.
Collect ==
    /\ worker = "collect" /\ queue # <<>>
    /\ batch' = Append(batch, Head(queue))
    /\ queue' = Tail(queue)
    /\ worker' = IF Len(batch') = BatchSize THEN "write" ELSE "collect"
    /\ UNCHANGED <<call, shutdown, remaining, table, errors, failures>>

\* Mutant: the worker writes full batches only.
BatchNeverTimesOut == FALSE /\ UNCHANGED vars

\* AUDIT_BATCH_TIMEOUT: what has been collected is written.
BatchTimeout ==
    /\ worker = "collect" /\ batch # <<>>
    /\ worker' = "write"
    /\ UNCHANGED <<call, queue, batch, shutdown, remaining, table, errors, failures>>

\* Mutant: the batch is not cleared after it was written.
WriteBatchKeepsIt ==
    /\ worker = "write"
    /\ Insert(batch)
    /\ worker' = "collect"
    /\ UNCHANGED <<call, queue, batch, shutdown, remaining, errors, failures>>

WriteBatch ==
    /\ worker = "write"
    /\ Insert(batch)
    /\ batch' = <<>>
    /\ worker' = "collect"
    /\ UNCHANGED <<call, queue, shutdown, remaining, errors, failures>>

\* Mutant: a failed write is passed over without an error.
WriteBatchFailsSilently ==
    /\ worker = "write"
    /\ Fail
    /\ Insert(batch) \/ UNCHANGED table
    /\ batch' = <<>>
    /\ worker' = "collect"
    /\ UNCHANGED <<call, queue, shutdown, remaining, errors>>

\* The transaction fails; the error may also arrive after the commit.
WriteBatchFails ==
    /\ worker = "write"
    /\ Fail
    /\ Insert(batch) \/ UNCHANGED table
    /\ batch' = <<>>
    /\ errors' = errors + 1
    /\ worker' = "collect"
    /\ UNCHANGED <<call, queue, shutdown, remaining>>

\* Mutant: an error of the loop ends the worker.
WorkerErrorIsFinal ==
    /\ worker = "collect"
    /\ Fail
    /\ batch' = <<>>
    /\ errors' = errors + 1
    /\ worker' = "ended"
    /\ UNCHANGED <<call, queue, shutdown, remaining, table>>

\* An error of the loop itself is logged and slept over; the next iteration
\* starts with an empty batch.
WorkerError ==
    /\ worker = "collect"
    /\ Fail
    /\ batch' = <<>>
    /\ errors' = errors + 1
    /\ worker' = "backoff"
    /\ UNCHANGED <<call, queue, shutdown, remaining, table>>

BackoffOver ==
    /\ worker = "backoff"
    /\ worker' = "collect"
    /\ UNCHANGED <<call, queue, batch, shutdown, remaining, table, errors, failures>>

-----------------------------------------------------------------------------
(* The shutdown half of lifespan                                           *)

\* The server runs it when every request and connection has ended.
\* flush_audit_queue empties the queue without an await.
DrainQueue ==
    /\ shutdown = "no"
    /\ \A c \in Calls : call[c] # "waiting"
    /\ remaining' = queue
    /\ queue' = <<>>
    /\ shutdown' = IF queue = <<>> THEN "close" ELSE "flush"
    /\ UNCHANGED <<call, worker, batch, table, errors, failures>>

WriteRemaining ==
    /\ shutdown = "flush"
    /\ Insert(remaining)
    /\ remaining' = <<>>
    /\ shutdown' = "close"
    /\ UNCHANGED <<call, queue, worker, batch, errors, failures>>

\* Mutant: the flush commits row by row, so an error leaves half of it stored.
WriteRemainingByRow ==
    /\ shutdown = "flush"
    /\ Fail
    /\ \E n \in 0 .. Len(remaining) : Insert(SubSeq(remaining, 1, n))
    /\ remaining' = <<>>
    /\ errors' = errors + 1
    /\ shutdown' = "close"
    /\ UNCHANGED <<call, queue, worker, batch>>

WriteRemainingFails ==
    /\ shutdown = "flush"
    /\ Fail
    /\ Insert(remaining) \/ UNCHANGED table
    /\ remaining' = <<>>
    /\ errors' = errors + 1
    /\ shutdown' = "close"
    /\ UNCHANGED <<call, queue, worker, batch>>

\* The pools are closed and the worker is cancelled at its await: a write may
\* just have committed, a batch being collected is dropped.
CancelWorker ==
    /\ shutdown = "close"
    /\ shutdown' = "done"
    /\ worker' = "cancelled"
    /\ UNCHANGED table \/ (worker = "write" /\ Insert(batch))
    /\ batch' = <<>>
    /\ UNCHANGED <<call, queue, remaining, errors, failures>>

-----------------------------------------------------------------------------

CallStep(c) == \/ PutNowait(c) \/ AwaitSpace(c) \/ DropNow(c) \/ Reject(c)
               \/ PutResumes(c) \/ PutTimesOut(c)

WorkerStep == \/ Collect \/ BatchTimeout \/ WriteBatch \/ WriteBatchFails
              \/ WorkerError \/ BackoffOver

ShutdownStep == DrainQueue \/ WriteRemaining \/ WriteRemainingFails \/ CancelWorker

Next == (\E c \in Calls : CallStep(c)) \/ WorkerStep \/ ShutdownStep

Spec == Init /\ [][Next]_vars

\* A call that waits is woken or timed out by the event loop, whatever the
\* worker and the database do.
CallFairness == \A c \in Calls : WF_vars(PutResumes(c) \/ PutTimesOut(c))

\* The worker runs when it can run: its waits have timeouts, and a transaction
\* commits or fails.  A shutdown once begun is carried through.
WorkerFairness == WF_vars(WorkerStep) /\ WF_vars(shutdown # "no" /\ ShutdownStep)

FairSpec == Spec /\ CallFairness

-----------------------------------------------------------------------------
(* Properties                                                              *)

InMemory == Entries(queue) \cup Entries(batch) \cup Entries(remaining)

\* The queue's and the batch's limits hold however many calls wait for space
\* and however they interleave with new calls that find it first.
BoundsRespected == Len(queue) <= QueueMax /\ Len(batch) <= BatchSize

Distinct(s) == \A i, j \in 1 .. Len(s) : s[i] = s[j] => i = j

\* Only accepted entries move, and each is in at most one place: once in the
\* queue, in the worker's batch, in the flush, or in one row of the table.
AtMostOnce ==
    /\ Distinct(queue) /\ Distinct(batch) /\ Distinct(remaining)
    /\ Entries(queue) \cap Entries(batch) = {}
    /\ Entries(queue) \cap Entries(remaining) = {}
    /\ Entries(batch) \cap Entries(remaining) = {}
    /\ \A c \in InMemory : call[c] = "accepted" /\ table[c] = 0
    /\ \A c \in Calls : /\ table[c] <= 1
                        /\ table[c] = 1 => call[c] = "accepted"

Lost(c) == call[c] = "accepted" /\ table[c] = 0 /\ c \notin InMemory

LargestBatch == IF BatchSize > QueueMax THEN BatchSize ELSE QueueMax

\* An accepted entry that is neither stored nor in memory is behind an error
\* that was counted or logged, and one error stands for at most one batch or one
\* flush; only the cancelled worker's last batch goes without.
LossReported ==
    Cardinality({c \in Calls : Lost(c)}) <=
        errors * LargestBatch + (IF shutdown = "done" THEN BatchSize ELSE 0)

\* What has become of each entry, for the abstract specification.
Fate == [c \in Calls |-> IF call[c] \in {"new", "waiting"} THEN "new"
                         ELSE IF call[c] # "accepted" THEN "refused"
                         ELSE IF table[c] # 0 THEN "stored"
                         ELSE IF c \in InMemory THEN "pending" ELSE "lost"]

Abstract == INSTANCE AuditLog WITH fate <- Fate

\* The pipeline implements the audit log: no entry is stored twice, comes back
\* after it was lost, or is stored after it was refused, and batches are
\* stored or lost as a whole.
ImplementsAuditLog == Abstract!Spec

\* With a fair worker every accepted entry is stored or lost in the end, in a
\* batch that never fills as well; none stays in memory.
EntrySettled ==
    WorkerFairness => \A c \in Calls : c \in InMemory ~> c \notin InMemory

\* A call that waits for space returns, even when the worker hangs in a write:
\* a full queue never blocks a request for good.
CallReturns == \A c \in Calls : call[c] = "waiting" ~> call[c] # "waiting"

\* audit_logger.py:149, flush_audit_queue "should be called during application
\* shutdown to ensure no logs are lost".
ShutdownLosesNothing == shutdown = "done" /\ errors = 0 => ~ \E c \in Calls : Lost(c)
=============================================================================
