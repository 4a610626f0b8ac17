------------------------ MODULE AuditPipelineProofs ------------------------
(***************************************************************************)
(* Proofs about AuditPipeline for every number of calls and every setting  *)
(* of the queue, the batch and the timeout.                                *)
(***************************************************************************)
EXTENDS AuditPipeline, FiniteSetTheorems, TLAPS

-----------------------------------------------------------------------------
(* Facts about the entries of a sequence.                                  *)

\* put() adds its entry at the end.
LEMMA EntriesOfAppend ==
    ASSUME NEW S, NEW s \in Seq(S), NEW e \in S
    PROVE  /\ Entries(Append(s, e)) = Entries(s) \cup {e}
           /\ Distinct(s) /\ e \notin Entries(s) => Distinct(Append(s, e))
<1>1. Len(Append(s, e)) = Len(s) + 1 /\ Len(s) \in Nat
  OBVIOUS
<1>2. \A i \in 1 .. Len(s) + 1 :
         Append(s, e)[i] = IF i = Len(s) + 1 THEN e ELSE s[i]
  OBVIOUS
<1> QED BY <1>1, <1>2 DEF Entries, Distinct

\* get() takes the first entry and leaves the others.
LEMMA EntriesOfTail ==
    ASSUME NEW S, NEW s \in Seq(S), s # <<>>
    PROVE  /\ Head(s) \in Entries(s)
           /\ Entries(s) = Entries(Tail(s)) \cup {Head(s)}
           /\ Distinct(s) => Distinct(Tail(s)) /\ Head(s) \notin Entries(Tail(s))
<1>1. Len(s) \in Nat \ {0} /\ Len(Tail(s)) = Len(s) - 1 /\ Head(s) = s[1]
  OBVIOUS
<1>2. \A i \in 1 .. Len(s) - 1 : Tail(s)[i] = s[i + 1]
  OBVIOUS
<1>3. ASSUME NEW x \in Entries(s), x # s[1] PROVE x \in Entries(Tail(s))
  <2>1. PICK i \in 1 .. Len(s) : s[i] = x
    BY DEF Entries
  <2>2. i - 1 \in 1 .. Len(s) - 1 /\ Tail(s)[i - 1] = x
    BY <1>1, <1>2, <1>3, <2>1
  <2> QED BY <1>1, <2>2 DEF Entries
<1>4. Entries(Tail(s)) \subseteq Entries(s) /\ s[1] \in Entries(s)
  BY <1>1, <1>2 DEF Entries
<1>5. Distinct(s) => Distinct(Tail(s)) /\ Head(s) \notin Entries(Tail(s))
  BY <1>1, <1>2 DEF Distinct, Entries
<1> QED BY <1>1, <1>3, <1>4, <1>5

\* A written batch and a drained queue have no entries.
LEMMA EntriesOfEmpty == Entries(<<>>) = {} /\ Distinct(<<>>)
BY DEF Entries, Distinct

\* The entries of a sequence of calls are calls.
LEMMA EntriesTyped ==
    ASSUME NEW S, NEW s \in Seq(S)
    PROVE  Entries(s) \subseteq S
BY DEF Entries

-----------------------------------------------------------------------------
(* Type correctness and the bounds.                                        *)

\* Every step preserves the types.
LEMMA TypeInductive == TypeOK /\ [Next]_vars => TypeOK'
<1> SUFFICES ASSUME TypeOK, [Next]_vars PROVE TypeOK'
  OBVIOUS
<1> USE DEF TypeOK, Return, Put, Insert, Fail
<1>1. ASSUME NEW c \in Calls, CallStep(c) PROVE TypeOK'
  <2>1. CASE PutNowait(c)
    BY <2>1 DEF PutNowait
  <2>2. CASE PutResumes(c)
    BY <2>2 DEF PutResumes
  <2>3. CASE AwaitSpace(c) \/ DropNow(c)
    BY <2>3 DEF AwaitSpace, DropNow
  <2>4. CASE Reject(c) \/ PutTimesOut(c)
    BY <2>4 DEF Reject, PutTimesOut
  <2> QED BY <1>1, <2>1, <2>2, <2>3, <2>4 DEF CallStep
<1>2. ASSUME WorkerStep PROVE TypeOK'
  <2>1. CASE Collect
    BY <2>1 DEF Collect
  <2>2. CASE WriteBatch
    BY <2>2 DEF WriteBatch
  <2>3. CASE WriteBatchFails
    BY <2>3 DEF WriteBatchFails
  <2>4. CASE WorkerError
    BY <2>4 DEF WorkerError
  <2>5. CASE BatchTimeout \/ BackoffOver
    BY <2>5 DEF BatchTimeout, BackoffOver
  <2> QED BY <1>2, <2>1, <2>2, <2>3, <2>4, <2>5 DEF WorkerStep
<1>3. ASSUME ShutdownStep PROVE TypeOK'
  <2>1. CASE DrainQueue
    BY <2>1 DEF DrainQueue
  <2>2. CASE WriteRemaining
    BY <2>2 DEF WriteRemaining
  <2>3. CASE WriteRemainingFails
    BY <2>3 DEF WriteRemainingFails
  <2>4. CASE CancelWorker
    BY <2>4 DEF CancelWorker
  <2> QED BY <1>3, <2>1, <2>2, <2>3, <2>4 DEF ShutdownStep
<1>4. CASE UNCHANGED vars
  BY <1>4 DEF vars
<1> QED BY <1>1, <1>2, <1>3, <1>4 DEF Next

\* Every behaviour of the pipeline is well typed.
THEOREM TypeCorrect == Spec => []TypeOK
<1>1. Init => TypeOK
  BY DEF Init, TypeOK
<1> QED BY <1>1, TypeInductive, PTL DEF Spec

\* The batch is full only when it is about to be written.
BatchGrows == worker \in {"collect", "backoff"} => Len(batch) < BatchSize

Bounds == BoundsRespected /\ BatchGrows

\* put() checks for room, and the worker writes as soon as the batch is full.
LEMMA BoundsInductive == TypeOK /\ Bounds /\ [Next]_vars => Bounds'
<1> SUFFICES ASSUME TypeOK, Bounds, [Next]_vars PROVE Bounds'
  OBVIOUS
<1> USE QueueAssumption, BatchAssumption DEF TypeOK, Bounds, BoundsRespected, BatchGrows
<1>1. ASSUME NEW c \in Calls, CallStep(c) PROVE Bounds'
  BY <1>1 DEF CallStep, PutNowait, AwaitSpace, DropNow, Reject, PutResumes,
              PutTimesOut, Put, Full
<1>2. CASE WorkerStep
  <2>1. CASE Collect
    BY <2>1 DEF Collect
  <2>2. CASE ~Collect
    BY <1>2, <2>2 DEF WorkerStep, WriteBatch, WriteBatchFails, BatchTimeout,
                      WorkerError, BackoffOver
  <2> QED BY <2>1, <2>2
<1>3. CASE ShutdownStep
  BY <1>3 DEF ShutdownStep, DrainQueue, WriteRemaining, WriteRemainingFails,
              CancelWorker
<1>4. CASE UNCHANGED vars
  BY <1>4 DEF vars
<1> QED BY <1>1, <1>2, <1>3, <1>4 DEF Next

\* Neither the queue nor a batch ever exceeds its limit.
THEOREM BoundsHold == Spec => []BoundsRespected
<1>1. Init => Bounds
  BY QueueAssumption, BatchAssumption
     DEF Init, Bounds, BoundsRespected, BatchGrows
<1>2. Bounds => BoundsRespected
  BY DEF Bounds
<1> QED BY <1>1, <1>2, TypeCorrect, BoundsInductive, PTL DEF Spec

-----------------------------------------------------------------------------
(* Each entry is in at most one place.                                     *)

\* What holds of the entries in memory is enough to move them one by one; the
\* worker has a batch only while it collects or writes it, and the flush has
\* entries only while it writes them.
Conserved == /\ AtMostOnce
             /\ worker \in {"backoff", "cancelled"} => batch = <<>>
             /\ shutdown # "flush" => remaining = <<>>

\* A step moves entries from one place to the next.
LEMMA ConservedInductive == TypeOK /\ Conserved /\ [Next]_vars => Conserved'
<1> SUFFICES ASSUME TypeOK, Conserved, [Next]_vars PROVE Conserved'
  OBVIOUS
<1> USE DEF TypeOK, Conserved, AtMostOnce, InMemory, Return
<1>1. ASSUME NEW c \in Calls, CallStep(c) PROVE Conserved'
  <2>1. ASSUME call[c] # "accepted", call' = [call EXCEPT ![c] = "accepted"],
               queue' = Append(queue, c),
               UNCHANGED <<worker, batch, shutdown, remaining, table>>
        PROVE  Conserved'
    <3>1. c \notin InMemory
      BY <2>1
    <3>2. Entries(queue') = Entries(queue) \cup {c} /\ Distinct(queue')
      BY <2>1, <3>1, EntriesOfAppend
    <3> QED BY <2>1, <3>1, <3>2
  <2>2. CASE PutNowait(c) \/ PutResumes(c)
    BY <2>1, <2>2 DEF PutNowait, PutResumes, Put
  <2>3. CASE AwaitSpace(c) \/ DropNow(c) \/ Reject(c) \/ PutTimesOut(c)
    <3>1. /\ UNCHANGED <<queue, worker, batch, shutdown, remaining, table>>
          /\ \A d \in Calls : call[d] = "accepted" => call'[d] = "accepted"
      BY <2>3 DEF AwaitSpace, DropNow, Reject, PutTimesOut
    <3> QED BY <3>1, EntriesTyped
  <2> QED BY <1>1, <2>2, <2>3 DEF CallStep
<1>2. CASE Collect
  <2>1. /\ Head(queue) \in Entries(queue)
        /\ Entries(queue) = Entries(queue') \cup {Head(queue)}
        /\ Distinct(queue') /\ Head(queue) \notin Entries(queue')
    BY <1>2, EntriesOfTail DEF Collect
  <2>2. Head(queue) \in Calls /\ Head(queue) \notin Entries(batch)
    BY <1>2, <2>1, EntriesTyped DEF Collect
  <2>3. Entries(batch') = Entries(batch) \cup {Head(queue)} /\ Distinct(batch')
    BY <1>2, <2>2, EntriesOfAppend DEF Collect
  <2> QED BY <1>2, <2>1, <2>2, <2>3 DEF Collect
<1>3. CASE BatchTimeout \/ BackoffOver
  BY <1>3 DEF BatchTimeout, BackoffOver
<1>4. ASSUME batch' = <<>>, Insert(batch) \/ UNCHANGED table,
             shutdown = "flush" => shutdown' = "flush",
             UNCHANGED <<call, queue, remaining>>
      PROVE  Conserved'
  BY <1>4, EntriesOfEmpty, EntriesTyped DEF Insert
<1>5. CASE WriteBatch \/ WriteBatchFails \/ WorkerError
  BY <1>4, <1>5 DEF WriteBatch, WriteBatchFails, WorkerError
<1>6. CASE DrainQueue
  BY <1>6, EntriesOfEmpty DEF DrainQueue
<1>7. CASE WriteRemaining \/ WriteRemainingFails
  BY <1>7, EntriesOfEmpty, EntriesTyped DEF WriteRemaining, WriteRemainingFails, Insert
<1>8. CASE CancelWorker
  BY <1>4, <1>8 DEF CancelWorker
<1>9. CASE UNCHANGED vars
  BY <1>9 DEF vars
<1> QED BY <1>1, <1>2, <1>3, <1>5, <1>6, <1>7, <1>8, <1>9
        DEF Next, WorkerStep, ShutdownStep

\* Hence it holds in every behaviour.
LEMMA ConservedHolds == Spec => []Conserved
<1>1. Init => Conserved
  BY EntriesOfEmpty DEF Init, Conserved, AtMostOnce, InMemory
<1> QED BY <1>1, TypeCorrect, ConservedInductive, PTL DEF Spec

\* No entry is ever in two places, or stored twice, or stored when it was not
\* accepted.
THEOREM AtMostOnceHolds == Spec => []AtMostOnce
<1>1. Conserved => AtMostOnce
  BY DEF Conserved
<1> QED BY <1>1, ConservedHolds, PTL

-----------------------------------------------------------------------------
(* The pipeline implements AuditLog.                                       *)

\* How the entries in memory move, in the terms of the abstract specification:
\* not at all, ...
LEMMA FateUnmoved ==
    ASSUME UNCHANGED table, InMemory' = InMemory,
           \A c \in Calls : \/ call'[c] = call[c]
                            \/ call[c] = "new" /\ call'[c] = "waiting"
    PROVE  Fate' = Fate
BY DEF Fate

\* ... from the caller into memory, or back with None, ...
LEMMA FateOfCall ==
    ASSUME TypeOK, Conserved, NEW c \in Calls, call[c] \in {"new", "waiting"},
           UNCHANGED table,
           \/ /\ call' = [call EXCEPT ![c] = "accepted"]
              /\ InMemory' = InMemory \cup {c}
           \/ /\ call'[c] \in {"dropped", "rejected"}
              /\ call' = [call EXCEPT ![c] = call'[c]]
              /\ InMemory' = InMemory
    PROVE  Abstract!Next
<1> USE DEF TypeOK, Fate
<1>1. Fate[c] = "new"
  OBVIOUS
<1>2. CASE call'[c] = "accepted"
  <2>1. Fate' = [d \in Calls |-> IF d \in {c} THEN "pending" ELSE Fate[d]]
    BY <1>2 DEF Conserved, AtMostOnce
  <2> QED BY <1>1, <2>1 DEF Abstract!Next, Abstract!Accept, Abstract!Become
<1>3. CASE call'[c] \in {"dropped", "rejected"}
  <2>1. Fate' = [d \in Calls |-> IF d \in {c} THEN "refused" ELSE Fate[d]]
    BY <1>3
  <2> QED BY <1>1, <2>1 DEF Abstract!Next, Abstract!Refuse, Abstract!Become
<1> QED BY <1>2, <1>3

\* ... out of memory into the table, or nowhere.
LEMMA FateOfBatch ==
    ASSUME TypeOK, Conserved, NEW s \in Seq(Calls), Entries(s) \subseteq InMemory,
           InMemory' = InMemory \ Entries(s), UNCHANGED call,
           Insert(s) \/ UNCHANGED table
    PROVE  [Abstract!Next]_Fate
<1> DEFINE S == Entries(s)
<1>1. S \subseteq Calls /\ \A c \in S : Fate[c] = "pending"
  BY EntriesTyped DEF Conserved, AtMostOnce, Fate, TypeOK
<1>2. CASE S = {}
  <2>1. UNCHANGED table
    BY <1>2 DEF Insert, TypeOK
  <2> QED BY <1>2, <2>1, FateUnmoved
<1>3. CASE S # {} /\ Insert(s)
  <2>1. Fate' = [c \in Calls |-> IF c \in S THEN "stored" ELSE Fate[c]]
    BY <1>3 DEF Insert, Conserved, AtMostOnce, Fate, TypeOK
  <2> QED BY <1>1, <1>3, <2>1
          DEF Abstract!Next, Abstract!Store, Abstract!Become
<1>4. CASE S # {} /\ UNCHANGED table
  <2>1. Fate' = [c \in Calls |-> IF c \in S THEN "lost" ELSE Fate[c]]
    BY <1>4 DEF Conserved, AtMostOnce, Fate, TypeOK
  <2> QED BY <1>1, <1>4, <2>1
          DEF Abstract!Next, Abstract!Lose, Abstract!Become
<1> QED BY <1>2, <1>3, <1>4

\* A step of the pipeline is a step of the audit log or a stutter.
LEMMA StepRefines ==
    TypeOK /\ Conserved /\ [Next]_vars => [Abstract!Next]_Fate
<1> SUFFICES ASSUME TypeOK, Conserved, [Next]_vars PROVE [Abstract!Next]_Fate
  OBVIOUS
<1> USE DEF Return
<1>1. ASSUME NEW c \in Calls, CallStep(c) PROVE [Abstract!Next]_Fate
  <2>1. CASE PutNowait(c) \/ PutResumes(c)
    <3>1. queue \in Seq(Calls) /\ queue' = Append(queue, c)
      BY <2>1 DEF PutNowait, PutResumes, Put, TypeOK
    <3>2. Entries(queue') = Entries(queue) \cup {c}
      BY <3>1, EntriesOfAppend
    <3>3. InMemory' = InMemory \cup {c}
      BY <2>1, <3>2 DEF PutNowait, PutResumes, InMemory
    <3> QED BY <2>1, <3>3, FateOfCall
            DEF PutNowait, PutResumes, InMemory
  <2>2. CASE DropNow(c) \/ Reject(c) \/ PutTimesOut(c)
    BY <2>2, FateOfCall DEF DropNow, Reject, PutTimesOut, InMemory, TypeOK
  <2>3. CASE AwaitSpace(c)
    BY <2>3, FateUnmoved DEF AwaitSpace, InMemory, TypeOK
  <2> QED BY <1>1, <2>1, <2>2, <2>3 DEF CallStep
<1>2. CASE Collect
  <2>1. /\ Entries(queue) = Entries(queue') \cup {Head(queue)}
        /\ Entries(batch') = Entries(batch) \cup {Head(queue)}
    BY <1>2, EntriesOfTail, EntriesOfAppend, EntriesTyped DEF Collect, TypeOK
  <2> QED BY <1>2, <2>1, FateUnmoved DEF Collect, InMemory
<1>3. CASE BatchTimeout \/ BackoffOver \/ UNCHANGED vars
  BY <1>3, FateUnmoved DEF BatchTimeout, BackoffOver, InMemory, vars
<1>4. CASE WriteBatch \/ WriteBatchFails \/ WorkerError \/ CancelWorker
  <2>1. /\ Insert(batch) \/ UNCHANGED table
        /\ UNCHANGED <<call, queue, remaining>> /\ batch' = <<>>
    BY <1>4 DEF WriteBatch, WriteBatchFails, WorkerError, CancelWorker
  <2>2. InMemory' = InMemory \ Entries(batch)
    BY <2>1, EntriesOfEmpty DEF InMemory, Conserved, AtMostOnce
  <2> QED BY <2>1, <2>2, FateOfBatch DEF InMemory, TypeOK
<1>5. CASE DrainQueue
  <2>1. InMemory' = InMemory
    BY <1>5, EntriesOfEmpty DEF DrainQueue, InMemory, Conserved
  <2> QED BY <1>5, <2>1, FateUnmoved DEF DrainQueue
<1>6. CASE WriteRemaining \/ WriteRemainingFails
  <2>1. /\ Insert(remaining) \/ UNCHANGED table
        /\ UNCHANGED <<call, queue, batch>> /\ remaining' = <<>>
    BY <1>6 DEF WriteRemaining, WriteRemainingFails
  <2>2. InMemory' = InMemory \ Entries(remaining)
    BY <2>1, EntriesOfEmpty DEF InMemory, Conserved, AtMostOnce
  <2> QED BY <2>1, <2>2, FateOfBatch DEF InMemory, TypeOK
<1> QED BY <1>1, <1>2, <1>3, <1>4, <1>5, <1>6
        DEF Next, WorkerStep, ShutdownStep

\* The pipeline with its queue, batches, flush and errors implements the audit
\* log: an entry is refused, or accepted and then stored once or lost.
THEOREM Refinement == Spec => ImplementsAuditLog
<1>1. Init => Conserved /\ Abstract!Init
  BY EntriesOfEmpty
     DEF Init, Conserved, AtMostOnce, InMemory, Abstract!Init, Fate
<1>2. QED
  BY <1>1, TypeCorrect, ConservedInductive, StepRefines, PTL
     DEF Spec, ImplementsAuditLog, Abstract!Spec

-----------------------------------------------------------------------------
(* Losses are reported, and bounded by what is reported.                   *)

\* A sequence has no more entries than its length.
LEMMA EntriesBounded ==
    ASSUME NEW S, NEW s \in Seq(S)
    PROVE  IsFiniteSet(Entries(s)) /\ Cardinality(Entries(s)) <= Len(s)
<1> DEFINE f == [i \in 1 .. Len(s) |-> s[i]]
<1>1. Len(s) \in Nat
  OBVIOUS
<1>2. f \in Surjection(1 .. Len(s), Entries(s))
  BY DEF Surjection, Entries
<1>3. IsFiniteSet(1 .. Len(s)) /\ Cardinality(1 .. Len(s)) <= Len(s)
  BY <1>1, FS_Interval
<1>4. IsFiniteSet(Entries(s)) /\ Cardinality(Entries(s)) <= Cardinality(1 .. Len(s))
  BY <1>2, <1>3, FS_Surjection
<1> QED BY <1>1, <1>3, <1>4, FS_CardinalityType

LostEntries == {c \in Calls : Lost(c)}
Cancelled == IF shutdown = "done" THEN BatchSize ELSE 0
LossBounded == LossReported /\ IsFiniteSet(LostEntries)
FlushBounded == Len(remaining) <= QueueMax

\* The flush takes what the bounded queue held.
LEMMA FlushBoundInductive ==
    TypeOK /\ Bounds /\ FlushBounded /\ [Next]_vars => FlushBounded'
<1> SUFFICES ASSUME TypeOK, Bounds, FlushBounded, [Next]_vars PROVE FlushBounded'
  OBVIOUS
<1> USE QueueAssumption DEF TypeOK, Bounds, BoundsRespected, FlushBounded
<1>1. ASSUME NEW c \in Calls, CallStep(c) PROVE FlushBounded'
  BY <1>1 DEF CallStep, PutNowait, AwaitSpace, DropNow, Reject, PutResumes,
              PutTimesOut
<1>2. CASE WorkerStep
  BY <1>2 DEF WorkerStep, Collect, BatchTimeout, WriteBatch, WriteBatchFails,
              WorkerError, BackoffOver
<1>3. CASE ShutdownStep
  BY <1>3 DEF ShutdownStep, DrainQueue, WriteRemaining, WriteRemainingFails,
              CancelWorker
<1>4. CASE UNCHANGED vars
  BY <1>4 DEF vars
<1> QED BY <1>1, <1>2, <1>3, <1>4 DEF Next

\* What a step that drops the sequence s adds to the lost entries.
LEMMA LossGrows ==
    ASSUME LossBounded, NEW S, NEW s \in Seq(S), NEW N \in Nat, Len(s) <= N,
           NEW T, T \subseteq LostEntries \cup Entries(s)
    PROVE  /\ IsFiniteSet(T)
           /\ Cardinality(LostEntries) \in Nat /\ Cardinality(T) \in Nat
           /\ Cardinality(T) <= Cardinality(LostEntries) + N
<1>1. /\ IsFiniteSet(LostEntries) /\ Cardinality(LostEntries) \in Nat
  BY FS_CardinalityType DEF LossBounded
<1>2. /\ IsFiniteSet(Entries(s)) /\ Cardinality(Entries(s)) \in Nat
      /\ Cardinality(Entries(s)) <= N
  BY EntriesBounded, FS_CardinalityType
<1> DEFINE U == LostEntries \cup Entries(s)
           I == LostEntries \cap Entries(s)
<1>3. /\ IsFiniteSet(U) /\ Cardinality(I) \in Nat /\ Cardinality(U) \in Nat
      /\ Cardinality(U) = Cardinality(LostEntries) + Cardinality(Entries(s)) - Cardinality(I)
  BY <1>1, <1>2, FS_Union, FS_Intersection, FS_CardinalityType
<1>4. IsFiniteSet(T) /\ Cardinality(T) <= Cardinality(U) /\ Cardinality(T) \in Nat
  BY <1>3, FS_Subset, FS_CardinalityType
<1> QED BY <1>1, <1>2, <1>3, <1>4

\* One more error pays for a batch or a flush.
LEMMA ErrorCovers ==
    ASSUME NEW e \in Nat
    PROVE  /\ LargestBatch \in Nat /\ BatchSize <= LargestBatch
           /\ QueueMax <= LargestBatch
           /\ e * LargestBatch \in Nat
           /\ (e + 1) * LargestBatch = e * LargestBatch + LargestBatch
BY QueueAssumption, BatchAssumption DEF LargestBatch

\* A step that loses no entry; one that loses the entries of a batch or of the
\* flush and counts an error; and the cancellation.
LEMMA LossBoundedInductive ==
    /\ TypeOK /\ Bounds /\ FlushBounded /\ Conserved /\ LossBounded
    /\ [Next]_vars
    => LossBounded'
<1> SUFFICES ASSUME TypeOK, Bounds, FlushBounded, Conserved, LossBounded, [Next]_vars
             PROVE  LossBounded'
  OBVIOUS
<1> USE DEF TypeOK, Return
<1>0. /\ Cardinality(LostEntries) \in Nat
      /\ Cardinality(LostEntries) <= errors * LargestBatch + Cancelled
  BY FS_CardinalityType DEF LossBounded, LossReported, LostEntries, Cancelled
<1>1. ASSUME LostEntries' \subseteq LostEntries, UNCHANGED <<errors, shutdown>>
      PROVE  LossBounded'
  <2>1. IsFiniteSet(LostEntries') /\ Cardinality(LostEntries') <= Cardinality(LostEntries)
    BY <1>1, FS_Subset DEF LossBounded
  <2>2. Cardinality(LostEntries') \in Nat
    BY <2>1, FS_CardinalityType
  <2>3. Cancelled \in Nat /\ errors * LargestBatch \in Nat
    BY ErrorCovers, BatchAssumption DEF Cancelled
  <2>4. Cardinality(LostEntries') <= errors * LargestBatch + Cancelled
    BY <1>0, <2>1, <2>2, <2>3
  <2> QED BY <1>1, <2>1, <2>4 DEF LossBounded, LossReported, LostEntries, Cancelled, LargestBatch
<1>2. ASSUME NEW s \in Seq(Calls), Len(s) <= LargestBatch,
             LostEntries' \subseteq LostEntries \cup Entries(s),
             errors' = errors + 1, Cancelled' = Cancelled
      PROVE  LossBounded'
  <2>1. Cancelled \in Nat /\ errors * LargestBatch \in Nat /\ LargestBatch \in Nat
    BY ErrorCovers, BatchAssumption DEF Cancelled
  <2>2. /\ IsFiniteSet(LostEntries') /\ Cardinality(LostEntries') \in Nat
        /\ Cardinality(LostEntries') <= Cardinality(LostEntries) + LargestBatch
    BY <1>2, <2>1, LossGrows
  <2>3. errors' * LargestBatch = errors * LargestBatch + LargestBatch
    BY <1>2, ErrorCovers
  <2>4. Cardinality(LostEntries') <= errors' * LargestBatch + Cancelled'
    BY <1>0, <1>2, <2>1, <2>2, <2>3
  <2> QED BY <2>2, <2>4 DEF LossBounded, LossReported, LostEntries, Cancelled, LargestBatch
<1>3. CASE \E c \in Calls : CallStep(c)
  <2>1. PICK c \in Calls : CallStep(c)
    BY <1>3
  <2>2. CASE PutNowait(c) \/ PutResumes(c)
    <3>1. /\ queue \in Seq(Calls) /\ queue' = Append(queue, c)
          /\ call' = [call EXCEPT ![c] = "accepted"]
          /\ UNCHANGED <<batch, remaining, table, errors, shutdown>>
      BY <2>2 DEF PutNowait, PutResumes, Put
    <3>2. InMemory' = InMemory \cup {c}
      BY <3>1, EntriesOfAppend DEF InMemory
    <3> QED BY <1>1, <3>1, <3>2 DEF Lost, LostEntries
  <2>3. CASE AwaitSpace(c) \/ DropNow(c) \/ Reject(c) \/ PutTimesOut(c)
    <3>1. LostEntries' \subseteq LostEntries /\ UNCHANGED <<errors, shutdown>>
      BY <2>3 DEF AwaitSpace, DropNow, Reject, PutTimesOut, Lost, LostEntries, InMemory
    <3> QED BY <1>1, <3>1
  <2> QED BY <2>1, <2>2, <2>3 DEF CallStep
<1>4. CASE Collect
  <2>1. /\ Entries(queue) = Entries(queue') \cup {Head(queue)}
        /\ Entries(batch') = Entries(batch) \cup {Head(queue)}
    BY <1>4, EntriesOfTail, EntriesOfAppend, EntriesTyped DEF Collect
  <2> QED BY <1>1, <1>4, <2>1 DEF Collect, Lost, LostEntries, InMemory
<1>5. CASE WriteBatch
  BY <1>1, <1>5, EntriesOfEmpty DEF WriteBatch, Insert, Lost, LostEntries, InMemory
<1>6. CASE DrainQueue
  <2>1. LostEntries' = LostEntries /\ errors' = errors
    BY <1>6, EntriesOfEmpty DEF DrainQueue, Lost, LostEntries, InMemory, Conserved
  <2>2. shutdown # "done" /\ shutdown' # "done"
    BY <1>6 DEF DrainQueue
  <2> QED BY <2>1, <2>2 DEF LossBounded, LossReported, LostEntries, LargestBatch
<1>7. CASE WriteRemaining
  <2>1. LostEntries' = LostEntries /\ errors' = errors
    BY <1>7, EntriesOfEmpty DEF WriteRemaining, Insert, Lost, LostEntries, InMemory
  <2>2. shutdown # "done" /\ shutdown' # "done"
    BY <1>7 DEF WriteRemaining
  <2> QED BY <2>1, <2>2 DEF LossBounded, LossReported, LostEntries, LargestBatch
<1>8. CASE BatchTimeout \/ BackoffOver \/ UNCHANGED vars
  BY <1>1, <1>8 DEF BatchTimeout, BackoffOver, vars, Lost, LostEntries, InMemory
<1>9. CASE WriteBatchFails \/ WorkerError
  <2>1. Len(batch) <= LargestBatch
    BY ErrorCovers, BatchAssumption DEF Bounds, BoundsRespected
  <2>2. LostEntries' \subseteq LostEntries \cup Entries(batch)
    BY <1>9 DEF WriteBatchFails, WorkerError, Insert, Lost, LostEntries, InMemory
  <2> QED BY <1>2, <1>9, <2>1, <2>2 DEF WriteBatchFails, WorkerError, Cancelled
<1>10. CASE WriteRemainingFails
  <2>1. Len(remaining) <= LargestBatch
    BY ErrorCovers, QueueAssumption DEF FlushBounded
  <2>2. LostEntries' \subseteq LostEntries \cup Entries(remaining)
    BY <1>10 DEF WriteRemainingFails, Insert, Lost, LostEntries, InMemory
  <2> QED BY <1>2, <1>10, <2>1, <2>2 DEF WriteRemainingFails, Cancelled
<1>11. CASE CancelWorker
  <2>1. Cancelled = 0 /\ Cancelled' = BatchSize /\ errors' = errors /\ BatchSize \in Nat
    BY <1>11, BatchAssumption DEF CancelWorker, Cancelled
  <2>2. LostEntries' \subseteq LostEntries \cup Entries(batch)
    BY <1>11 DEF CancelWorker, Insert, Lost, LostEntries, InMemory
  <2>3. /\ IsFiniteSet(LostEntries') /\ Cardinality(LostEntries') \in Nat
        /\ Cardinality(LostEntries') <= Cardinality(LostEntries) + BatchSize
    BY <2>1, <2>2, LossGrows DEF Bounds, BoundsRespected
  <2>4. errors * LargestBatch \in Nat
    BY ErrorCovers
  <2>5. Cardinality(LostEntries') <= errors' * LargestBatch + Cancelled'
    BY <1>0, <2>1, <2>3, <2>4
  <2> QED BY <2>3, <2>5 DEF LossBounded, LossReported, LostEntries, Cancelled, LargestBatch
<1> QED BY <1>3, <1>4, <1>5, <1>6, <1>7, <1>8, <1>9, <1>10, <1>11
        DEF Next, WorkerStep, ShutdownStep

\* However many calls, whatever fails and whenever the shutdown comes: the
\* entries lost are at most one batch or flush for each error that was counted
\* or logged, and one batch for the cancelled worker.
THEOREM LossesReported == Spec => []LossReported
<1>1. Init => Bounds /\ FlushBounded
  BY QueueAssumption, BatchAssumption
     DEF Init, Bounds, BoundsRespected, BatchGrows, FlushBounded
<1>2. Init => LossBounded
  <2> SUFFICES ASSUME Init PROVE LossBounded
    OBVIOUS
  <2>1. LostEntries = {} /\ errors = 0 /\ Cancelled = 0
    BY DEF Init, LostEntries, Lost, Cancelled
  <2>2. 0 * LargestBatch + 0 = 0
    BY ErrorCovers
  <2> QED BY <2>1, <2>2, FS_EmptySet
          DEF LossBounded, LossReported, LostEntries, Cancelled
<1>3. LossBounded => LossReported
  BY DEF LossBounded
<1> QED
  BY <1>1, <1>2, <1>3, TypeCorrect, BoundsInductive, FlushBoundInductive,
     ConservedHolds, LossBoundedInductive, PTL DEF Spec
=============================================================================
