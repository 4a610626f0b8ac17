------------------------- MODULE LayeredCacheProofs -------------------------
(***************************************************************************)
(* Proofs about LayeredCache for every number of processes, keys and       *)
(* calls, and every size of the memory tier.                               *)
(***************************************************************************)
EXTENDS LayeredCache, FiniteSetTheorems, SequenceTheorems, TLAPS

-----------------------------------------------------------------------------
(* The order of use.                                                       *)

Once(s) == \A i, j \in DOMAIN s : s[i] = s[j] => i = j

\* Taking a key out leaves the others, in their order.
LEMMA WithoutKey ==
    ASSUME NEW S, NEW s \in Seq(S), NEW k, Once(s)
    PROVE  /\ Without(s, k) \in Seq(S) /\ Once(Without(s, k))
           /\ Elements(Without(s, k)) = Elements(s) \ {k}
           /\ Len(Without(s, k)) = IF k \in Elements(s) THEN Len(s) - 1 ELSE Len(s)
<1>1. CASE k \notin Elements(s)
  BY <1>1 DEF Without
<1>2. CASE k \in Elements(s)
  <2> DEFINE i == Position(s, k)
             t == [j \in 1 .. Len(s) - 1 |-> IF j < i THEN s[j] ELSE s[j + 1]]
  <2>1. i \in 1 .. Len(s) /\ s[i] = k
    BY <1>2 DEF Elements, Position
  <2> HIDE DEF i
  <2>2. Without(s, k) = t
    BY <1>2 DEF Without, i
  <2>3. t \in Seq(S) /\ Len(t) = Len(s) - 1 /\ DOMAIN t = 1 .. Len(s) - 1
    <3>1. t \in [1 .. Len(s) - 1 -> S]
      BY <2>1
    <3> QED BY <2>1, <3>1, IsASeq, LenProperties
  <2>4. \A j \in 1 .. Len(s) - 1 : t[j] = IF j < i THEN s[j] ELSE s[j + 1]
    OBVIOUS
  <2>5. \A j \in 1 .. Len(s) - 1 : t[j] # k /\ t[j] \in Elements(s)
    BY <2>1, <2>4 DEF Once, Elements
  <2>6. \A j \in 1 .. Len(s) : j # i => s[j] \in Elements(t)
    <3> SUFFICES ASSUME NEW j \in 1 .. Len(s), j # i PROVE \E m \in DOMAIN t : t[m] = s[j]
      BY DEF Elements
    <3>1. CASE j < i
      BY <2>1, <2>3, <2>4, <3>1
    <3>2. CASE j > i
      <4>1. j - 1 \in DOMAIN t /\ t[j - 1] = s[j]
        BY <2>1, <2>3, <2>4, <3>2
      <4> QED BY <4>1
    <3> QED BY <2>1, <3>1, <3>2
  <2>7. Elements(t) = Elements(s) \ {k}
    <3>1. \A x \in Elements(t) : x \in Elements(s) /\ x # k
      BY <2>3, <2>5 DEF Elements
    <3>2. \A x \in Elements(s) : x # k => x \in Elements(t)
      BY <2>1, <2>6 DEF Elements
    <3>3. \A x : x \in Elements(t) <=> x \in Elements(s) \ {k}
      BY <3>1, <3>2
    <3> QED BY <3>3
  <2>8. Once(t)
    BY <2>1, <2>3, <2>4 DEF Once
  <2> QED BY <1>2, <2>2, <2>3, <2>7, <2>8
<1> QED BY <1>1, <1>2

\* A key that is used becomes the last one.
LEMMA TouchKey ==
    ASSUME NEW S, NEW s \in Seq(S), NEW k \in S, Once(s)
    PROVE  /\ Touch(s, k) \in Seq(S) /\ Once(Touch(s, k))
           /\ Elements(Touch(s, k)) = Elements(s) \cup {k}
           /\ Len(Touch(s, k)) = IF k \in Elements(s) THEN Len(s) ELSE Len(s) + 1
<1> DEFINE t == Without(s, k)
           u == Append(t, k)
<1>1. t \in Seq(S) /\ Once(t) /\ Elements(t) = Elements(s) \ {k}
      /\ Len(t) = IF k \in Elements(s) THEN Len(s) - 1 ELSE Len(s)
  BY WithoutKey
<1> HIDE DEF t
<1>2. /\ u \in Seq(S) /\ Len(u) = Len(t) + 1 /\ u[Len(t) + 1] = k
      /\ \A i \in 1 .. Len(t) : u[i] = t[i]
  BY <1>1, AppendProperties
<1>3. DOMAIN u = 1 .. Len(t) + 1 /\ DOMAIN t = 1 .. Len(t) /\ Len(t) \in Nat
  BY <1>1, <1>2, LenProperties
<1> HIDE DEF u
<1>4. \A x : x \in Elements(u) <=> x \in Elements(t) \/ x = k
  BY <1>2, <1>3 DEF Elements
<1>5. Elements(u) = Elements(s) \cup {k}
  BY <1>1, <1>4
<1>6. \A i \in 1 .. Len(t) : t[i] # k
  BY <1>1, <1>3 DEF Elements
<1>7. Once(u)
  BY <1>1, <1>2, <1>3, <1>6 DEF Once
<1> QED BY <1>1, <1>2, <1>5, <1>7, LenProperties DEF Touch, t, u

\* The eviction restores the limit.
LEMMA EvictKey ==
    ASSUME NEW S, NEW s \in Seq(S), Once(s), Len(s) <= MaxEntries + 1
    PROVE  /\ Evict(s) \in Seq(S) /\ Once(Evict(s))
           /\ Elements(Evict(s)) \subseteq Elements(s)
           /\ Len(Evict(s)) <= MaxEntries
<1>1. CASE Len(s) <= MaxEntries
  BY <1>1, BoundsAssumption, LenProperties DEF Evict
<1>2. CASE Len(s) > MaxEntries
  <2>1. s # <<>> /\ Len(s) \in Nat /\ DOMAIN s = 1 .. Len(s)
    BY <1>2, BoundsAssumption, LenProperties, EmptySeq
  <2>2. /\ Tail(s) \in Seq(S) /\ Len(Tail(s)) = Len(s) - 1
        /\ \A i \in 1 .. Len(Tail(s)) : Tail(s)[i] = s[i + 1]
    BY <2>1, HeadTailProperties
  <2>3. DOMAIN Tail(s) = 1 .. Len(s) - 1
    BY <2>2, LenProperties
  <2>4. Elements(Tail(s)) \subseteq Elements(s)
    BY <2>1, <2>2, <2>3 DEF Elements
  <2>5. Once(Tail(s))
    BY <2>1, <2>2, <2>3 DEF Once
  <2> QED BY <1>2, <2>1, <2>2, <2>4, <2>5, BoundsAssumption DEF Evict
<1> QED BY <1>1, <1>2, BoundsAssumption, LenProperties

\* As many keys as places.
LEMMA KeysCounted ==
    ASSUME NEW S, NEW s \in Seq(S), Once(s)
    PROVE  Cardinality(Elements(s)) = Len(s)
<1>1. Len(s) \in Nat /\ DOMAIN s = 1 .. Len(s)
  BY LenProperties
<1>2. s \in Bijection(1 .. Len(s), Elements(s))
  BY <1>1 DEF Bijection, Injection, Surjection, IsInjective, Elements, Once
<1>3. ExistsBijection(1 .. Len(s), Elements(s))
  BY <1>2 DEF ExistsBijection
<1> QED BY <1>1, <1>3, FS_CountingElements

-----------------------------------------------------------------------------
(* The invariant.                                                          *)

\* Which calls get where; a writer keeps the version it has made.
CallInv(c) ==
    /\ c \in Readers => pc[c] \in {"idle", "get", "fill", "load", "store", "setex"}
    /\ c \notin Readers => pc[c] \in {"idle", "store", "setex", "clear", "clearall",
                                      "delete", "scan", "unlink", "done"}
    /\ c \in Started => value[c] <= source[key[c]]

\* No more versions than writers.
SourceInv == \A k \in Keys : source[k] <= Cardinality(Started)

\* Only writers that have changed the source renew, clear or delete.
GhostInv ==
    /\ \A p \in Processes, k \in Keys : cleared[p][k] \subseteq Started
    /\ \A k \in Keys : dropped[k] \subseteq Started
    /\ \A c \in Calls : seen[c] \subseteq Started

\* What a call has read or written is no older than the writers it has seen.
SeenInv ==
    \A c \in Calls : pc[c] \in {"fill", "store", "setex"} =>
        \A w \in seen[c] : ~Newer(w, key[c], value[c])

\* A Redis entry older than a writer that has renewed or deleted the key came
\* after it, with a value read before it.
DroppedInv ==
    \A k \in Keys, w \in Writers :
        redis[k] # Absent /\ Newer(w, k, redis[k].version) /\ w \in dropped[k]
        => w \in redis[k].late

\* What the pages of a pattern leave out, and what a writer that is done has done.
DoneInv ==
    \A w \in Writers :
        /\ pc[w] = "scan" => \A k \in Keys : k \in left[w] \/ w \in dropped[k]
        /\ pc[w] = "unlink" => \A k \in Keys : k \in left[w] \cup found[w] \/ w \in dropped[k]
        /\ pc[w] = "done" => w \in failed \/ w \in dropped[key[w]]

\* The keys of a memory tier, once each and within the limit.
TierInv ==
    \A p \in Processes :
        /\ Once(recency[p]) /\ Len(recency[p]) <= MaxEntries
        /\ \A k \in Keys : k \notin Held(p) => memory[p][k] = Absent

IInv ==
    /\ TypeOK
    /\ \A c \in Calls : CallInv(c)
    /\ SourceInv /\ GhostInv /\ SeenInv /\ TierInv
    /\ DroppedInv /\ DoneInv /\ MemoryStalenessAccounted

-----------------------------------------------------------------------------
(* The calls.                                                              *)

Tiers == [Processes -> [Keys -> Entries]]
Orders == [Processes -> Seq(Keys)]

Awaits == {"idle", "get", "fill", "load", "store", "setex",
           "clear", "clearall", "delete", "scan", "unlink", "done"}

\* A call goes on from a version to another await, with the key it has, or
\* begins with a key of its own.
Moves(c, from, to) == pc[c] \in from /\ \E a \in to : pc' = [pc EXCEPT ![c] = a]

\* Where each action takes its call.
LEMMA StepOfCall ==
    ASSUME NEW c \in Calls, Get(c) \/ Write(c) \/ Serve(c)
    PROVE  \/ Get(c) /\ c \in Readers /\ (UNCHANGED pc \/ Moves(c, {"idle"}, {"get"}))
           \/ Write(c) /\ c \in Writers /\ Moves(c, {"idle"}, {"store", "clear", "clearall"})
           \/ GetFromRedis(c) /\ Moves(c, {"get"}, {"fill", "load"})
           \/ BackFill(c) /\ Moves(c, {"fill"}, {"idle"})
           \/ Load(c) /\ Moves(c, {"load"}, {"store"})
           \/ StoreInMemory(c) /\ Moves(c, {"store"}, {"setex"})
           \/ StoreInRedis(c) /\ Moves(c, {"setex"}, {EndOfSet(c)})
           \/ ClearMemory(c) /\ Moves(c, {"clear", "clearall"}, {"delete", "scan"})
           \/ DeleteInRedis(c) /\ Moves(c, {"delete"}, {"done"})
           \/ ScanRedis(c) /\ Moves(c, {"scan"}, {"unlink", "done", "scan"})
           \/ UnlinkFound(c) /\ Moves(c, {"unlink"}, {"done", "scan"})
<1>1. CASE Get(c)
  BY <1>1 DEF Get, Hit, Miss, Goto, Moves
<1>2. CASE Write(c)
  BY <1>2 DEF Write, Goto, Moves
<1>3. CASE GetFromRedis(c)
  BY <1>3 DEF GetFromRedis, Goto, Moves
<1>4. CASE BackFill(c)
  BY <1>4 DEF BackFill, Goto, Moves
<1>5. CASE Load(c)
  BY <1>5 DEF Load, Goto, Moves
<1>6. CASE StoreInMemory(c)
  BY <1>6 DEF StoreInMemory, Goto, Moves
<1>7. CASE StoreInRedis(c)
  BY <1>7 DEF StoreInRedis, Goto, Moves
<1>8. CASE ClearMemory(c)
  BY <1>8 DEF ClearMemory, ClearKey, ClearAll, Goto, Moves
<1>9. CASE DeleteInRedis(c)
  BY <1>9 DEF DeleteInRedis, Goto, Moves
<1>10. CASE ScanRedis(c)
  BY <1>10 DEF ScanRedis, Goto, Moves
<1>11. CASE UnlinkFound(c)
  BY <1>11 DEF UnlinkFound, Goto, Moves
<1> QED
  BY <1>1, <1>2, <1>3, <1>4, <1>5, <1>6, <1>7, <1>8, <1>9, <1>10, <1>11 DEF Serve

\* Besides the calls there are the clock and clear().
LEMMA OtherSteps ==
    ASSUME [Next]_vars
    PROVE  \/ \E c \in Calls : Get(c) \/ Write(c) \/ Serve(c)
           \/ UNCHANGED <<source, pc, key, value, scan, faults, ghosts>>
<1>1. CASE \E c \in Calls : Get(c) \/ Write(c) \/ Serve(c)
  BY <1>1
<1>2. CASE \E p \in Processes : Clear(p) \/ \E k \in Keys : MemoryTimeOver(p, k)
  BY <1>2 DEF Clear, MemoryTimeOver
<1>3. CASE \E k \in Keys : RedisTimeOver(k)
  BY <1>3 DEF RedisTimeOver
<1>4. CASE UNCHANGED vars
  BY <1>4 DEF vars
<1> QED BY <1>1, <1>2, <1>3, <1>4 DEF Next

\* What a step of c leaves alone of another call, and of a writer.
LEMMA CallSteps ==
    ASSUME IInv, [Next]_vars, NEW d \in Calls
    PROVE  /\ d \in Started => d \in Started' /\ key'[d] = key[d] /\ value'[d] = value[d]
           /\ \/ pc'[d] = pc[d] /\ key'[d] = key[d] /\ value'[d] = value[d] /\ seen'[d] = seen[d]
              \/ Get(d) \/ Write(d) \/ Serve(d)
<1>a. TypeOK /\ CallInv(d)
  BY DEF IInv
<1> USE DEF ghosts
<1>1. CASE UNCHANGED <<source, pc, key, value, scan, faults, ghosts>>
  BY <1>1 DEF Started
<1>2. ASSUME NEW c \in Calls, Get(c) \/ Write(c) \/ Serve(c), c # d
      PROVE  /\ pc'[d] = pc[d] /\ key'[d] = key[d] /\ value'[d] = value[d] /\ seen'[d] = seen[d]
             /\ d \in Started => d \in Started'
  <2>1. pc'[d] = pc[d]
    BY <1>a, <1>2, StepOfCall DEF Moves, TypeOK
  <2>2. CASE Get(c)
    BY <1>a, <1>2, <2>1, <2>2 DEF Get, TypeOK, Started
  <2>3. CASE Write(c)
    BY <1>a, <1>2, <2>1, <2>3 DEF Write, TypeOK, Started
  <2>4. CASE GetFromRedis(c) \/ BackFill(c) \/ Load(c)
    BY <1>a, <1>2, <2>1, <2>4 DEF GetFromRedis, BackFill, Load, TypeOK, Started
  <2>5. CASE StoreInMemory(c) \/ StoreInRedis(c)
    BY <1>a, <1>2, <2>1, <2>5 DEF StoreInMemory, StoreInRedis, TypeOK, Started
  <2>6. CASE ClearMemory(c) \/ DeleteInRedis(c) \/ ScanRedis(c) \/ UnlinkFound(c)
    BY <1>a, <1>2, <2>1, <2>6 DEF ClearMemory, DeleteInRedis, ScanRedis, UnlinkFound, TypeOK, Started
  <2> QED BY <1>2, <2>2, <2>3, <2>4, <2>5, <2>6 DEF Serve
<1>3. ASSUME Get(d) \/ Write(d) \/ Serve(d), d \in Started
      PROVE  d \in Started' /\ key'[d] = key[d] /\ value'[d] = value[d]
  <2>1. d \notin Readers /\ pc[d] # "idle"
    BY <1>3 DEF Started, Writers
  <2>2. pc'[d] # "idle" /\ ~Get(d) /\ ~Write(d) /\ ~GetFromRedis(d) /\ ~BackFill(d) /\ ~Load(d)
    BY <1>a, <1>3, <2>1, StepOfCall DEF CallInv, Moves, TypeOK, EndOfSet, Get, Write, Goto,
        GetFromRedis, BackFill, Load
  <2>3. UNCHANGED <<key, value>>
    BY <1>3, <2>1, <2>2 DEF Serve, StoreInMemory, StoreInRedis, ClearMemory, DeleteInRedis,
        ScanRedis, UnlinkFound
  <2> QED BY <1>3, <2>2, <2>3 DEF Started
<1> QED BY <1>1, <1>2, <1>3, OtherSteps

\* The source moves on, and only by a writer that starts.
LEMMA SourceSteps ==
    ASSUME IInv, [Next]_vars
    PROVE  /\ UNCHANGED source
              \/ \E c \in Writers, k \in Keys :
                    /\ Write(c) /\ c \notin Started /\ Started' = Started \cup {c}
                    /\ source' = [source EXCEPT ![k] = @ + 1]
                    /\ key'[c] = k /\ value'[c] = source[k] + 1
           /\ Started \subseteq Started'
<1>a. TypeOK
  BY DEF IInv
<1>b. Started \subseteq Started'
  BY CallSteps DEF Started, Writers
<1>1. CASE \E c \in Calls : Write(c)
  <2>1. PICK c \in Calls : Write(c)
    BY <1>1
  <2>2. c \in Writers /\ pc[c] = "idle" /\ Moves(c, {"idle"}, {"store", "clear", "clearall"})
    BY <2>1, StepOfCall DEF Write, Goto, Moves
  <2>3. Started' = Started \cup {c} /\ c \notin Started
    BY <1>a, <2>2 DEF Moves, Started, TypeOK, Writers
  <2>4. PICK k \in Uses[c] : /\ key' = [key EXCEPT ![c] = k]
                             /\ source' = [source EXCEPT ![k] = @ + 1]
                             /\ value' = [value EXCEPT ![c] = source[k] + 1]
    BY <2>1 DEF Write
  <2>5. k \in Keys
    BY <2>4, CallsAssumption
  <2>6. key'[c] = k /\ value'[c] = source[k] + 1
    BY <1>a, <2>4 DEF TypeOK
  <2> QED BY <1>b, <2>1, <2>2, <2>3, <2>4, <2>5, <2>6
<1>2. ASSUME NEW c \in Calls, Get(c) \/ Serve(c) PROVE UNCHANGED source
  BY <1>2 DEF Serve, Get, GetFromRedis, BackFill, Load, StoreInMemory, StoreInRedis,
      ClearMemory, DeleteInRedis, ScanRedis, UnlinkFound
<1> QED BY <1>b, <1>1, <1>2, OtherSteps

\* There is a version left for each writer that has not started.
LEMMA SourceInductive ==
    ASSUME IInv, [Next]_vars
    PROVE  SourceInv' /\ source' \in [Keys -> Versions]
<1>a. source \in [Keys -> Versions] /\ SourceInv
  BY DEF IInv, TypeOK
<1>b. /\ IsFiniteSet(Writers) /\ IsFiniteSet(Started)
      /\ Cardinality(Started) \in Nat /\ Cardinality(Writers) \in Nat
  <2>1. Writers \subseteq Calls /\ Started \subseteq Writers
    BY DEF Writers, Started
  <2> QED BY <2>1, CallsAssumption, FS_Subset, FS_CardinalityType
<1>1. CASE UNCHANGED source
  <2>1. Started' \subseteq Writers /\ Started \subseteq Started'
    BY SourceSteps DEF Started
  <2>2. Cardinality(Started) <= Cardinality(Started') /\ Cardinality(Started') \in Nat
    BY <1>b, <2>1, FS_Subset, FS_CardinalityType
  <2> QED BY <1>a, <1>b, <1>1, <2>2 DEF SourceInv, Versions
<1>2. ASSUME NEW c \in Writers, NEW k \in Keys, c \notin Started,
             Started' = Started \cup {c}, source' = [source EXCEPT ![k] = @ + 1]
      PROVE  SourceInv' /\ source' \in [Keys -> Versions]
  <2>1. Cardinality(Started') = Cardinality(Started) + 1
    BY <1>b, <1>2, FS_AddElement
  <2>2. Started' \subseteq Writers
    BY <1>2 DEF Started
  <2>3. Cardinality(Started') <= Cardinality(Writers)
    BY <1>b, <2>2, FS_Subset
  <2> QED BY <1>a, <1>b, <1>2, <2>1, <2>3 DEF SourceInv, Versions
<1> QED BY <1>1, <1>2, SourceSteps

\* Versions are numbers, from the first.
LEMMA VersionsTyped == 0 \in Versions /\ Versions \subseteq Nat
<1>1. Cardinality(Writers) \in Nat
  <2>1. Writers \subseteq Calls
    BY DEF Writers
  <2> QED BY <2>1, CallsAssumption, FS_Subset, FS_CardinalityType
<1> QED BY <1>1 DEF Versions

\* Calls keep to the awaits of their part, and versions to the source.
LEMMA CallInductive ==
    ASSUME IInv, [Next]_vars, NEW c \in Calls
    PROVE  CallInv(c)'
<1>a. TypeOK /\ CallInv(c)
  BY DEF IInv
<1>b. c \in Started => c \in Started' /\ key'[c] = key[c] /\ value'[c] = value[c]
  BY CallSteps
<1>c. \A k \in Keys : source'[k] \in Nat /\ source[k] \in Nat /\ source[k] <= source'[k]
  <2>1. \A k \in Keys : source[k] \in Nat
    BY <1>a, VersionsTyped DEF TypeOK
  <2>2. UNCHANGED source \/ \E k \in Keys : source' = [source EXCEPT ![k] = @ + 1]
    BY SourceSteps
  <2>3. source \in [Keys -> Nat]
    BY <1>a, <2>1 DEF TypeOK
  <2> QED BY <2>2, <2>3
<1>1. c \in Started' => value'[c] <= source'[key'[c]]
  <2>1. CASE c \in Started
    BY <1>a, <1>b, <1>c, <2>1 DEF CallInv, TypeOK, Versions
  <2>2. CASE c \notin Started /\ c \in Started'
    <3>1. c \in Writers /\ pc[c] = "idle" /\ pc'[c] # "idle"
      BY <2>2 DEF Started
    <3>2. Get(c) \/ Write(c) \/ Serve(c)
      BY <3>1, CallSteps
    <3>3. Write(c)
      BY <3>1, <3>2, StepOfCall DEF Moves, Writers
    <3>4. PICK k \in Uses[c] : /\ key' = [key EXCEPT ![c] = k]
                               /\ source' = [source EXCEPT ![k] = @ + 1]
                               /\ value' = [value EXCEPT ![c] = source[k] + 1]
      BY <3>3 DEF Write
    <3>5. k \in Keys
      BY <3>4, CallsAssumption
    <3> QED BY <1>a, <1>c, <3>4, <3>5 DEF TypeOK
  <2> QED BY <2>1, <2>2
<1>2. c \in Readers => pc'[c] \in {"idle", "get", "fill", "load", "store", "setex"}
  BY <1>a, StepOfCall, CallSteps DEF CallInv, Moves, TypeOK, EndOfSet, Writers
<1>3. c \notin Readers => pc'[c] \in {"idle", "store", "setex", "clear", "clearall",
                                      "delete", "scan", "unlink", "done"}
  BY <1>a, StepOfCall, CallSteps DEF CallInv, Moves, TypeOK, EndOfSet, Writers
<1> QED BY <1>1, <1>2, <1>3 DEF CallInv

-----------------------------------------------------------------------------
(* What a call has seen, and the Redis tier.                               *)

\* A writer that is at work has changed the source.
LEMMA WriterAtWork ==
    ASSUME NEW c \in Calls, c \notin Readers, pc[c] # "idle"
    PROVE  c \in Started
BY DEF Started, Writers

\* The ghosts record writers that have started.
LEMMA GhostInductive ==
    ASSUME IInv, [Next]_vars
    PROVE  /\ GhostInv'
           /\ cleared' \in [Processes -> [Keys -> SUBSET Calls]]
           /\ dropped' \in [Keys -> SUBSET Calls]
           /\ seen' \in [Calls -> SUBSET Calls]
<1>a. TypeOK /\ GhostInv /\ Started \subseteq Calls /\ Started \subseteq Started'
  BY SourceSteps DEF IInv, Started, Writers
<1>b. /\ cleared \in [Processes -> [Keys -> SUBSET Calls]]
      /\ dropped \in [Keys -> SUBSET Calls] /\ seen \in [Calls -> SUBSET Calls]
      /\ key \in [Calls -> Keys] /\ Home \in [Calls -> Processes]
  BY <1>a, CallsAssumption DEF TypeOK
<1>c. \A p \in Processes, k \in Keys : cleared[p][k] \subseteq Started
  BY <1>a DEF GhostInv
<1>d. UNCHANGED dropped => /\ dropped' \in [Keys -> SUBSET Calls]
                           /\ \A k \in Keys : dropped'[k] \subseteq Started'
  BY <1>a, <1>b DEF GhostInv
<1>e. ASSUME NEW c \in Started,
             \/ dropped' = [dropped EXCEPT ![key[c]] = @ \cup {c}]
             \/ \E S : dropped' = [k \in Keys |-> IF k \in S THEN dropped[k] \cup {c} ELSE dropped[k]]
      PROVE  dropped' \in [Keys -> SUBSET Calls] /\ \A k \in Keys : dropped'[k] \subseteq Started'
  <2>1. c \in Calls /\ key[c] \in Keys /\ c \in Started' /\ \A k \in Keys : dropped[k] \subseteq Started
    BY <1>a, <1>b DEF GhostInv
  <2>2. /\ DOMAIN dropped' = Keys /\ dropped' = [k \in Keys |-> dropped'[k]]
        /\ \A k \in Keys : dropped'[k] = dropped[k] \/ dropped'[k] = dropped[k] \cup {c}
    <3>1. CASE dropped' = [dropped EXCEPT ![key[c]] = @ \cup {c}]
      BY <1>b, <2>1, <3>1
    <3>2. CASE \E S : dropped' = [k \in Keys |-> IF k \in S THEN dropped[k] \cup {c} ELSE dropped[k]]
      BY <3>2
    <3> QED BY <1>e, <3>1, <3>2
  <2>3. \A k \in Keys : dropped'[k] \in SUBSET Calls /\ dropped'[k] \subseteq Started'
    BY <1>a, <1>b, <2>1, <2>2
  <2> QED BY <2>2, <2>3
<1> DEFINE Ok == /\ cleared' \in [Processes -> [Keys -> SUBSET Calls]]
                 /\ dropped' \in [Keys -> SUBSET Calls]
                 /\ seen' \in [Calls -> SUBSET Calls]
                 /\ \A p \in Processes, k \in Keys : cleared'[p][k] \subseteq Started'
                 /\ \A k \in Keys : dropped'[k] \subseteq Started'
                 /\ \A c \in Calls : seen'[c] \subseteq Started'
<1>1. CASE UNCHANGED <<cleared, dropped, seen>>
  BY <1>a, <1>b, <1>1 DEF GhostInv
<1>2. ASSUME NEW c \in Calls, Get(c) PROVE UNCHANGED <<cleared, dropped, seen>>
  BY <1>2 DEF Get, ghosts
<1>3. ASSUME NEW c \in Calls, UNCHANGED <<cleared, dropped>>,
             NEW S \in SUBSET Started, seen' = [seen EXCEPT ![c] = S]
      PROVE  Ok
  BY <1>a, <1>b, <1>3 DEF GhostInv
<1>4. ASSUME NEW c \in Calls, GetFromRedis(c) \/ BackFill(c) \/ Load(c) \/ Write(c) PROVE Ok
  <2>1. UNCHANGED <<cleared, dropped>>
    BY <1>4 DEF GetFromRedis, BackFill, Load, Write
  <2>2. dropped[key[c]] \subseteq Started
    BY <1>a, <1>b DEF GhostInv
  <2>3. UNCHANGED seen \/ \E S \in SUBSET Started : seen' = [seen EXCEPT ![c] = S]
    <3>1. CASE GetFromRedis(c)
      BY <2>2, <3>1 DEF GetFromRedis
    <3>2. CASE BackFill(c)
      <4>1. seen' = [seen EXCEPT ![c] = {}]
        BY <3>2 DEF BackFill
      <4> QED BY <4>1
    <3>3. CASE Load(c) \/ Write(c)
      <4>1. UNCHANGED seen \/ seen' = [seen EXCEPT ![c] = Started]
        BY <3>3 DEF Load, Write
      <4> QED BY <4>1
    <3> QED BY <1>4, <3>1, <3>2, <3>3
  <2> QED BY <1>1, <1>3, <2>1, <2>3 DEF GhostInv
<1>5. ASSUME NEW c \in Calls, StoreInMemory(c) \/ ClearMemory(c) PROVE Ok
  <2>1. c \in Started \/ c \in Readers
    BY <1>5, WriterAtWork DEF StoreInMemory, ClearMemory, ClearKey, ClearAll, Goto
  <2>2. UNCHANGED <<dropped, seen>>
    BY <1>5 DEF StoreInMemory, ClearMemory
  <2>3. CASE UNCHANGED cleared
    BY <1>1, <2>2, <2>3 DEF GhostInv
  <2>4. CASE c \in Started /\ cleared' = [cleared EXCEPT ![Home[c]][key[c]] = @ \cup {c}]
    BY <1>a, <1>b, <1>c, <2>2, <2>4 DEF GhostInv
  <2>5. CASE c \in Started /\ cleared' = [cleared EXCEPT ![Home[c]] = [k \in Keys |-> @[k] \cup {c}]]
    BY <1>a, <1>b, <1>c, <2>2, <2>5 DEF GhostInv
  <2>6. ClearMemory(c) => c \notin Readers
    BY CallSteps DEF IInv, CallInv, ClearMemory, ClearKey, ClearAll, Goto
  <2> QED BY <1>5, <2>1, <2>3, <2>4, <2>5, <2>6 DEF StoreInMemory, ClearMemory, ClearKey, ClearAll
<1>6. ASSUME NEW c \in Calls, StoreInRedis(c) PROVE Ok
  <2>1. c \in Started \/ c \in Readers
    BY <1>6, WriterAtWork DEF StoreInRedis, Goto
  <2>2. UNCHANGED cleared
    BY <1>6 DEF StoreInRedis
  <2>3. UNCHANGED seen \/ seen' = [seen EXCEPT ![c] = {}]
    BY <1>6 DEF StoreInRedis
  <2>4. UNCHANGED dropped \/ (c \in Started /\ dropped' = [dropped EXCEPT ![key[c]] = @ \cup {c}])
    BY <1>6, <2>1 DEF StoreInRedis, RedisFails
  <2>5. dropped' \in [Keys -> SUBSET Calls] /\ \A k \in Keys : dropped'[k] \subseteq Started'
    BY <1>d, <1>e, <2>4
  <2>6. seen' \in [Calls -> SUBSET Calls] /\ \A d \in Calls : seen'[d] \subseteq Started'
    BY <1>a, <1>b, <2>3 DEF GhostInv
  <2> QED BY <1>a, <1>b, <2>2, <2>5, <2>6 DEF GhostInv
<1>7. ASSUME NEW c \in Calls, DeleteInRedis(c) \/ ScanRedis(c) \/ UnlinkFound(c) PROVE Ok
  <2>1. pc[c] \in {"delete", "scan", "unlink"} /\ UNCHANGED <<cleared, seen>>
    BY <1>7 DEF DeleteInRedis, ScanRedis, UnlinkFound, Goto
  <2>2. c \in Started
    BY <2>1, WriterAtWork DEF IInv, CallInv
  <2>3. dropped' \in [Keys -> SUBSET Calls] /\ \A k \in Keys : dropped'[k] \subseteq Started'
    <3>1. CASE DeleteInRedis(c)
      <4>1. UNCHANGED dropped \/ dropped' = [dropped EXCEPT ![key[c]] = @ \cup {c}]
        BY <3>1 DEF DeleteInRedis, RedisFails
      <4> QED BY <1>d, <1>e, <2>2, <4>1
    <3>2. CASE ScanRedis(c) \/ UnlinkFound(c)
      <4>1. UNCHANGED dropped \/ \E S :
               dropped' = [k \in Keys |-> IF k \in S THEN dropped[k] \cup {c} ELSE dropped[k]]
        BY <3>2 DEF ScanRedis, UnlinkFound, RedisFails
      <4> QED BY <1>d, <1>e, <2>2, <4>1
    <3> QED BY <1>7, <3>1, <3>2
  <2> QED BY <1>a, <1>b, <1>c, <2>1, <2>3 DEF GhostInv
<1>8. Ok
  BY <1>1, <1>2, <1>4, <1>5, <1>6, <1>7, OtherSteps DEF Serve, ghosts, GhostInv
<1> QED BY <1>8 DEF GhostInv

\* A writer that has started is newer than before only if the version is older.
LEMMA NewerKept ==
    ASSUME IInv, [Next]_vars, NEW w \in Started, NEW k, NEW v
    PROVE  Newer(w, k, v)' <=> Newer(w, k, v)
<1>1. w \in Calls
  BY DEF Started, Writers
<1> QED BY <1>1, CallSteps DEF Newer

\* What a call reads is no older than the writers that have changed the source,
\* or have dropped the Redis entry before it came there.
LEMMA SeenInductive ==
    ASSUME IInv, [Next]_vars
    PROVE  SeenInv'
<1> SUFFICES ASSUME NEW c \in Calls, pc'[c] \in {"fill", "store", "setex"}, NEW w \in seen'[c]
             PROVE  ~Newer(w, key[c], value[c])'
  BY DEF SeenInv
<1>a. TypeOK /\ SeenInv /\ GhostInv /\ CallInv(c)
  BY DEF IInv
<1>b. key[c] \in Keys /\ Home[c] \in Processes
  BY <1>a, CallsAssumption DEF TypeOK
<1>c. dropped[key[c]] \subseteq Started /\ seen[c] \subseteq Started
  BY <1>a, <1>b DEF GhostInv
<1>d. ASSUME NEW v \in Started
      PROVE  /\ key'[v] = key[v] /\ value'[v] = value[v]
             /\ value[v] \in Nat /\ source[key[v]] \in Nat /\ value[v] <= source[key[v]]
  <2>1. v \in Calls
    BY DEF Started, Writers
  <2>2. value[v] \in Nat /\ source[key[v]] \in Nat
    BY <1>a, <2>1, VersionsTyped DEF TypeOK
  <2> QED BY <2>1, <2>2, CallSteps DEF IInv, CallInv
<1>1. CASE pc[c] \in {"fill", "store", "setex"} /\ w \in seen[c]
           /\ key'[c] = key[c] /\ value'[c] = value[c]
  <2>1. w \in Started /\ ~Newer(w, key[c], value[c])
    BY <1>a, <1>c, <1>1 DEF SeenInv
  <2>2. key'[w] = key[w] /\ value'[w] = value[w]
    BY <2>1, CallSteps DEF Started, Writers
  <2> QED BY <1>1, <2>1, <2>2 DEF Newer
<1>2. CASE pc'[c] = pc[c] /\ key'[c] = key[c] /\ value'[c] = value[c] /\ seen'[c] = seen[c]
  BY <1>1, <1>2
<1>3. CASE GetFromRedis(c)
  <2> DEFINE e == redis[key[c]]
  <2>1. /\ e # Absent /\ value'[c] = e.version /\ UNCHANGED key
        /\ seen'[c] = dropped[key[c]] \ e.late
    BY <1>a, <1>3 DEF GetFromRedis, Goto, TypeOK
  <2>2. w \in Started /\ w \in dropped[key[c]] /\ w \notin e.late
    BY <1>c, <2>1
  <2>3. ~Newer(w, key[c], e.version)
    BY <1>b, <2>1, <2>2 DEF IInv, DroppedInv, Started
  <2>4. key'[w] = key[w] /\ value'[w] = value[w]
    BY <2>2, CallSteps DEF Started, Writers
  <2> QED BY <2>1, <2>3, <2>4 DEF Newer
<1>4. CASE Load(c)
  <2>1. value'[c] = source[key[c]] /\ seen'[c] = Started /\ UNCHANGED key
    BY <1>a, <1>4 DEF Load, TypeOK
  <2>2. w \in Started
    BY <2>1
  <2> QED BY <1>d, <2>1, <2>2 DEF Newer
<1>5. CASE Write(c)
  <2>1. PICK k \in Uses[c] : /\ key' = [key EXCEPT ![c] = k]
                             /\ value' = [value EXCEPT ![c] = source[k] + 1]
    BY <1>5 DEF Write
  <2>2. k \in Keys /\ key'[c] = k /\ value'[c] = source[k] + 1
    BY <1>a, <2>1, CallsAssumption DEF TypeOK
  <2>3. Goto(c, "idle", "store") /\ seen' = [seen EXCEPT ![c] = Started]
    BY <1>a, <1>5 DEF Write, Goto, TypeOK
  <2>4. w \in Started
    BY <1>a, <2>3 DEF TypeOK
  <2>5. source[k] \in Nat
    BY <1>a, <2>2, VersionsTyped DEF TypeOK
  <2> QED BY <1>d, <2>2, <2>4, <2>5 DEF Newer
<1>6. CASE StoreInMemory(c)
  <2>1. pc[c] = "store" /\ UNCHANGED <<key, value, seen>>
    BY <1>6 DEF StoreInMemory, Goto
  <2> QED BY <1>1, <2>1
<1>7. CASE Get(c)
  <2>1. pc'[c] \in {"idle", "get"}
    BY <1>a, <1>7 DEF Get, Hit, Miss, Goto, TypeOK
  <2> QED BY <2>1
<1>8. CASE BackFill(c) \/ StoreInRedis(c) \/ ClearMemory(c) \/ DeleteInRedis(c)
           \/ ScanRedis(c) \/ UnlinkFound(c)
  <2>1. pc'[c] \notin {"fill", "store", "setex"}
    BY <1>a, <1>8 DEF BackFill, StoreInRedis, ClearMemory, ClearKey, ClearAll, DeleteInRedis,
        ScanRedis, UnlinkFound, Goto, EndOfSet, TypeOK
  <2> QED BY <2>1
<1> QED BY <1>2, <1>3, <1>4, <1>5, <1>6, <1>7, <1>8, CallSteps DEF Serve

\* Which steps change the Redis tier.
LEMMA RedisSteps ==
    ASSUME [Next]_vars
    PROVE  \/ UNCHANGED <<redis, dropped>>
           \/ \E c \in Calls : \/ StoreInRedis(c) \/ DeleteInRedis(c)
                               \/ ScanRedis(c) \/ UnlinkFound(c)
           \/ \E k \in Keys : RedisTimeOver(k)
<1>1. ASSUME NEW c \in Calls, Get(c) \/ Write(c) \/ Serve(c)
      PROVE  \/ UNCHANGED <<redis, dropped>>
             \/ StoreInRedis(c) \/ DeleteInRedis(c) \/ ScanRedis(c) \/ UnlinkFound(c)
  BY <1>1 DEF Serve, Get, Write, GetFromRedis, BackFill, Load, StoreInMemory, ClearMemory,
      tiers, ghosts
<1>2. ASSUME NEW p \in Processes, Clear(p) \/ \E k \in Keys : MemoryTimeOver(p, k)
      PROVE  UNCHANGED <<redis, dropped>>
  BY <1>2 DEF Clear, MemoryTimeOver, ghosts
<1>3. CASE UNCHANGED vars
  BY <1>3 DEF vars, tiers, ghosts
<1> QED BY <1>1, <1>2, <1>3 DEF Next

\* An entry of Redis came after all the writers that were done with Redis.
LEMMA RedisInductive ==
    ASSUME IInv, [Next]_vars
    PROVE  DroppedInv' /\ redis' \in [Keys -> Entries]
<1>a. TypeOK /\ DroppedInv /\ GhostInv
  BY DEF IInv
<1>b. /\ redis \in [Keys -> Entries] /\ dropped \in [Keys -> SUBSET Calls]
      /\ key \in [Calls -> Keys] /\ value \in [Calls -> Versions]
  BY <1>a DEF TypeOK
<1>c. Absent \in Entries
  BY VersionsTyped DEF Absent, Entries
<1> DEFINE Fine(k, w) == redis'[k] # Absent /\ Newer(w, k, redis[k].version)' /\ w \in dropped'[k]
                           => w \in redis'[k].late
<1>1. ASSUME NEW k \in Keys, NEW w \in Writers, redis'[k] = redis[k], dropped'[k] = dropped[k]
      PROVE  Fine(k, w)
  <2> SUFFICES ASSUME redis[k] # Absent, Newer(w, k, redis[k].version)', w \in dropped[k]
               PROVE  w \in redis[k].late
    BY <1>1
  <2>1. w \in Started
    BY <1>a DEF GhostInv
  <2>2. key'[w] = key[w] /\ value'[w] = value[w]
    BY <2>1, CallSteps DEF Started, Writers
  <2>3. Newer(w, k, redis[k].version)
    BY <1>1, <2>2 DEF Newer
  <2> QED BY <1>a, <2>3 DEF DroppedInv
<1>2. CASE UNCHANGED <<redis, dropped>>
  BY <1>b, <1>1, <1>2 DEF DroppedInv
<1>3. ASSUME NEW c \in Calls, StoreInRedis(c)
      PROVE  redis' \in [Keys -> Entries] /\ \A k \in Keys, w \in Writers : Fine(k, w)
  <2>1. CASE UNCHANGED <<redis, dropped>>
    BY <1>b, <1>1, <2>1
  <2>2. CASE /\ redis' = [redis EXCEPT ![key[c]] = Entry(value[c], dropped[key[c]] \ seen[c])]
             /\ dropped' = IF c \in Readers THEN dropped
                           ELSE [dropped EXCEPT ![key[c]] = @ \cup {c}]
    <3>1. Entry(value[c], dropped[key[c]] \ seen[c]) \in Entries
      BY <1>b DEF Entry, Entries
    <3>2. ASSUME NEW k \in Keys, NEW w \in Writers PROVE Fine(k, w)
      <4>1. CASE k # key[c]
        BY <1>b, <1>1, <2>2, <4>1
      <4>2. CASE k = key[c]
        <5>1. redis'[k].version = value[c] /\ redis'[k].late = dropped[k] \ seen[c]
          BY <1>b, <2>2, <4>2 DEF Entry
        <5>2. w \in dropped'[k] => w \in dropped[k] \/ (w = c /\ c \notin Readers)
          BY <1>b, <2>2
        <5>3. c \notin Readers => value'[c] = value[c]
          BY <1>3 DEF StoreInRedis
        <5>4. value[c] \in Nat
          BY <1>b, VersionsTyped
        <5>5. ASSUME w \in dropped[k], Newer(w, k, redis[k].version)' PROVE w \notin seen[c]
          <6>1. w \in Started
            BY <1>a, <5>5 DEF GhostInv
          <6>2. Newer(w, k, value[c])
            BY <5>1, <5>5, <6>1, CallSteps DEF Newer, Started, Writers
          <6>3. pc[c] = "setex"
            BY <1>3 DEF StoreInRedis, Goto
          <6> QED BY <4>2, <6>2, <6>3 DEF IInv, SeenInv
        <5> QED BY <5>1, <5>2, <5>3, <5>4, <5>5 DEF Newer
      <4> QED BY <4>1, <4>2
    <3> QED BY <1>b, <2>2, <3>1, <3>2
  <2> QED BY <1>3, <2>1, <2>2 DEF StoreInRedis, StoreEntry, RedisFails
<1>4. ASSUME NEW c \in Calls, DeleteInRedis(c) \/ ScanRedis(c) \/ UnlinkFound(c)
      PROVE  redis' \in [Keys -> Entries] /\ \A k \in Keys, w \in Writers : Fine(k, w)
  <2>1. redis' \in [Keys -> Entries] /\ \A k \in Keys :
           redis'[k] = Absent \/ (redis'[k] = redis[k] /\ dropped'[k] = dropped[k])
    <3>1. CASE DeleteInRedis(c)
      BY <1>b, <1>c, <3>1 DEF DeleteInRedis, Unlink, RedisFails
    <3>2. CASE ScanRedis(c)
      BY <1>b, <1>c, <3>2 DEF ScanRedis, RedisFails
    <3>3. CASE UnlinkFound(c)
      BY <1>b, <1>c, <3>3 DEF UnlinkFound, Unlink, RedisFails
    <3> QED BY <1>4, <3>1, <3>2, <3>3
  <2> QED BY <1>1, <2>1
<1>5. ASSUME NEW k \in Keys, RedisTimeOver(k)
      PROVE  redis' \in [Keys -> Entries] /\ \A j \in Keys, w \in Writers : Fine(j, w)
  <2>1. redis' = [redis EXCEPT ![k] = Absent] /\ UNCHANGED dropped
    BY <1>5 DEF RedisTimeOver, ghosts
  <2> QED BY <1>b, <1>c, <1>1, <2>1
<1>6. redis' \in [Keys -> Entries] /\ \A k \in Keys, w \in Writers : Fine(k, w)
  BY <1>b, <1>1, <1>3, <1>4, <1>5, RedisSteps
<1> QED BY <1>6 DEF DroppedInv

\* A writer is done when it has renewed or deleted every key it was to, or when
\* a command of its has failed.
LEMMA DoneInductive ==
    ASSUME IInv, [Next]_vars
    PROVE  DoneInv'
<1> SUFFICES ASSUME NEW w \in Writers
             PROVE  (/\ pc[w] = "scan" => \A k \in Keys : k \in left[w] \/ w \in dropped[k]
                     /\ pc[w] = "unlink" => \A k \in Keys : k \in left[w] \cup found[w] \/ w \in dropped[k]
                     /\ pc[w] = "done" => w \in failed \/ w \in dropped[key[w]])'
  BY DEF DoneInv
<1>a. TypeOK /\ DoneInv /\ w \in Calls /\ w \notin Readers /\ CallInv(w)
  BY DEF IInv, Writers
<1>b. /\ dropped \in [Keys -> SUBSET Calls] /\ key \in [Calls -> Keys]
      /\ left \in [Calls -> SUBSET Keys] /\ found \in [Calls -> SUBSET Keys]
      /\ failed \in SUBSET Calls /\ pc \in [Calls -> Awaits]
  BY <1>a DEF TypeOK, Awaits
<1>c. failed \subseteq failed' /\ \A k \in Keys : dropped[k] \subseteq dropped'[k]
  <2>1. ASSUME NEW c \in Calls, Get(c) \/ Write(c) \/ Serve(c)
        PROVE  failed \subseteq failed' /\ \A k \in Keys : dropped[k] \subseteq dropped'[k]
    <3>1. CASE StoreInRedis(c)
      BY <1>b, <3>1 DEF StoreInRedis, RedisFails
    <3>2. CASE DeleteInRedis(c)
      BY <1>b, <3>2 DEF DeleteInRedis, RedisFails
    <3>3. CASE ScanRedis(c)
      BY <1>b, <3>3 DEF ScanRedis, RedisFails
    <3>4. CASE UnlinkFound(c)
      BY <1>b, <3>4 DEF UnlinkFound, RedisFails
    <3>5. CASE UNCHANGED <<dropped, failed>>
      BY <3>5
    <3> QED BY <2>1, <3>1, <3>2, <3>3, <3>4, <3>5
            DEF Serve, Get, Write, GetFromRedis, BackFill, Load, StoreInMemory, ClearMemory, ghosts
  <2> QED BY <2>1, OtherSteps DEF ghosts
<1>1. CASE UNCHANGED <<pc, key, left, found>>
  BY <1>a, <1>b, <1>c, <1>1 DEF DoneInv
<1>2. ASSUME NEW c \in Calls, c # w, Get(c) \/ Write(c) \/ Serve(c)
      PROVE  pc'[w] = pc[w] /\ left'[w] = left[w] /\ found'[w] = found[w]
             /\ (pc[w] # "idle" => key'[w] = key[w])
  <2>1. pc'[w] = pc[w]
    BY <1>a, <1>b, <1>2, StepOfCall DEF Moves
  <2>2. pc[w] # "idle" => key'[w] = key[w]
    BY <1>a, CallSteps DEF Started
  <2>3. \/ UNCHANGED left
        \/ \E S : left' = [left EXCEPT ![c] = S]
    BY <1>2 DEF Serve, Get, Write, GetFromRedis, BackFill, Load, StoreInMemory, StoreInRedis,
        ClearMemory, DeleteInRedis, ScanRedis, UnlinkFound, RedisFails, scan
  <2>4. \/ UNCHANGED found
        \/ \E S : found' = [found EXCEPT ![c] = S]
    BY <1>2 DEF Serve, Get, Write, GetFromRedis, BackFill, Load, StoreInMemory, StoreInRedis,
        ClearMemory, DeleteInRedis, ScanRedis, UnlinkFound, RedisFails, scan
  <2> QED BY <1>a, <1>b, <1>2, <2>1, <2>2, <2>3, <2>4
<1>3. CASE \E c \in Calls : c # w /\ (Get(c) \/ Write(c) \/ Serve(c))
  BY <1>a, <1>b, <1>c, <1>2, <1>3 DEF DoneInv
<1>4. CASE Get(w) \/ GetFromRedis(w) \/ BackFill(w) \/ Load(w)
  BY <1>a, <1>4 DEF Get, GetFromRedis, BackFill, Load, Goto, CallInv
<1>5. CASE Write(w) \/ StoreInMemory(w)
  <2>1. pc'[w] \in {"store", "clear", "clearall", "setex"}
    BY <1>a, <1>b, <1>5 DEF Write, StoreInMemory, Goto
  <2> QED BY <2>1
<1>6. CASE ClearMemory(w)
  BY <1>a, <1>b, <1>6 DEF ClearMemory, ClearKey, ClearAll, Goto
<1>7. CASE StoreInRedis(w)
  BY <1>a, <1>b, <1>7 DEF StoreInRedis, RedisFails, Goto, EndOfSet
<1>8. CASE DeleteInRedis(w)
  BY <1>a, <1>b, <1>8 DEF DeleteInRedis, RedisFails, Goto
<1>9. CASE ScanRedis(w)
  <2>1. CASE RedisFails(w) /\ Goto(w, "scan", "done")
    BY <1>a, <1>b, <2>1 DEF RedisFails, Goto
  <2>2. ASSUME NEW P \in (SUBSET left[w]) \ {{}}, NEW S \in SUBSET P,
               Goto(w, "scan", IF S # {} THEN "unlink" ELSE IF P = left[w] THEN "done" ELSE "scan"),
               left' = [left EXCEPT ![w] = @ \ P], found' = [found EXCEPT ![w] = S],
               dropped' = [k \in Keys |-> IF k \in P \ S THEN dropped[k] \cup {w} ELSE dropped[k]],
               UNCHANGED key
        PROVE  (/\ pc[w] = "scan" => \A k \in Keys : k \in left[w] \/ w \in dropped[k]
                /\ pc[w] = "unlink" => \A k \in Keys : k \in left[w] \cup found[w] \/ w \in dropped[k]
                /\ pc[w] = "done" => w \in failed \/ w \in dropped[key[w]])'
    <3>1. \A k \in Keys : k \in left[w] \/ w \in dropped[k]
      BY <1>a, <2>2 DEF Goto, DoneInv
    <3>2. \A k \in Keys : k \in left'[w] \/ k \in S \/ w \in dropped'[k]
      BY <1>a, <1>b, <2>2, <3>1
    <3>3. found'[w] = S /\ left'[w] = left[w] \ P
      BY <1>a, <1>b, <2>2
    <3>4. key'[w] \in Keys
      BY <1>a, <1>b, <2>2
    <3>5. pc'[w] = IF S # {} THEN "unlink" ELSE IF P = left[w] THEN "done" ELSE "scan"
      BY <1>a, <1>b, <2>2 DEF Goto
    <3> QED BY <3>2, <3>3, <3>4, <3>5
  <2> QED BY <1>9, <2>1, <2>2 DEF ScanRedis
<1>10. CASE UnlinkFound(w)
  <2>1. CASE RedisFails(w) /\ Goto(w, "unlink", "done")
    BY <1>a, <1>b, <2>1 DEF RedisFails, Goto
  <2>2. CASE /\ Goto(w, "unlink", IF left[w] = {} THEN "done" ELSE "scan")
             /\ dropped' = [k \in Keys |-> IF k \in found[w] THEN dropped[k] \cup {w} ELSE dropped[k]]
             /\ UNCHANGED <<key, left>>
    <3>1. \A k \in Keys : k \in left[w] \cup found[w] \/ w \in dropped[k]
      BY <1>a, <2>2 DEF Goto, DoneInv
    <3>2. \A k \in Keys : k \in left'[w] \/ w \in dropped'[k]
      BY <1>a, <1>b, <2>2, <3>1
    <3>3. key'[w] \in Keys /\ left'[w] = left[w]
      BY <1>a, <1>b, <2>2
    <3>4. pc'[w] = IF left[w] = {} THEN "done" ELSE "scan"
      BY <1>a, <1>b, <2>2 DEF Goto
    <3> QED BY <3>2, <3>3, <3>4
  <2> QED BY <1>10, <2>1, <2>2 DEF UnlinkFound
<1> QED
  BY <1>a, <1>1, <1>3, <1>4, <1>5, <1>6, <1>7, <1>8, <1>9, <1>10, OtherSteps DEF Serve, scan

-----------------------------------------------------------------------------
(* The memory tier.                                                        *)

\* An order of use within the limit, and the entries of its keys only.
GoodTier(s, m) ==
    /\ s \in Seq(Keys) /\ Once(s) /\ Len(s) <= MaxEntries
    /\ m \in [Keys -> Entries]
    /\ \A k \in Keys : k \notin Elements(s) => m[k] = Absent

\* The entry that is not there has the form of an entry.
LEMMA AbsentTyped == Absent \in Entries
BY VersionsTyped DEF Absent, Entries

\* An empty tier is within the limit.
LEMMA EmptyTier == GoodTier(<<>>, [k \in Keys |-> Absent])
<1>1. <<>> \in Seq(Keys) /\ Len(<<>>) = 0 /\ Once(<<>>)
  BY EmptySeq DEF Once
<1> QED BY <1>1, AbsentTyped, BoundsAssumption DEF GoodTier

\* Removing a key keeps the others.
LEMMA RemovedTier ==
    ASSUME NEW s, NEW m, GoodTier(s, m), NEW k \in Keys
    PROVE  /\ GoodTier(Without(s, k), [m EXCEPT ![k] = Absent])
           /\ Elements(Without(s, k)) = Elements(s) \ {k}
<1>1. /\ Without(s, k) \in Seq(Keys) /\ Once(Without(s, k))
      /\ Elements(Without(s, k)) = Elements(s) \ {k}
      /\ Len(Without(s, k)) = IF k \in Elements(s) THEN Len(s) - 1 ELSE Len(s)
  BY WithoutKey DEF GoodTier
<1>2. Len(s) \in Nat /\ Len(s) <= MaxEntries
  BY LenProperties DEF GoodTier
<1>3. Len(Without(s, k)) <= MaxEntries
  BY <1>1, <1>2, BoundsAssumption
<1>4. m \in [Keys -> Entries] /\ \A j \in Keys : j \notin Elements(s) => m[j] = Absent
  BY DEF GoodTier
<1>5. [m EXCEPT ![k] = Absent] \in [Keys -> Entries]
  BY <1>4, AbsentTyped
<1>6. \A j \in Keys : j \notin Elements(s) \ {k} => [m EXCEPT ![k] = Absent][j] = Absent
  BY <1>4
<1> QED BY <1>1, <1>3, <1>5, <1>6 DEF GoodTier

\* Using a key keeps all of them.
LEMMA UsedTier ==
    ASSUME NEW s, NEW m, GoodTier(s, m), NEW k \in Elements(s)
    PROVE  GoodTier(Touch(s, k), m) /\ Elements(Touch(s, k)) = Elements(s)
<1>1. s \in Seq(Keys) /\ k \in Keys /\ Once(s)
  BY DEF GoodTier, Elements
<1>2. /\ Touch(s, k) \in Seq(Keys) /\ Once(Touch(s, k))
      /\ Elements(Touch(s, k)) = Elements(s) \cup {k}
      /\ Len(Touch(s, k)) = IF k \in Elements(s) THEN Len(s) ELSE Len(s) + 1
  BY <1>1, TouchKey
<1>3. Elements(s) \cup {k} = Elements(s)
  OBVIOUS
<1> QED BY <1>2, <1>3 DEF GoodTier

\* Setting a key evicts what is too much.
LEMMA SetTier ==
    ASSUME NEW s, NEW m, GoodTier(s, m), NEW k \in Keys, NEW e \in Entries, NEW o,
           o = Evict(Touch(s, k))
    PROVE  /\ GoodTier(o, [j \in Keys |-> IF j \notin Elements(o) THEN Absent
                                          ELSE IF j = k THEN e ELSE m[j]])
           /\ Elements(o) \subseteq Elements(s) \cup {k}
<1>1. s \in Seq(Keys) /\ Once(s) /\ Len(s) <= MaxEntries /\ m \in [Keys -> Entries]
  BY DEF GoodTier
<1>2. /\ Touch(s, k) \in Seq(Keys) /\ Once(Touch(s, k))
      /\ Elements(Touch(s, k)) = Elements(s) \cup {k}
      /\ Len(Touch(s, k)) = IF k \in Elements(s) THEN Len(s) ELSE Len(s) + 1
  BY <1>1, TouchKey
<1>3. Len(s) \in Nat
  BY <1>1, LenProperties
<1>4. Len(Touch(s, k)) <= MaxEntries + 1
  BY <1>1, <1>2, <1>3, BoundsAssumption
<1>5. /\ o \in Seq(Keys) /\ Once(o) /\ Len(o) <= MaxEntries
      /\ Elements(o) \subseteq Elements(Touch(s, k))
  BY <1>2, <1>4, EvictKey
<1>6. \A j \in Keys : (IF j \notin Elements(o) THEN Absent ELSE IF j = k THEN e ELSE m[j]) \in Entries
  BY <1>1, AbsentTyped
<1> QED BY <1>2, <1>5, <1>6 DEF GoodTier

\* A step that changes the tier of one process.
LEMMA ChangeOfTier ==
    ASSUME IInv, NEW p \in Processes, NEW s, NEW m, GoodTier(s, m),
           recency' = [recency EXCEPT ![p] = s], memory' = [memory EXCEPT ![p] = m]
    PROVE  /\ recency' \in Orders /\ memory' \in Tiers /\ TierInv'
           /\ recency'[p] = s /\ memory'[p] = m
           /\ \A q \in Processes : q # p => recency'[q] = recency[q] /\ memory'[q] = memory[q]
<1>1. recency \in [Processes -> Seq(Keys)] /\ memory \in [Processes -> [Keys -> Entries]] /\ TierInv
  BY DEF IInv, TypeOK
<1>2. s \in Seq(Keys) /\ m \in [Keys -> Entries]
  BY DEF GoodTier
<1>3. recency' \in Orders /\ memory' \in Tiers
  BY <1>1, <1>2 DEF Orders, Tiers
<1>4. /\ recency'[p] = s /\ memory'[p] = m
      /\ \A q \in Processes : q # p => recency'[q] = recency[q] /\ memory'[q] = memory[q]
  BY <1>1
<1>5. ASSUME NEW q \in Processes
      PROVE  /\ Once(recency'[q]) /\ Len(recency'[q]) <= MaxEntries
             /\ \A k \in Keys : k \notin Elements(recency'[q]) => memory'[q][k] = Absent
  <2>1. CASE q = p
    BY <1>4, <2>1 DEF GoodTier
  <2>2. CASE q # p
    BY <1>1, <1>4, <2>2 DEF TierInv, Held
  <2> QED BY <2>1, <2>2
<1> QED BY <1>3, <1>4, <1>5 DEF TierInv, Held

\* Every tier is one within its limit.
LEMMA TierNow ==
    ASSUME IInv, NEW p \in Processes
    PROVE  GoodTier(recency[p], memory[p])
<1>1. recency[p] \in Seq(Keys) /\ memory[p] \in [Keys -> Entries]
  BY DEF IInv, TypeOK
<1> QED BY <1>1 DEF GoodTier, IInv, TierInv, Held

\* Which steps change the memory tiers.
LEMMA MemorySteps ==
    ASSUME [Next]_vars
    PROVE  \/ UNCHANGED <<memory, recency, cleared>>
           \/ \E c \in Calls : Get(c) \/ BackFill(c) \/ StoreInMemory(c) \/ ClearMemory(c)
           \/ \E p \in Processes : Clear(p) \/ \E k \in Keys : MemoryTimeOver(p, k)
<1>1. ASSUME NEW c \in Calls, Get(c) \/ Write(c) \/ Serve(c)
      PROVE  \/ UNCHANGED <<memory, recency, cleared>>
             \/ Get(c) \/ BackFill(c) \/ StoreInMemory(c) \/ ClearMemory(c)
  BY <1>1 DEF Serve, Write, GetFromRedis, Load, StoreInRedis, DeleteInRedis, ScanRedis,
      UnlinkFound, tiers, ghosts
<1>2. ASSUME NEW k \in Keys, RedisTimeOver(k) PROVE UNCHANGED <<memory, recency, cleared>>
  BY <1>2 DEF RedisTimeOver, ghosts
<1>3. CASE UNCHANGED vars
  BY <1>3 DEF vars, tiers, ghosts
<1> QED BY <1>1, <1>2, <1>3 DEF Next

\* What one call, or the clock, does to the entry of a key: gone, or kept with
\* its version.
Kept(p, k) ==
    k \in Held(p)' => /\ k \in Held(p)
                      /\ memory'[p][k].version = memory[p][k].version
                      /\ memory'[p][k].late = memory[p][k].late

\* An entry that is kept stays accounted for.
LEMMA KeptAccounted ==
    ASSUME IInv, [Next]_vars, NEW p \in Processes, NEW k \in Keys, NEW w \in Writers,
           Kept(p, k), k \in Held(p)' => cleared'[p][k] = cleared[p][k],
           k \in Held(p)', Newer(w, k, memory[p][k].version)', Home[w] = p, w \in cleared'[p][k]
    PROVE  w \in memory'[p][k].late
<1>1. w \in cleared[p][k]
  OBVIOUS
<1>2. w \in Started
  BY <1>1 DEF IInv, GhostInv
<1>3. key'[w] = key[w] /\ value'[w] = value[w]
  BY <1>2, CallSteps DEF Started, Writers
<1>4. Newer(w, k, memory[p][k].version)
  BY <1>3 DEF Newer, Kept
<1> QED BY <1>1, <1>4 DEF IInv, MemoryStalenessAccounted, Kept

\* What SetMemory does: the key's entry is new, others are kept.
LEMMA SetMemoryEffect ==
    ASSUME IInv, NEW c \in Calls, NEW late \in SUBSET Calls, SetMemory(c, late)
    PROVE  /\ recency' \in Orders /\ memory' \in Tiers /\ TierInv'
           /\ \A p \in Processes, k \in Keys :
                 \/ Kept(p, k) /\ (p = Home[c] /\ k = key[c] => k \notin Held(p)')
                 \/ /\ p = Home[c] /\ k = key[c]
                    /\ memory'[p][k] = Entry(value[c], late)
<1> DEFINE p == Home[c]
           o == Evict(Touch(recency[p], key[c]))
           e == Entry(value[c], late)
           m == [k \in Keys |-> IF k \notin Elements(o) THEN Absent
                                ELSE IF k = key[c] THEN e ELSE memory[p][k]]
<1>1. p \in Processes /\ key[c] \in Keys /\ value[c] \in Versions
  BY CallsAssumption DEF IInv, TypeOK
<1>2. e \in Entries
  BY <1>1 DEF Entry, Entries
<1>3. GoodTier(recency[p], memory[p])
  BY <1>1, TierNow
<1>4. GoodTier(o, m) /\ Elements(o) \subseteq Elements(recency[p]) \cup {key[c]}
  BY <1>1, <1>2, <1>3, SetTier
<1>5. recency' = [recency EXCEPT ![p] = o]
  BY DEF SetMemory
<1>6. memory' = [memory EXCEPT ![p] = m]
  BY DEF SetMemory
<1> HIDE DEF p, o, m, e
<1>7. /\ recency' \in Orders /\ memory' \in Tiers /\ TierInv'
      /\ recency'[p] = o /\ memory'[p] = m
      /\ \A q \in Processes : q # p => recency'[q] = recency[q] /\ memory'[q] = memory[q]
  BY <1>1, <1>4, <1>5, <1>6, ChangeOfTier
<1>8. ASSUME NEW q \in Processes, NEW k \in Keys
      PROVE  \/ Kept(q, k) /\ (q = p /\ k = key[c] => k \notin Held(q)')
             \/ q = p /\ k = key[c] /\ memory'[q][k] = e
  <2>1. CASE q # p
    BY <1>7, <2>1 DEF Kept, Held
  <2>2. CASE q = p /\ k \notin Elements(o)
    BY <1>7, <2>2 DEF Kept, Held
  <2>3. CASE q = p /\ k \in Elements(o) /\ k # key[c]
    <3>1. m[k] = memory[p][k]
      BY <2>3 DEF m
    <3>2. k \in Elements(recency[p])
      BY <1>4, <2>3
    <3> QED BY <1>7, <2>3, <3>1, <3>2 DEF Kept, Held
  <2>4. CASE q = p /\ k \in Elements(o) /\ k = key[c]
    <3>1. m[k] = e
      BY <2>4 DEF m
    <3> QED BY <1>7, <2>4, <3>1
  <2> QED BY <2>1, <2>2, <2>3, <2>4
<1> QED BY <1>7, <1>8 DEF p, e

\* The writers whose clearing the value of c was read before.
Late(c) == cleared[Home[c]][key[c]] \ seen[c]

\* A new entry is marked with the writers its value was read before.
LEMMA NewEntryAccounted ==
    ASSUME IInv, [Next]_vars, NEW c \in Calls, pc[c] \in {"fill", "store"},
           NEW k \in Keys, NEW w \in Writers, key[c] = k,
           key[w] = k /\ value'[w] > value[c], w \in cleared[Home[c]][k]
    PROVE  w \in Late(c)
<1>1. w \in Started
  BY CallsAssumption DEF IInv, GhostInv
<1>2. value'[w] = value[w] /\ key'[w] = key[w]
  BY <1>1, CallSteps DEF Started, Writers
<1>3. w \notin seen[c]
  BY <1>2 DEF IInv, SeenInv, Newer
<1> QED BY <1>3 DEF Late

\* An order of use and its entries that hold less than before.
LEMMA LessKept ==
    ASSUME IInv, NEW p \in Processes, NEW s, NEW m, GoodTier(s, m),
           recency' = [recency EXCEPT ![p] = s], memory' = [memory EXCEPT ![p] = m],
           Elements(s) \subseteq Held(p),
           \A k \in Elements(s) : m[k].version = memory[p][k].version
                                  /\ m[k].late = memory[p][k].late
    PROVE  /\ recency' \in Orders /\ memory' \in Tiers /\ TierInv'
           /\ \A q \in Processes, k \in Keys : Kept(q, k)
<1>1. /\ recency' \in Orders /\ memory' \in Tiers /\ TierInv'
      /\ recency'[p] = s /\ memory'[p] = m
      /\ \A q \in Processes : q # p => recency'[q] = recency[q] /\ memory'[q] = memory[q]
  BY ChangeOfTier
<1>2. ASSUME NEW q \in Processes, NEW k \in Keys PROVE Kept(q, k)
  <2>1. CASE q = p
    BY <1>1, <2>1 DEF Kept, Held
  <2>2. CASE q # p
    BY <1>1, <2>2 DEF Kept, Held
  <2> QED BY <2>1, <2>2
<1> QED BY <1>1, <1>2

\* A get reads the memory tier, and removes an entry whose time is over.
LEMMA GetEffect ==
    ASSUME IInv, NEW c \in Calls, Get(c)
    PROVE  /\ recency' \in Orders /\ memory' \in Tiers /\ TierInv'
           /\ \A p \in Processes, k \in Keys : Kept(p, k)
<1> DEFINE q == Home[c]
<1>1. PICK j \in Uses[c] : Hit(c, j) \/ Miss(c, j)
  BY DEF Get
<1>2. q \in Processes /\ j \in Keys
  BY <1>1, CallsAssumption
<1>3. GoodTier(recency[q], memory[q])
  BY <1>2, TierNow
<1>4. recency \in Orders /\ memory \in Tiers /\ TierInv
  BY DEF IInv, TypeOK, Orders, Tiers
<1>5. CASE UNCHANGED <<memory, recency>>
  BY <1>4, <1>5 DEF Kept, Held, TierInv
<1>6. CASE Hit(c, j)
  <2>1. j \in Elements(recency[q]) /\ recency' = [recency EXCEPT ![q] = Touch(recency[q], j)]
    BY <1>6 DEF Hit, Held
  <2>2. memory' = [memory EXCEPT ![q] = memory[q]]
    BY <1>2, <1>4, <1>6 DEF Hit, Tiers
  <2>3. GoodTier(Touch(recency[q], j), memory[q]) /\ Elements(Touch(recency[q], j)) = Held(q)
    BY <1>3, <2>1, UsedTier DEF Held
  <2> QED BY <1>2, <2>1, <2>2, <2>3, LessKept
<1>7. CASE RemoveMemory(q, j)
  <2>1. recency' = [recency EXCEPT ![q] = Without(recency[q], j)]
    BY <1>7 DEF RemoveMemory
  <2>2. memory' = [memory EXCEPT ![q] = [memory[q] EXCEPT ![j] = Absent]]
    BY <1>7 DEF RemoveMemory
  <2>3. /\ GoodTier(Without(recency[q], j), [memory[q] EXCEPT ![j] = Absent])
        /\ Elements(Without(recency[q], j)) = Held(q) \ {j}
    BY <1>2, <1>3, RemovedTier DEF Held
  <2>4. \A k \in Held(q) \ {j} : [memory[q] EXCEPT ![j] = Absent][k] = memory[q][k]
    BY <1>2, <1>3 DEF GoodTier, Held, Elements
  <2> QED BY <1>2, <2>1, <2>2, <2>3, <2>4, LessKept
<1> QED BY <1>1, <1>5, <1>6, <1>7 DEF Miss

\* Invalidating a key, or all of them.
LEMMA ClearEffect ==
    ASSUME IInv, NEW c \in Calls, ClearMemory(c)
    PROVE  /\ recency' \in Orders /\ memory' \in Tiers /\ TierInv'
           /\ \A p \in Processes, k \in Keys :
                 Kept(p, k) /\ (k \in Held(p)' => cleared'[p][k] = cleared[p][k])
<1> DEFINE q == Home[c]
<1>1. q \in Processes /\ key[c] \in Keys /\ cleared \in [Processes -> [Keys -> SUBSET Calls]]
  BY CallsAssumption DEF IInv, TypeOK
<1>2. GoodTier(recency[q], memory[q]) /\ recency \in [Processes -> Seq(Keys)]
  BY <1>1, TierNow DEF IInv, TypeOK
<1>3. CASE ClearKey(c)
  <2> DEFINE j == key[c]
  <2>1. recency' = [recency EXCEPT ![q] = Without(recency[q], j)]
    BY <1>3 DEF ClearKey, RemoveMemory
  <2>2. memory' = [memory EXCEPT ![q] = [memory[q] EXCEPT ![j] = Absent]]
    BY <1>3 DEF ClearKey, RemoveMemory
  <2>3. /\ GoodTier(Without(recency[q], j), [memory[q] EXCEPT ![j] = Absent])
        /\ Elements(Without(recency[q], j)) = Held(q) \ {j}
    BY <1>1, <1>2, RemovedTier DEF Held
  <2>4. \A k \in Held(q) \ {j} : [memory[q] EXCEPT ![j] = Absent][k] = memory[q][k]
    BY <1>1, <1>2 DEF GoodTier, Held, Elements
  <2>5. /\ recency' \in Orders /\ memory' \in Tiers /\ TierInv'
        /\ \A p \in Processes, k \in Keys : Kept(p, k)
    BY <1>1, <2>1, <2>2, <2>3, <2>4, LessKept
  <2>6. cleared' = [cleared EXCEPT ![q][j] = @ \cup {c}]
    BY <1>3 DEF ClearKey
  <2>7. \A p \in Processes, k \in Keys : ~(p = q /\ k = j) => cleared'[p][k] = cleared[p][k]
    BY <1>1, <2>6
  <2>8. recency'[q] = Without(recency[q], j)
    BY <1>1, <1>2, <2>1
  <2>9. \A p \in Processes, k \in Keys : k \in Held(p)' => ~(p = q /\ k = j)
    BY <2>3, <2>8 DEF Held
  <2> QED BY <2>5, <2>7, <2>9
<1>4. CASE ClearAll(c)
  <2>1. recency' = [recency EXCEPT ![q] = <<>>]
    BY <1>4 DEF ClearAll
  <2>2. memory' = [memory EXCEPT ![q] = [k \in Keys |-> Absent]]
    BY <1>4 DEF ClearAll
  <2>3. Elements(<<>>) = {}
    BY DEF Elements
  <2>4. /\ recency' \in Orders /\ memory' \in Tiers /\ TierInv'
        /\ \A p \in Processes, k \in Keys : Kept(p, k)
    BY <1>1, <2>1, <2>2, <2>3, EmptyTier, LessKept
  <2>5. cleared' = [cleared EXCEPT ![q] = [k \in Keys |-> cleared[q][k] \cup {c}]]
    BY <1>4 DEF ClearAll
  <2>6. \A p \in Processes : p # q => cleared'[p] = cleared[p]
    BY <1>1, <2>5
  <2>7. recency'[q] = <<>>
    BY <1>1, <1>2, <2>1
  <2>8. \A k \in Keys : k \notin Held(q)'
    BY <2>3, <2>7 DEF Held
  <2> QED BY <2>4, <2>6, <2>8
<1> QED BY <1>3, <1>4 DEF ClearMemory

\* clear() empties a tier; the clock marks an entry.
LEMMA OtherEffects ==
    ASSUME IInv, NEW q \in Processes, Clear(q) \/ \E j \in Keys : MemoryTimeOver(q, j)
    PROVE  /\ recency' \in Orders /\ memory' \in Tiers /\ TierInv'
           /\ \A p \in Processes, k \in Keys : Kept(p, k)
           /\ UNCHANGED cleared
<1>1. GoodTier(recency[q], memory[q]) /\ recency \in [Processes -> Seq(Keys)]
  BY TierNow DEF IInv, TypeOK
<1>2. CASE Clear(q)
  <2>1. recency' = [recency EXCEPT ![q] = <<>>] /\ UNCHANGED cleared
    BY <1>2 DEF Clear, ghosts
  <2>2. memory' = [memory EXCEPT ![q] = [k \in Keys |-> Absent]]
    BY <1>2 DEF Clear
  <2>3. Elements(<<>>) = {}
    BY DEF Elements
  <2> QED BY <2>1, <2>2, <2>3, EmptyTier, LessKept
<1>3. ASSUME NEW j \in Keys, MemoryTimeOver(q, j)
      PROVE  /\ recency' \in Orders /\ memory' \in Tiers /\ TierInv'
             /\ \A p \in Processes, k \in Keys : Kept(p, k)
             /\ UNCHANGED cleared
  <2> DEFINE e == [memory[q][j] EXCEPT !.expires = "past"]
             m == [memory[q] EXCEPT ![j] = e]
  <2>1. j \in Held(q) /\ UNCHANGED <<recency, cleared>>
    BY <1>3 DEF MemoryTimeOver, ghosts
  <2>2. memory' = [memory EXCEPT ![q] = m]
    BY <1>3 DEF MemoryTimeOver
  <2>3. recency' = [recency EXCEPT ![q] = recency[q]]
    BY <1>1, <2>1
  <2>4. memory[q][j] \in Entries
    BY <1>1 DEF GoodTier
  <2>5. e \in Entries /\ e.version = memory[q][j].version /\ e.late = memory[q][j].late
    BY <2>4 DEF Entries
  <2> HIDE DEF e
  <2>6. m \in [Keys -> Entries] /\ m[j] = e /\ \A k \in Keys : k # j => m[k] = memory[q][k]
    BY <1>1, <2>5 DEF GoodTier
  <2>7. GoodTier(recency[q], m)
    BY <1>1, <2>1, <2>6 DEF GoodTier, Held
  <2>8. \A k \in Held(q) : m[k].version = memory[q][k].version /\ m[k].late = memory[q][k].late
    <3>1. Held(q) \subseteq Keys
      BY <1>1 DEF GoodTier, Held, Elements
    <3> QED BY <2>5, <2>6, <3>1
  <2> HIDE DEF m
  <2> QED BY <2>1, <2>2, <2>3, <2>7, <2>8, LessKept DEF Held
<1> QED BY <1>2, <1>3

\* A memory tier stays within its limit, and accounts for what is old in it.
LEMMA MemoryInductive ==
    ASSUME IInv, [Next]_vars
    PROVE  recency' \in Orders /\ memory' \in Tiers /\ TierInv' /\ MemoryStalenessAccounted'
<1> DEFINE Typed == recency' \in Orders /\ memory' \in Tiers /\ TierInv'
           Fine(p, k, w) == k \in Held(p)' /\ Newer(w, k, memory[p][k].version)' /\ Home[w] = p
                                /\ w \in cleared'[p][k] => w \in memory'[p][k].late
<1>1. ASSUME NEW p \in Processes, NEW k \in Keys, Kept(p, k),
             k \in Held(p)' => cleared'[p][k] = cleared[p][k]
      PROVE  \A w \in Writers : Fine(p, k, w)
  BY <1>1, KeptAccounted
<1>2. CASE UNCHANGED <<memory, recency, cleared>>
  <2>1. Typed
    BY <1>2 DEF IInv, TypeOK, Orders, Tiers, TierInv, Held
  <2>2. \A p \in Processes, k \in Keys : Kept(p, k)
    BY <1>2 DEF Kept, Held
  <2> QED BY <1>1, <1>2, <2>1, <2>2 DEF MemoryStalenessAccounted
<1>3. ASSUME NEW c \in Calls, Get(c)
      PROVE  Typed /\ \A p \in Processes, k \in Keys, w \in Writers : Fine(p, k, w)
  <2>1. UNCHANGED cleared
    BY <1>3 DEF Get, ghosts
  <2> QED BY <1>1, <1>3, <2>1, GetEffect
<1>4. ASSUME NEW c \in Calls, BackFill(c) \/ StoreInMemory(c)
      PROVE  Typed /\ \A p \in Processes, k \in Keys, w \in Writers : Fine(p, k, w)
  <2>1. /\ pc[c] \in {"fill", "store"} /\ SetMemory(c, Late(c)) /\ UNCHANGED key
        /\ c \notin Readers => UNCHANGED value
    BY <1>4 DEF BackFill, StoreInMemory, Goto, IInv, CallInv, Late
  <2>2. Late(c) \in SUBSET Calls
    BY CallsAssumption DEF Late, IInv, TypeOK
  <2>3. /\ Typed
        /\ \A p \in Processes, k \in Keys :
              \/ Kept(p, k) /\ (p = Home[c] /\ k = key[c] => k \notin Held(p)')
              \/ p = Home[c] /\ k = key[c] /\ memory'[p][k] = Entry(value[c], Late(c))
    BY <2>1, <2>2, SetMemoryEffect
  <2>4. /\ Home[c] \in Processes /\ key[c] \in Keys /\ value[c] \in Nat
        /\ cleared \in [Processes -> [Keys -> SUBSET Calls]]
    BY CallsAssumption, VersionsTyped DEF IInv, TypeOK
  <2>5. UNCHANGED cleared \/ (c \notin Readers /\ cleared' = [cleared EXCEPT ![Home[c]][key[c]] = @ \cup {c}])
    BY <1>4 DEF BackFill, StoreInMemory
  <2>6. \A p \in Processes, k \in Keys : ~(p = Home[c] /\ k = key[c]) => cleared'[p][k] = cleared[p][k]
    BY <2>4, <2>5
  <2>7. \A w \in cleared'[Home[c]][key[c]] : w \in cleared[Home[c]][key[c]] \/ (w = c /\ c \notin Readers)
    BY <2>4, <2>5
  <2>8. ASSUME NEW w \in Writers, NEW p \in Processes, NEW k \in Keys,
               p = Home[c], k = key[c],
               k \in Held(p)', Newer(w, k, memory[p][k].version)', w \in cleared'[p][k]
        PROVE  w \in memory'[p][k].late
    <3>1. CASE memory'[p][k] = Entry(value[c], Late(c))
      <4>1. memory'[p][k].version = value[c] /\ memory'[p][k].late = Late(c)
        BY <3>1 DEF Entry
      <4>2. key'[w] = k /\ value'[w] > value[c] /\ key[w] = k
        BY <2>1, <2>8, <4>1 DEF Newer
      <4>3. w \in cleared[p][k]
        BY <2>1, <2>4, <2>7, <2>8, <4>2
      <4> QED BY <2>1, <2>8, <4>1, <4>2, <4>3, NewEntryAccounted
    <3> QED BY <2>3, <2>8, <3>1
  <2> QED BY <1>1, <2>3, <2>6, <2>8
<1>5. ASSUME NEW c \in Calls, ClearMemory(c)
      PROVE  Typed /\ \A p \in Processes, k \in Keys, w \in Writers : Fine(p, k, w)
  BY <1>1, <1>5, ClearEffect
<1>6. ASSUME NEW q \in Processes, Clear(q) \/ \E j \in Keys : MemoryTimeOver(q, j)
      PROVE  Typed /\ \A p \in Processes, k \in Keys, w \in Writers : Fine(p, k, w)
  BY <1>1, <1>6, OtherEffects
<1> QED BY <1>2, <1>3, <1>4, <1>5, <1>6, MemorySteps DEF MemoryStalenessAccounted

-----------------------------------------------------------------------------
(* The theorems.                                                           *)

\* The program counters and the registers of the calls keep their types.
LEMMA CallsTyped ==
    ASSUME IInv, [Next]_vars
    PROVE  /\ pc' \in [Calls -> Awaits] /\ key' \in [Calls -> Keys]
           /\ value' \in [Calls -> Versions]
           /\ left' \in [Calls -> SUBSET Keys] /\ found' \in [Calls -> SUBSET Keys]
           /\ faults' \in 0 .. MaxFaults /\ failed' \in SUBSET Calls
<1>a. /\ pc \in [Calls -> Awaits] /\ key \in [Calls -> Keys]
      /\ value \in [Calls -> Versions]
      /\ left \in [Calls -> SUBSET Keys] /\ found \in [Calls -> SUBSET Keys]
      /\ faults \in 0 .. MaxFaults /\ failed \in SUBSET Calls
  BY DEF IInv, TypeOK, Awaits
<1>b. source \in [Keys -> Versions] /\ source' \in [Keys -> Versions] /\ redis \in [Keys -> Entries]
  BY SourceInductive DEF IInv, TypeOK
<1>1. CASE UNCHANGED <<source, pc, key, value, scan, faults, ghosts>>
  BY <1>a, <1>1 DEF scan, ghosts
<1>2. ASSUME NEW c \in Calls, Get(c) \/ Write(c) \/ Serve(c)
      PROVE  /\ pc' \in [Calls -> Awaits] /\ key' \in [Calls -> Keys]
             /\ value' \in [Calls -> Versions]
             /\ left' \in [Calls -> SUBSET Keys] /\ found' \in [Calls -> SUBSET Keys]
             /\ faults' \in 0 .. MaxFaults /\ failed' \in SUBSET Calls
  <2>1. pc' \in [Calls -> Awaits]
    <3>1. UNCHANGED pc \/ \E a \in Awaits : pc' = [pc EXCEPT ![c] = a]
      BY <1>2, StepOfCall DEF Moves, Awaits, EndOfSet
    <3> QED BY <1>a, <3>1
  <2>2. key' \in [Calls -> Keys]
    <3>1. UNCHANGED key \/ \E k \in Uses[c] : key' = [key EXCEPT ![c] = k]
      BY <1>2 DEF Serve, Get, Write, GetFromRedis, BackFill, Load, StoreInMemory, StoreInRedis,
          ClearMemory, DeleteInRedis, ScanRedis, UnlinkFound
    <3> QED BY <1>a, <3>1, CallsAssumption
  <2>3. value' \in [Calls -> Versions]
    <3>1. CASE GetFromRedis(c)
      <4>1. UNCHANGED value \/ value' = [value EXCEPT ![c] = redis[key[c]].version]
        BY <3>1 DEF GetFromRedis
      <4>2. redis[key[c]].version \in Versions
        BY <1>a, <1>b DEF Entries
      <4> QED BY <1>a, <4>1, <4>2
    <3>2. CASE BackFill(c) \/ StoreInRedis(c)
      <4>1. UNCHANGED value \/ value' = [value EXCEPT ![c] = 0]
        BY <3>2 DEF BackFill, StoreInRedis
      <4> QED BY <1>a, <4>1, VersionsTyped
    <3>3. CASE Load(c)
      <4>1. value' = [value EXCEPT ![c] = source[key[c]]] /\ source[key[c]] \in Versions
        BY <1>a, <1>b, <3>3 DEF Load
      <4> QED BY <1>a, <4>1
    <3>4. CASE Write(c)
      <4>1. PICK k \in Uses[c] : /\ source' = [source EXCEPT ![k] = @ + 1]
                                 /\ value' = [value EXCEPT ![c] = source[k] + 1]
        BY <3>4 DEF Write
      <4>2. k \in Keys
        BY <4>1, CallsAssumption
      <4>3. source[k] + 1 \in Versions
        BY <1>b, <4>1, <4>2
      <4> QED BY <1>a, <4>1, <4>3
    <3>5. CASE Get(c) \/ StoreInMemory(c) \/ ClearMemory(c) \/ DeleteInRedis(c)
               \/ ScanRedis(c) \/ UnlinkFound(c)
      <4>1. UNCHANGED value
        BY <3>5 DEF Get, StoreInMemory, ClearMemory, DeleteInRedis, ScanRedis, UnlinkFound
      <4> QED BY <1>a, <4>1
    <3> QED BY <1>2, <3>1, <3>2, <3>3, <3>4, <3>5 DEF Serve
  <2>4. left' \in [Calls -> SUBSET Keys] /\ found' \in [Calls -> SUBSET Keys]
    <3>1. UNCHANGED left \/ \E S \in SUBSET Keys : left' = [left EXCEPT ![c] = S]
      <4>1. CASE ScanRedis(c)
        BY <1>a, <4>1 DEF ScanRedis, scan
      <4>2. CASE ClearMemory(c)
        BY <4>2 DEF ClearMemory
      <4> QED BY <1>2, <4>1, <4>2 DEF Serve, Get, Write, GetFromRedis, BackFill, Load,
            StoreInMemory, StoreInRedis, DeleteInRedis, UnlinkFound, scan
    <3>2. UNCHANGED found \/ \E S \in SUBSET Keys : found' = [found EXCEPT ![c] = S]
      <4>1. CASE ScanRedis(c)
        BY <1>a, <4>1 DEF ScanRedis, scan
      <4>2. CASE UnlinkFound(c)
        BY <4>2 DEF UnlinkFound
      <4> QED BY <1>2, <4>1, <4>2 DEF Serve, Get, Write, GetFromRedis, BackFill, Load,
            StoreInMemory, StoreInRedis, ClearMemory, DeleteInRedis, scan
    <3> QED BY <1>a, <3>1, <3>2
  <2>5. faults' \in 0 .. MaxFaults
    <3>1. UNCHANGED faults \/ Fault
      BY <1>2 DEF Serve, Get, Write, GetFromRedis, BackFill, Load, StoreInMemory, StoreInRedis,
          ClearMemory, DeleteInRedis, ScanRedis, UnlinkFound, RedisFails
    <3> QED BY <1>a, <3>1, BoundsAssumption DEF Fault
  <2>6. failed' \in SUBSET Calls
    <3>1. UNCHANGED failed \/ failed' = failed \cup {c}
      BY <1>2 DEF Serve, Get, Write, GetFromRedis, BackFill, Load, StoreInMemory, StoreInRedis,
          ClearMemory, DeleteInRedis, ScanRedis, UnlinkFound, RedisFails, ghosts
    <3> QED BY <1>a, <3>1
  <2> QED BY <2>1, <2>2, <2>3, <2>4, <2>5, <2>6
<1> QED BY <1>1, <1>2, OtherSteps

\* The service starts with empty tiers.
LEMMA Initially == Init => IInv
<1> SUFFICES ASSUME Init PROVE IInv
  OBVIOUS
<1> USE DEF Init
<1>1. (CHOOSE k \in Keys : TRUE) \in Keys
  BY KeysAssumption
<1>2. <<>> \in Seq(Keys) /\ Len(<<>>) = 0 /\ DOMAIN <<>> = {}
  BY EmptySeq
<1>3. TypeOK
  BY <1>1, <1>2, AbsentTyped, VersionsTyped, BoundsAssumption DEF TypeOK
<1>4. Started = {} /\ Cardinality(Started) = 0
  <2>1. Started = {}
    BY DEF Started, Writers
  <2> QED BY <2>1, FS_EmptySet
<1>5. \A c \in Calls : CallInv(c)
  BY <1>4 DEF CallInv
<1>6. SourceInv /\ GhostInv /\ SeenInv
  BY <1>4 DEF SourceInv, GhostInv, SeenInv
<1>7. TierInv
  BY <1>2, BoundsAssumption DEF TierInv, Once
<1>8. DroppedInv /\ DoneInv
  BY DEF DroppedInv, DoneInv, Writers
<1>9. MemoryStalenessAccounted
  BY DEF MemoryStalenessAccounted
<1> QED BY <1>3, <1>5, <1>6, <1>7, <1>8, <1>9 DEF IInv

\* Every step keeps the invariant.
LEMMA Step == IInv /\ [Next]_vars => IInv'
<1> SUFFICES ASSUME IInv, [Next]_vars PROVE IInv'
  OBVIOUS
<1>1. \A c \in Calls : CallInv(c)'
  BY CallInductive
<1>2. TypeOK'
  BY CallsTyped, SourceInductive, GhostInductive, RedisInductive, MemoryInductive
     DEF TypeOK, Awaits, Orders, Tiers
<1> QED BY <1>1, <1>2, SourceInductive, GhostInductive, SeenInductive, RedisInductive,
    DoneInductive, MemoryInductive DEF IInv

\* The invariant holds in every reachable state.
THEOREM Invariance == Spec => []IInv
BY Initially, Step, PTL DEF Spec

\* Type correctness of the layered cache.
THEOREM TypeCorrect == Spec => []TypeOK
<1>1. IInv => TypeOK
  BY DEF IInv
<1> QED BY <1>1, Invariance, PTL

\* CacheManager's memory tier never exceeds max_memory_entries, whatever its
\* calls, evictions and removals do to the order of use.
THEOREM TierWithinLimit == Spec => []MemoryBounded
<1>1. IInv => MemoryBounded
  <2> SUFFICES ASSUME IInv, NEW p \in Processes
               PROVE  /\ Len(recency[p]) <= MaxEntries
                      /\ Cardinality(Held(p)) = Len(recency[p])
                      /\ \A k \in Keys : memory[p][k] # Absent => k \in Held(p)
    BY DEF MemoryBounded
  <2>1. recency[p] \in Seq(Keys)
    BY DEF IInv, TypeOK
  <2>2. Cardinality(Held(p)) = Len(recency[p])
    BY <2>1, KeysCounted DEF IInv, TierInv, Held
  <2> QED BY <2>2 DEF IInv, TierInv
<1> QED BY <1>1, Invariance, PTL

\* CacheManager's get and set bring no value back to a memory tier that is older
\* than a writer of the process, unless it was read before the writer's change.
THEOREM MemoryAccounted == Spec => []MemoryStalenessAccounted
<1>1. IInv => MemoryStalenessAccounted
  BY DEF IInv
<1> QED BY <1>1, Invariance, PTL

\* Once a writer's set, invalidate or invalidate_pattern is done, what Redis holds
\* is as new as its change, but for values read before it and set after it, and
\* for the commands that failed.
THEOREM RedisAccounted == Spec => []RedisStalenessAccounted
<1>1. ASSUME IInv, NEW k \in Keys, NEW w \in Writers,
             redis[k] # Absent, Newer(w, k, redis[k].version), pc[w] = "done"
      PROVE  w \in redis[k].late \cup failed
  <2>1. key[w] = k
    BY <1>1 DEF Newer
  <2>2. w \in failed \/ w \in dropped[k]
    BY <1>1, <2>1 DEF IInv, DoneInv
  <2> QED BY <1>1, <2>2 DEF IInv, DroppedInv
<1>2. IInv => RedisStalenessAccounted
  BY <1>1 DEF RedisStalenessAccounted
<1> QED BY <1>2, Invariance, PTL
=============================================================================
