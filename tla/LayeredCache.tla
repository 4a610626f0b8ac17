---------------------------- MODULE LayeredCache ----------------------------
(***************************************************************************)
(* CacheManager (managers/cache_manager.py): a bounded LRU memory tier in  *)
(* every process, over Redis, shared by all.  Readers get a key, and load  *)
(* and set it when they miss; writers change the source and then set the   *)
(* key, invalidate it, or invalidate every key by a pattern.               *)
(*                                                                         *)
(* The bodies under _lock never await, so an operation on the memory tier  *)
(* is one step; a Redis command and the resumption of its caller are two.  *)
(* Values are the versions of the source.                                  *)
(***************************************************************************)
EXTENDS Naturals, FiniteSets, Sequences

CONSTANTS Processes, Keys, Calls,
          Home,       \* Home[c]: the process c runs in
          Uses,       \* Uses[c]: the keys the user behind c asks for or changes
          Readers,    \* the calls that get keys; the others change the source
          MaxEntries, \* max_memory_entries
          MaxFaults   \* bound: Redis commands that fail

VARIABLES source,     \* the data behind the cache: the version of each key
          memory,     \* memory[p][k]: the entry of the memory tier, or Absent
          recency,    \* recency[p]: the keys of memory[p], oldest use first
          redis,      \* redis[k]: the entry of the Redis tier, or Absent
          pc, key,
          value,      \* the version a call has read, or has written
          left,       \* the keys a pattern's SCAN has yet to pass
          found,      \* the keys of its last page
          faults,
          cleared,    \* ghost: writers that have renewed or cleared memory[p][k]
          dropped,    \* ghost: writers that have renewed or deleted redis[k]
          seen,       \* ghost: writers that the value of c is no older than
          failed      \* ghost: writers whose Redis command failed

tiers == <<memory, recency, redis>>
scan == <<left, found>>
ghosts == <<cleared, dropped, seen, failed>>
vars == <<source, tiers, pc, key, value, scan, faults, ghosts>>

Writers == Calls \ Readers
Versions == 0 .. Cardinality(Writers)

ASSUME CallsAssumption ==
    /\ IsFiniteSet(Calls) /\ Home \in [Calls -> Processes]
    /\ Uses \in [Calls -> SUBSET Keys]
    /\ Readers \subseteq Calls
ASSUME KeysAssumption == Keys # {}
ASSUME BoundsAssumption == MaxEntries \in Nat /\ MaxFaults \in Nat

\* Mutant: an entry without a time to live.
LastingEntry(v, late) == [version |-> v, expires |-> "never", late |-> late]
\* Mutant: an entry whose time to live is never filled in.
UnsetEntry(v, late) == [version |-> v, expires |-> "unset", late |-> late]
\* An entry: a version and when its time is over; the memory tier keeps an
\* entry of the past until it is asked for.  Ghost: the writers it came after
\* although the value was read before they changed the source.
Entry(v, late) == [version |-> v, expires |-> "later", late |-> late]
Absent == [version |-> 0, expires |-> "past", late |-> {}]
Entries == [version : Versions, expires : {"later", "past", "never"}, late : SUBSET Calls]

TypeOK ==
    /\ source \in [Keys -> Versions]
    /\ memory \in [Processes -> [Keys -> Entries]]
    /\ recency \in [Processes -> Seq(Keys)]
    /\ redis \in [Keys -> Entries]
    /\ pc \in [Calls -> {"idle", "get", "fill", "load", "store", "setex",
                         "clear", "clearall", "delete", "scan", "unlink", "done"}]
    /\ key \in [Calls -> Keys]
    /\ value \in [Calls -> Versions]
    /\ left \in [Calls -> SUBSET Keys] /\ found \in [Calls -> SUBSET Keys]
    /\ faults \in 0 .. MaxFaults
    /\ cleared \in [Processes -> [Keys -> SUBSET Calls]]
    /\ dropped \in [Keys -> SUBSET Calls]
    /\ seen \in [Calls -> SUBSET Calls] /\ failed \in SUBSET Calls

Init ==
    /\ source = [k \in Keys |-> 0]
    /\ memory = [p \in Processes |-> [k \in Keys |-> Absent]]
    /\ recency = [p \in Processes |-> <<>>]
    /\ redis = [k \in Keys |-> Absent]
    /\ pc = [c \in Calls |-> "idle"]
    /\ key = [c \in Calls |-> CHOOSE k \in Keys : TRUE]
    /\ value = [c \in Calls |-> 0]
    /\ left = [c \in Calls |-> {}] /\ found = [c \in Calls |-> {}]
    /\ faults = 0
    /\ cleared = [p \in Processes |-> [k \in Keys |-> {}]]
    /\ dropped = [k \in Keys |-> {}]
    /\ seen = [c \in Calls |-> {}] /\ failed = {}

-----------------------------------------------------------------------------
(* The memory tier.                                                        *)

Goto(c, from, to) == pc[c] = from /\ pc' = [pc EXCEPT ![c] = to]
Fault == faults < MaxFaults /\ faults' = faults + 1

Elements(s) == {s[i] : i \in DOMAIN s}
Held(p) == Elements(recency[p])

\* The keys are those of an OrderedDict: each is there once.
Position(s, k) == CHOOSE i \in DOMAIN s : s[i] = k
Without(s, k) ==
    IF k \notin Elements(s) THEN s
    ELSE [i \in 1 .. Len(s) - 1 |-> IF i < Position(s, k) THEN s[i] ELSE s[i + 1]]
Touch(s, k) == Append(Without(s, k), k)

\* Mutant: the limit is compared before the entry is added.
EvictLate(s) == IF Len(s) > MaxEntries + 1 THEN Tail(s) ELSE s
\* The least recently used entry goes when there is one too many.
Evict(s) == IF Len(s) > MaxEntries THEN Tail(s) ELSE s

SetMemory(c, late) ==
    LET p == Home[c]
        order == Evict(Touch(recency[p], key[c]))
    IN  /\ recency' = [recency EXCEPT ![p] = order]
        /\ memory' = [memory EXCEPT ![p] = [k \in Keys |->
               IF k \notin Elements(order) THEN Absent
               ELSE IF k = key[c] THEN Entry(value[c], late) ELSE @[k]]]

\* Mutant: the entry stays in the memory tier.
KeepMemory(p, k) == UNCHANGED <<memory, recency>>
RemoveMemory(p, k) ==
    /\ recency' = [recency EXCEPT ![p] = Without(@, k)]
    /\ memory' = [memory EXCEPT ![p][k] = Absent]

-----------------------------------------------------------------------------
(* get: the memory tier, then Redis, whose value is copied back.           *)

Hit(c, k) ==
    /\ k \in Held(Home[c]) /\ memory[Home[c]][k].expires # "past"
    /\ recency' = [recency EXCEPT ![Home[c]] = Touch(@, k)]
    /\ UNCHANGED <<memory, pc>>

Miss(c, k) ==
    /\ \/ k \notin Held(Home[c]) /\ UNCHANGED <<memory, recency>>
       \/ /\ k \in Held(Home[c]) /\ memory[Home[c]][k].expires = "past"
          /\ RemoveMemory(Home[c], k)
    /\ Goto(c, "idle", "get")

Get(c) ==
    /\ pc[c] = "idle" /\ c \in Readers
    /\ \E k \in Uses[c] : /\ key' = [key EXCEPT ![c] = k]
                          /\ Hit(c, k) \/ Miss(c, k)
    /\ UNCHANGED <<source, redis, value, scan, faults, ghosts>>

\* An error of Redis is a miss (redis_safe).
GetFromRedis(c) ==
    /\ pc[c] = "get"
    /\ LET e == redis[key[c]] IN
       \/ /\ e # Absent
          /\ Goto(c, "get", "fill")
          /\ value' = [value EXCEPT ![c] = e.version]
          /\ seen' = [seen EXCEPT ![c] = dropped[key[c]] \ e.late]
          /\ UNCHANGED faults
       \/ e = Absent /\ Goto(c, "get", "load") /\ UNCHANGED <<value, seen, faults>>
       \/ e # Absent /\ Goto(c, "get", "load") /\ Fault /\ UNCHANGED <<value, seen>>
    /\ UNCHANGED <<source, tiers, key, scan, cleared, dropped, failed>>

\* The copy lives for default_ttl, however little the Redis entry had left.
BackFill(c) ==
    /\ Goto(c, "fill", "idle")
    /\ SetMemory(c, cleared[Home[c]][key[c]] \ seen[c])
    /\ value' = [value EXCEPT ![c] = 0] /\ seen' = [seen EXCEPT ![c] = {}]
    /\ UNCHANGED <<source, redis, key, scan, faults, cleared, dropped, failed>>

-----------------------------------------------------------------------------
(* The users of the cache: a reader that missed, and the writers.          *)

\* The writers that have changed the source.
Started == {w \in Writers : pc[w] # "idle"}

Load(c) ==
    /\ Goto(c, "load", "store")
    /\ value' = [value EXCEPT ![c] = source[key[c]]]
    /\ seen' = [seen EXCEPT ![c] = Started]
    /\ UNCHANGED <<source, tiers, key, scan, faults, cleared, dropped, failed>>

Write(c) ==
    /\ c \in Writers
    /\ \/ Goto(c, "idle", "store") /\ seen' = [seen EXCEPT ![c] = Started]
       \/ (Goto(c, "idle", "clear") \/ Goto(c, "idle", "clearall")) /\ UNCHANGED seen
    /\ \E k \in Uses[c] :
          /\ key' = [key EXCEPT ![c] = k]
          /\ source' = [source EXCEPT ![k] = @ + 1]
          /\ value' = [value EXCEPT ![c] = source[k] + 1]
    /\ UNCHANGED <<tiers, scan, faults, cleared, dropped, failed>>

-----------------------------------------------------------------------------
(* set.                                                                    *)

StoreInMemory(c) ==
    /\ Goto(c, "store", "setex")
    /\ SetMemory(c, cleared[Home[c]][key[c]] \ seen[c])
    /\ cleared' = IF c \in Readers THEN cleared
                  ELSE [cleared EXCEPT ![Home[c]][key[c]] = @ \cup {c}]
    /\ UNCHANGED <<source, redis, key, value, scan, faults, dropped, seen, failed>>

EndOfSet(c) == IF c \in Readers THEN "idle" ELSE "done"

StoreEntry(c, late) == redis' = [redis EXCEPT ![key[c]] = Entry(value[c], late)]

\* redis_safe logs an error of Redis, and the caller goes on.
RedisFails(c) ==
    /\ Fault
    /\ failed' = IF c \in Readers THEN failed ELSE failed \cup {c}
    /\ UNCHANGED <<redis, dropped>>

StoreInRedis(c) ==
    /\ Goto(c, "setex", EndOfSet(c))
    /\ \/ /\ StoreEntry(c, dropped[key[c]] \ seen[c])
          /\ dropped' = IF c \in Readers THEN dropped
                        ELSE [dropped EXCEPT ![key[c]] = @ \cup {c}]
          /\ UNCHANGED <<faults, failed>>
       \/ RedisFails(c)
    /\ seen' = [seen EXCEPT ![c] = {}]
    /\ value' = IF c \in Readers THEN [value EXCEPT ![c] = 0] ELSE value
    /\ UNCHANGED <<source, memory, recency, key, scan, cleared>>

-----------------------------------------------------------------------------
(* invalidate and invalidate_pattern.                                      *)

ClearKey(c) ==
    /\ Goto(c, "clear", "delete")
    /\ RemoveMemory(Home[c], key[c])
    /\ cleared' = [cleared EXCEPT ![Home[c]][key[c]] = @ \cup {c}]

\* A pattern cannot be matched in memory: the whole tier is cleared.
ClearAll(c) ==
    /\ Goto(c, "clearall", "scan")
    /\ recency' = [recency EXCEPT ![Home[c]] = <<>>]
    /\ memory' = [memory EXCEPT ![Home[c]] = [k \in Keys |-> Absent]]
    /\ cleared' = [cleared EXCEPT ![Home[c]] = [k \in Keys |-> @[k] \cup {c}]]

ClearMemory(c) ==
    /\ \/ ClearKey(c) /\ UNCHANGED left
       \/ ClearAll(c) /\ left' = [left EXCEPT ![c] = Keys]
    /\ UNCHANGED <<source, redis, key, value, found, faults, dropped, seen, failed>>

\* Mutant: the pattern's keys are read and never deleted.
UnlinkNothing(S) == UNCHANGED redis
Unlink(S) == redis' = [k \in Keys |-> IF k \in S THEN Absent ELSE redis[k]]

DeleteInRedis(c) ==
    /\ Goto(c, "delete", "done")
    /\ \/ /\ Unlink({key[c]})
          /\ dropped' = [dropped EXCEPT ![key[c]] = @ \cup {c}]
          /\ UNCHANGED <<faults, failed>>
       \/ RedisFails(c)
    /\ UNCHANGED <<source, memory, recency, key, value, scan, cleared, seen>>

\* SCAN passes the next keys; those that are not there then are not deleted
\* later either.
ScanRedis(c) ==
    /\ \/ \E P \in (SUBSET left[c]) \ {{}} :
          LET S == {k \in P : redis[k] # Absent} IN
          /\ Goto(c, "scan", IF S # {} THEN "unlink" ELSE IF P = left[c] THEN "done" ELSE "scan")
          /\ left' = [left EXCEPT ![c] = @ \ P]
          /\ found' = [found EXCEPT ![c] = S]
          /\ dropped' = [k \in Keys |-> IF k \in P \ S THEN dropped[k] \cup {c} ELSE dropped[k]]
          /\ UNCHANGED <<redis, faults, failed>>
       \/ Goto(c, "scan", "done") /\ RedisFails(c) /\ UNCHANGED scan
    /\ UNCHANGED <<source, memory, recency, key, value, cleared, seen>>

\* The page is deleted, and the cursor tells whether there is another.
UnlinkFound(c) ==
    /\ \/ /\ Goto(c, "unlink", IF left[c] = {} THEN "done" ELSE "scan")
          /\ Unlink(found[c])
          /\ dropped' = [k \in Keys |-> IF k \in found[c] THEN dropped[k] \cup {c} ELSE dropped[k]]
          /\ UNCHANGED <<faults, failed>>
       \/ Goto(c, "unlink", "done") /\ RedisFails(c)
    /\ found' = [found EXCEPT ![c] = {}]
    /\ UNCHANGED <<source, memory, recency, left, key, value, cleared, seen>>

-----------------------------------------------------------------------------
(* Time, and the clearing of one process's memory (clear).                 *)

\* clear() forgets the memory tier and leaves Redis alone.
Clear(p) ==
    /\ recency[p] # <<>>
    /\ recency' = [recency EXCEPT ![p] = <<>>]
    /\ memory' = [memory EXCEPT ![p] = [k \in Keys |-> Absent]]
    /\ UNCHANGED <<source, redis, pc, key, value, scan, faults, ghosts>>

MemoryTimeOver(p, k) ==
    /\ k \in Held(p) /\ memory[p][k].expires = "later"
    /\ memory' = [memory EXCEPT ![p][k].expires = "past"]
    /\ UNCHANGED <<source, recency, redis, pc, key, value, scan, faults, ghosts>>

RedisTimeOver(k) ==
    /\ redis[k] # Absent /\ redis[k].expires = "later"
    /\ redis' = [redis EXCEPT ![k] = Absent]
    /\ UNCHANGED <<source, memory, recency, pc, key, value, scan, faults, ghosts>>

-----------------------------------------------------------------------------
Serve(c) ==
    \/ GetFromRedis(c) \/ BackFill(c) \/ Load(c)
    \/ StoreInMemory(c) \/ StoreInRedis(c)
    \/ ClearMemory(c) \/ DeleteInRedis(c) \/ ScanRedis(c) \/ UnlinkFound(c)

Next ==
    \/ \E c \in Calls : Get(c) \/ Write(c) \/ Serve(c)
    \/ \E p \in Processes : Clear(p) \/ \E k \in Keys : MemoryTimeOver(p, k)
    \/ \E k \in Keys : RedisTimeOver(k)

\* Every await of a call ends, time passes, and Redis ends a key when its TTL
\* is over.  Nobody has to call the cache.
Fairness ==
    /\ \A c \in Calls : WF_vars(Serve(c))
    /\ \A p \in Processes, k \in Keys : WF_vars(MemoryTimeOver(p, k))
    /\ \A k \in Keys : WF_vars(RedisTimeOver(k))

Spec == Init /\ [][Next]_vars /\ Fairness

-----------------------------------------------------------------------------
(* Properties.                                                             *)

\* However sets, back-fills, removals and evictions of the calls of a process
\* alternate, its memory tier holds at most max_memory_entries keys, and the
\* order of use has each of them once.
MemoryBounded ==
    \A p \in Processes :
        /\ Len(recency[p]) <= MaxEntries
        /\ Cardinality(Held(p)) = Len(recency[p])
        /\ \A k \in Keys : memory[p][k] # Absent => k \in Held(p)

Newer(w, k, v) == key[w] = k /\ value[w] > v

\* An entry older than what a writer of the same process has renewed or cleared
\* it for came after that writer although its value was read before: from the
\* source before the writer changed it, or from a Redis entry that the writer
\* had not dropped by then or that had itself come after it in this way.
MemoryStalenessAccounted ==
    \A p \in Processes, k \in Keys, w \in Writers :
        /\ k \in Held(p) /\ Newer(w, k, memory[p][k].version)
        /\ Home[w] = p /\ w \in cleared[p][k]
        => w \in memory[p][k].late

\* A Redis entry older than what a writer of any process has written, when that
\* writer is done, is one whose value was read before the writer changed the
\* source and set after it had renewed or deleted the key; or the writer's own
\* command failed, on the page of a SCAN or before it.
RedisStalenessAccounted ==
    \A k \in Keys, w \in Writers :
        /\ redis[k] # Absent /\ Newer(w, k, redis[k].version)
        /\ pc[w] = "done"
        => w \in redis[k].late \cup failed

\* What get may still return of the memory tier.
Usable(p, k) == k \in Held(p) /\ memory[p][k].expires # "past"

\* Whatever old values back-fills and slow readers have put where, and
\* whatever invalidation failed, once the writers are done both tiers of every
\* process come to hold the present version only.
CacheConverges ==
    <>[](\A k \in Keys :
            /\ redis[k] # Absent => redis[k].version = source[k]
            /\ \A p \in Processes : Usable(p, k) => memory[p][k].version = source[k])
=============================================================================
