----------------------------- MODULE CountCache -----------------------------
(***************************************************************************)
(* utils/pagination_cache.py: the totals of COUNT queries in Redis, one    *)
(* key per filter, with a TTL.  An entry also carries two ghost sets that  *)
(* the code does not store: the calls whose writes the COUNT query saw,    *)
(* and the calls that had already looked for keys to delete when the       *)
(* entry was written.                                                      *)
(***************************************************************************)
EXTENDS Naturals

CONSTANTS Calls, Filters, None

VARIABLE cache       \* cache[f]: NoEntry or an entry, for each filter f

NoEntry == [count |-> 0, saw |-> {}, late |-> {}, set |-> FALSE, ttl |-> FALSE]
Entries == [count : Nat, saw : SUBSET Calls, late : SUBSET Calls,
            set : BOOLEAN, ttl : BOOLEAN]

CacheTypeOK == cache \in [Filters -> Entries]

CacheInit == cache = [f \in Filters |-> NoEntry]

Cached(f) == cache[f].set

\* Mutant: SET without an expiry in place of SETEX.
PutForever(f, n, saw, late) ==
    cache' = [cache EXCEPT ![f] = [count |-> n, saw |-> saw, late |-> late,
                                   set |-> TRUE, ttl |-> FALSE]]

\* SETEX key 300 count
Put(f, n, saw, late) ==
    cache' = [cache EXCEPT ![f] = [count |-> n, saw |-> saw, late |-> late,
                                   set |-> TRUE, ttl |-> TRUE]]

\* Mutant: a pattern that finds only the unfiltered total.
FoundUnfiltered == {f \in Filters : Cached(f) /\ f = None}

\* SCAN with the pattern pagination:count:<model>:*
Found == {f \in Filters : Cached(f)}

\* DELETE of the keys a SCAN found
Drop(keys) == cache' = [f \in Filters |-> IF f \in keys THEN NoEntry ELSE cache[f]]

\* Redis ends an entry whose TTL is over.
Lapse(f) == /\ Cached(f)
            /\ cache[f].ttl
            /\ cache' = [cache EXCEPT ![f] = NoEntry]
=============================================================================
