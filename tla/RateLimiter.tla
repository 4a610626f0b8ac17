---------------------------- MODULE RateLimiter ----------------------------
(***************************************************************************)
(* RateLimiter.check_rate_limit of utils/rate_limiter.py: a sliding window *)
(* over one Redis sorted set, rate_limit:<key>.  HTTP requests and         *)
(* WebSocket messages of one user share a key each, so calls for a key     *)
(* overlap; each of the four commands of a call is an await of its own.    *)
(*                                                                         *)
(* A request is recorded as str(current_time) with the score current_time, *)
(* so the sorted set is the set of the times themselves: two requests of   *)
(* the same time are one member.                                           *)
(***************************************************************************)
EXTENDS Integers, FiniteSets

CONSTANTS Requests,   \* the calls of check_rate_limit for one key
          Limit,      \* limit
          Burst,      \* burst, 0 when there is none
          Window,     \* window_seconds
          Overlap,    \* how many calls for the key are under way at once
          Latency,    \* how long a call may take
          FailMode,   \* RATE_LIMIT_FAIL_MODE
          MaxTime,    \* bound on the clock
          MaxFaults   \* bound on the Redis commands that fail

VARIABLES now,       \* the clock
          pc,        \* the command each call is at, or how it ended
          at,        \* current_time of each call
          window,    \* the sorted set
          deadline,  \* when Redis deletes it, or NoExpiry
          faults

vars == <<now, pc, at, window, deadline, faults>>

ASSUME LimitAssumption == Limit \in Nat /\ Burst \in Nat
ASSUME OverlapAssumption == Overlap \in Nat \ {0}
\* Redis commands time out within seconds, the windows are minutes.
ASSUME TimeAssumption == /\ Window \in Nat \ {0} /\ Latency \in Nat
                         /\ Latency < Window
ASSUME BoundsAssumption == /\ MaxTime \in Nat /\ MaxFaults \in Nat
                           /\ FailMode \in {"open", "closed"}

NoExpiry == 0

Commands == {"zrem", "zcard", "zadd", "expire"}
\* With an answer of the set: allowed or refused; with an error: by fail mode;
\* without a connection to Redis: unchecked, and let through in either mode.
Ended == {"allowed", "refused", "waved", "barred", "unchecked"}

TypeOK ==
    /\ now \in Nat
    /\ pc \in [Requests -> {"idle"} \cup Commands \cup Ended]
    /\ at \in [Requests -> Nat]
    /\ window \subseteq Nat
    /\ deadline \in Nat
    /\ faults \in Nat

Init ==
    /\ now = 0
    /\ pc = [r \in Requests |-> "idle"]
    /\ at = [r \in Requests |-> 0]
    /\ window = {}
    /\ deadline = NoExpiry
    /\ faults = 0

-----------------------------------------------------------------------------

\* min(burst, limit) if burst else limit
EffectiveLimit == IF Burst # 0 /\ Burst < Limit THEN Burst ELSE Limit

InFlight == {r \in Requests : pc[r] \in Commands}

Goto(r, from, to) == pc[r] = from /\ pc' = [pc EXCEPT ![r] = to]

\* ZREMRANGEBYSCORE 0 .. current_time - window_seconds; an empty set is
\* deleted by Redis, and its expiry with it.
Zremrangebyscore(r) ==
    /\ window' = {t \in window : t + Window > at[r]}
    /\ deadline' = IF window' = {} THEN NoExpiry ELSE deadline

\* ZADD keeps the expiry the key has.
Zadd(r) == window' = window \cup {at[r]} /\ UNCHANGED deadline

\* EXPIRE window_seconds * 2, without effect on a key that does not exist.
Expire(r) ==
    /\ deadline' = IF window = {} THEN NoExpiry ELSE now + 2 * Window
    /\ UNCHANGED window

-----------------------------------------------------------------------------

\* get_redis_connection answers None: "fail open", whatever the mode.
NoConnection(r) ==
    /\ Goto(r, "idle", "unchecked")
    /\ UNCHANGED <<now, at, window, deadline, faults>>

\* Mutant: the request is recorded with window_start for its time.
StartAtWindowStart(r) ==
    /\ Goto(r, "idle", "zrem")
    /\ Cardinality(InFlight) < Overlap
    /\ at' = [at EXCEPT ![r] = now - Window]
    /\ UNCHANGED <<now, window, deadline, faults>>

\* current_time = time.time()
Start(r) ==
    /\ Goto(r, "idle", "zrem")
    /\ Cardinality(InFlight) < Overlap
    /\ at' = [at EXCEPT ![r] = now]
    /\ UNCHANGED <<now, window, deadline, faults>>

\* Mutant: the request exactly one window old is kept.
RemoveOlder(r) ==
    /\ Goto(r, "zrem", "zcard")
    /\ window' = {t \in window : t + Window >= at[r]}
    /\ deadline' = IF window' = {} THEN NoExpiry ELSE deadline
    /\ UNCHANGED <<now, at, faults>>

RemoveOld(r) ==
    /\ Goto(r, "zrem", "zcard")
    /\ Zremrangebyscore(r)
    /\ UNCHANGED <<now, at, faults>>

\* The reply of ZCARD decides; the request is not yet in the set.
Count(r) ==
    /\ \/ Goto(r, "zcard", "refused") /\ Cardinality(window) >= EffectiveLimit
       \/ Goto(r, "zcard", "zadd") /\ Cardinality(window) < EffectiveLimit
    /\ UNCHANGED <<now, at, window, deadline, faults>>

Record(r) ==
    /\ Goto(r, "zadd", "expire")
    /\ Zadd(r)
    /\ UNCHANGED <<now, at, faults>>

\* Mutant: the set expires after one window.
RefreshOneWindow(r) ==
    /\ Goto(r, "expire", "allowed")
    /\ deadline' = IF window = {} THEN NoExpiry ELSE now + Window
    /\ UNCHANGED <<now, at, window, faults>>

\* Mutant: no EXPIRE.
RefreshNothing(r) ==
    /\ Goto(r, "expire", "allowed")
    /\ UNCHANGED <<now, at, window, deadline, faults>>

Refresh(r) ==
    /\ Goto(r, "expire", "allowed")
    /\ Expire(r)
    /\ UNCHANGED <<now, at, faults>>

\* A Redis error; the command may or may not have been executed.
RedisError(r) ==
    /\ faults < MaxFaults
    /\ faults' = faults + 1
    /\ r \in InFlight
    /\ pc' = [pc EXCEPT ![r] = IF FailMode = "closed" THEN "barred" ELSE "waved"]
    /\ \/ UNCHANGED <<window, deadline>>
       \/ pc[r] = "zrem" /\ Zremrangebyscore(r)
       \/ pc[r] = "zadd" /\ Zadd(r)
       \/ pc[r] = "expire" /\ Expire(r)
    /\ UNCHANGED <<now, at>>

\* Time passes, and Redis deletes the set when its expiry has come.
Tick ==
    /\ now < MaxTime
    /\ \A r \in InFlight : now < at[r] + Latency
    /\ now' = now + 1
    /\ IF deadline = now' THEN window' = {} /\ deadline' = NoExpiry
                          ELSE UNCHANGED <<window, deadline>>
    /\ UNCHANGED <<pc, at, faults>>

Step(r) == \/ NoConnection(r) \/ Start(r) \/ RemoveOld(r) \/ Count(r)
           \/ Record(r) \/ Refresh(r) \/ RedisError(r)

Next == (\E r \in Requests : Step(r)) \/ Tick

Spec == Init /\ [][Next]_vars

-----------------------------------------------------------------------------
(* Properties                                                              *)

\* The requests the set let through.
Passing == {r \in Requests : pc[r] \in {"expire", "allowed"}}

\* The requests that may be in the set.
Recorded == {r \in Requests : pc[r] \in {"expire", "allowed", "waved", "barred"}}

\* The times of those that arrived after t - (Window - Latency), up to t.
PassedUpTo(t) ==
    {at[r] : r \in {q \in Passing : at[q] <= t /\ t + Latency < at[q] + Window}}

\* Check-then-add costs one request for every call that overlaps, and late
\* commands shorten the window by the time a call may take; no interleaving of
\* the commands, and no expiry of the set under a call, lets more pass.  Like
\* the code, it counts times: requests of one and the same time are one.
WithinLimit ==
    faults = 0 => \A t \in 0 .. now :
        Cardinality(PassedUpTo(t)) <= EffectiveLimit + Overlap - 1

\* The times that may count against r.
CountedAgainst(r) == {at[q] : q \in {p \in Recorded : at[r] < at[p] + Window}}

\* A request is refused only when as many others as the limit arrived within
\* the window before it or while it was checked: no request that is too old,
\* and none that was refused itself, counts against it.
DenialJustified ==
    \A r \in Requests : pc[r] = "refused" =>
        Cardinality(CountedAgainst(r)) >= EffectiveLimit

\* A set without an expiry is one whose EXPIRE is on its way, unless it failed:
\* no key outlives its requests.
SetExpires ==
    faults = 0 /\ window # {} /\ deadline = NoExpiry =>
        \E r \in Requests : pc[r] = "expire"
=============================================================================
