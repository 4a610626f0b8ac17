----------------------------- MODULE RedisPool -----------------------------
(***************************************************************************)
(* RedisPool and get_redis_connection (storage/redis.py): one client and   *)
(* one connection pool per database, made when first asked for, behind a   *)
(* pybreaker circuit breaker.  Making them connects to nothing and does    *)
(* not suspend, so asking for a connection is part of its caller's step.   *)
(***************************************************************************)
EXTENDS Naturals

CONSTANTS Dbs,      \* the Redis databases
          FailMax   \* REDIS_CIRCUIT_BREAKER_FAIL_MAX

VARIABLES pools,     \* __pools
          instances, \* __instances
          closed,    \* the pools close_all has been through
          connected, \* the databases there may be open connections to
          breaker, fails

PoolTypeOK ==
    /\ pools \in SUBSET Dbs /\ instances \in SUBSET Dbs /\ closed \in SUBSET Dbs
    /\ connected \in SUBSET Dbs
    /\ breaker \in {"closed", "open"} /\ fails \in Nat

PoolInit ==
    /\ pools = {} /\ instances = {} /\ closed = {} /\ connected = {}
    /\ breaker = "closed" /\ fails = 0

\* What the breaker records of a call: whether calling the function raised.
Record(raised) ==
    /\ fails' = IF raised THEN fails + 1 ELSE 0
    /\ breaker' = IF raised /\ fails + 1 >= FailMax THEN "open" ELSE breaker

\* The guarded function is a coroutine function: calling it only makes the
\* coroutine, which never raises; what awaiting it comes to, the breaker does
\* not see.  The commands that the caller then sends open connections.
GetConnection(db) ==
    /\ instances' = instances \cup {db}
    /\ pools' = pools \cup {db}
    /\ connected' = connected \cup {db}
    /\ Record(FALSE)
    /\ UNCHANGED closed

\* A client that is still there sends a command, whatever has become of its
\* pool: a pool that has been disconnected opens a connection anew.
Reconnect(db) ==
    /\ db \in instances
    /\ connected' = connected \cup {db}
    /\ UNCHANGED <<pools, instances, closed, breaker, fails>>

\* A pool is disconnected; an error of it is logged.
ClosePool(db) ==
    /\ db \in pools \ closed
    /\ closed' = closed \cup {db}
    /\ connected' = connected \ {db}
    /\ UNCHANGED <<pools, instances, breaker, fails>>

\* Mutant: the clients of the closed pools are kept.
ForgetPools ==
    /\ closed = pools
    /\ pools' = {} /\ closed' = {}
    /\ UNCHANGED <<instances, connected, breaker, fails>>

AllClosed ==
    /\ closed = pools
    /\ pools' = {} /\ instances' = {} /\ closed' = {}
    /\ UNCHANGED <<connected, breaker, fails>>
=============================================================================
