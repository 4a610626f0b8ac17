# TLA+ models of fastapi-http-websocket

This directory holds TLA+ specifications of the server in `src/app`, TLC
configurations that check them on small instances, and TLAPS proofs of their
main properties for every value of the constants. Paths below are relative to
`src/app` unless they start with `docs_site/`.

Run, inside this directory, for example

    tlc -workers 4 -config ws_faults.cfg MCWsSession
    tlapm --threads 2 WsSessionProofs.tla

## 1. Inventory

The server is one asyncio process: a coroutine runs without interruption from
one `await` to the next, so every race is between the code after one `await`
and the code of other coroutines, Redis, the database or a client. The modules
make each stretch between two awaits one action.

| part | code | state it keeps | operations | interacts with |
|---|---|---|---|---|
| WebSocket endpoint | `api/ws/websocket.py`, `api/ws/consumers/web.py` | per connection: `user`, `session_key`, `connection_id`, the socket | `dispatch`, `on_connect`, `on_first_message`, `_post_auth_setup`, `on_receive`, `on_disconnect` | limiter, session keys, manager, router, audit log |
| connection manager | `managers/websocket_connection_manager.py` | dict session key -> WebSocket | `connect`, `disconnect`, `get_connection`, `broadcast` | endpoints, expiry task |
| connection limiter | `utils/rate_limiter.py` | Redis set per user | `add_connection`, `remove_connection` | Redis, through `redis_safe` |
| session keys | `storage/redis.py` | Redis key per user with expiry | `add_kc_user_session` | expiry task, by keyevents |
| expiry task | `tasks/kc_user_session.py` | a pub/sub subscription | one loop | manager |
| audit log | `utils/audit_logger.py` | bounded queue, the worker's batch | `log_user_action`, `audit_log_worker`, `flush_audit_queue` | every request and message, database |
| lifespan | `__init__.py`, `startup_validation.py`, `storage/db.py` | phase, background tasks | startup validations, wait for the database, shutdown | all of the above |
| rate limiter | `utils/rate_limiter.py`, `middlewares/rate_limit.py` | Redis sorted set per key | `check_rate_limit`, `reset_limit` | HTTP middleware, `on_receive` |
| layered cache | `managers/cache_manager.py`, `utils/token_cache.py` | memory tier per process, Redis tier | get, set, invalidate, invalidate_pattern, clear | its callers |
| author service | `commands/`, `repositories/`, `api/http/author.py`, `api/ws/handlers/` | the author table, sessions | get, create, update, delete, pages, scans | count cache, database |
| count cache | `utils/pagination_cache.py` | a Redis key per filter | get, set, invalidate | author service |
| pagination | `storage/pagination/`, `storage/db.py` | none | offset and cursor strategies | database |
| router and RBAC | `routing.py`, `dependencies/` | three registries | `register`, `handle_request`, completeness check | endpoint, commands |
| middlewares | `middlewares/` | registered order | build and validate the pipeline | every HTTP request |
| Redis access | `storage/redis.py` | client and pool per database, circuit breaker | `get_redis_connection`, `close_all` | all users of Redis |

What makes each part correct, and what is hard about it:

* **Session subsystem** (endpoint, manager, limiter, session keys, expiry
  task). A connection takes a slot, a session key and a registry entry at
  different awaits and gives them back at others, some of which can be skipped
  by an exception, a Redis error or the death of the process. Correct means:
  what is taken can be traced to a connection that owes it; an admitted
  connection keeps its slot; the registry names a connection of the right user
  that can still be reached. Hard: connections of the same user share a
  registry entry; the broadcast and the expiry task use what they read before
  an await.
* **Audit log.** Entries pass from callers through a queue, a batch and a
  transaction. Correct means: never two rows for an entry, bounded memory, no
  silent loss, and a caller never blocked for good. Hard: callers that wait for
  space race new callers; the worker and the flush drain the same queue; a
  transaction may commit and still report an error; the shutdown cancels the
  worker at any await.
* **Rate limiter.** A request is let through by a count of a shared sorted set
  that it joins only afterwards. Correct means: the excess over the limit is
  bounded by the calls that overlap, a refusal rests on requests that were let
  through recently, and the key goes away. Hard: the set is trimmed by every
  call, expires as a whole, and its expiry is renewed two commands after the
  check.
* **Author service.** A command reads, checks, writes, invalidates and commits
  at different awaits, and over HTTP it answers before it commits. Correct
  means: duplicate names, stale totals and rows a scan misses each have a cause
  that can be named; an error leaves nothing behind, but for a COMMIT that took
  effect and raised; a WebSocket answer is of a committed row. Hard: the name
  check and the insert are two statements with no unique constraint behind
  them; totals are invalidated before the commit; the cursor strategy has no
  `ORDER BY`.
* **Layered cache.** A value read from Redis or from the source is stored an
  await later. Correct means: bounded memory; an old value was read before its
  writer changed the source; both tiers become right once writers are done.
  Hard: back-fills race invalidations, in the same process and in another; one
  of the two tiers may fail.
* **The application.** Limits, roles, the audit trail, the pools and the
  lifespan are enforced by parts that know nothing of each other. Correct
  means: a refusal is the caller's own; a change was admitted and is in the
  trail; the shutdown leaves nothing open. Hard: an error of one part is caught
  by another (`on_receive` takes the failed close of a refused message for an
  error of the limiter); the registries are filled twice; the shutdown meets
  tasks that are asleep after an error.

## 2. Modules

### WsSession, ConnectionManager, ConnectionLimiter

`WsSession` composes one endpoint coroutine per connection with the manager,
the limiter, the session keys, the expiry task and broadcasts.
`ConnectionManager` and `ConnectionLimiter` hold the registry and the Redis
sets with the operators that change them; `WsSession` instantiates both, so a
`Connect(u, c)` in an action is the call of `connection_manager.connect` in the
code.

| variable | in the code |
|---|---|
| `pc[c]` | the await of `dispatch()` that connection `c` is in, or how it ended |
| `user[c]`, `session_key[c]` | `self.user` and `self.session_key` |
| `sock[c]` | the socket as a send sees it: `closed` after the server's close or a failed send, `gone` when the client has left |
| `connections` | `ConnectionManager.connections` |
| `slots`, `slotsTTL` | the sets `ws_connections:<user>` and whether they carry an expiry |
| `session` | the key `session:<user>`: absent, `lasting` (no expiry) or `expiring` |
| `events`, `task` | the messages buffered by the task's pub/sub, and the await the task is in |
| `bcast` | the `safe_send` coroutines of broadcasts that have not run yet |
| `used` | how much of each bound on the environment has been consumed |
| `peak`, `past` | history that only properties read: the most connections of a user ever between `SCARD` and `SADD`; the users who have come back after a registered connection |

The values of `pc` follow the code: `upgrade` (before `on_connect`), `auth`
(`wait_for(receive)`), `token` (`decode_token`), `scard`, `sadd`, `expire` (the
three commands of `add_connection`), `set`, `pexpire` (those of
`add_kc_user_session`), `auth_ok` (the send), `open` (`receive` in the loop),
`handling` (`on_receive`), `release` (`remove_connection`). A coroutine ends as
`done`, `unreleased` (its SREM failed and the error was swallowed), `failed`
(an exception skipped `on_disconnect`) or `killed` (with the process).

Modelling decisions:

* A connection that is accepted by `decode_token` gets any user. What a message
  does is abstracted to how `on_receive` leaves the socket: it returns
  (`MessageHandled`), closes (`MessageCloses`), meets a client that has gone
  (`ResponseFails`), or raises from a close of its own (`CloseRaises`).
* A Redis command that fails may or may not have been executed by the server,
  so the error actions leave both outcomes open.
* `EventKillsTask` covers `close()` on a socket that is closed (it raises
  `RuntimeError`, which no `except` of the task names) and on one whose client
  has gone (it may raise, depending on the ASGI server; both outcomes are in
  the model, `EventClosesConnection` being the other).
* A crash loses the memory of the process and keeps Redis. A rejected origin
  and a first frame that is no JSON object end the coroutine with an exception,
  as the code does.
* A client that comes back is a new endpoint with a new `connection_id`
  (`Reconnect`). It takes over the name of a connection that has ended with its
  slot given back and that nothing refers to any more; so a finite instance has
  users who reconnect without end. Its `EXPIRE` renews the hour of the whole set
  (`RenewHour`), slots that earlier connections left behind included.
* Expiry deletes a session key only when it carries an expiry, and its keyevent
  reaches the task only while it is subscribed.

### AuditPipeline and AuditLog

`AuditLog` is the abstract specification: each entry has a fate; it is refused,
or accepted and then stored or lost, and entries that are in one transaction
are stored or lost together. `AuditPipeline` is the code: `call` is where each
call of `log_user_action` is, `queue` the asyncio queue, `batch` and `worker`
the local batch and await of `audit_log_worker`, `remaining` the list of
`flush_audit_queue`, `shutdown` the progress of `lifespan`, `table` the
committed rows, `errors` the counted or logged errors. `Fate` maps a state of
the pipeline to a state of `AuditLog`.

A transaction that reports an error may have committed (`Insert(batch) \/
UNCHANGED table`), a cancellation may arrive after the commit, and a call woken
from its wait may find the space taken again. `DrainQueue` starts when no call
waits any more: uvicorn runs the shutdown part of `lifespan` after the requests
and connections have ended.

### RateLimiter

One key of `check_rate_limit` and the calls for it, in the HTTP middleware or in
`on_receive` of the sockets of one user. Each of the four commands is an action.

| variable | in the code |
|---|---|
| `now` | `time.time()`, and the clock of Redis |
| `pc[r]`, `at[r]` | the command a call is at, or its answer; its `current_time` |
| `window` | the sorted set `rate_limit:<key>`: member and score are the time |
| `deadline` | when Redis deletes the key |

* The member is `str(current_time)`, so the set is a set of times: two requests
  of one time are one member, and the properties count times as the code does.
* Redis deletes an empty sorted set together with its expiry, `ZADD` keeps the
  expiry, and `EXPIRE` does nothing for a key that does not exist.
* `Overlap` bounds the calls under way for the key and `Latency` the time one
  takes. The code bounds neither; the properties say how the excess depends on
  them. `Latency < Window` holds as windows are 60 seconds and a call that hangs
  ends with an error of the Redis client.
* With `Burst` the limit is `min(burst, limit)`: a burst lowers it. The docs say
  the opposite (`docs_site/api-reference/http-api.md:58`, "Burst allowance: 10
  additional requests"; the docstring of `check_rate_limit`, "Allow 120 total
  (100 + 20 burst)"). The model follows the code.
* `NoConnection` lets a request through in either fail mode, as the code does;
  `docs_site/getting-started/configuration.md:220` says that `closed` denies
  requests when Redis is unavailable.

### AuthorService, AuthorTable, CountCache, Paging, AuthorApi

`AuthorService` has one call per request: `Op[c]` is its operation and `Via[c]`
its protocol. It instantiates the table (`AuthorTable`), the cached totals
(`CountCache`) and the arithmetic of pages (`Paging`).

| variable | in the code |
|---|---|
| `name`, `nextId` | the committed rows of `author` and its sequence |
| `pend[c]` | the row the session of `c` has flushed and not committed |
| `heaped` | whether an unordered SELECT still returns rows in id order |
| `cache[f]` | the key `pagination:count:Author:<filter>`, and whether it has a TTL |
| `pc[c]`, `arg[c]`, `res[c]` | the await of a call, its input, what it came to |
| `inv[c]`, `found[c]` | how far `invalidate_count_cache` is, and what its SCAN returned |
| `tally[c]`, `scan[c]` | a COUNT on its way to the cache; a cursor scan |
| `committed`, `namer`, `ruledOut`, and `saw`, `late` of an entry | history that only properties read |

* PostgreSQL runs at READ COMMITTED: a statement sees committed rows, an UPDATE
  or DELETE waits for the session that has flushed the row, and an UPDATE of a
  row that has gone raises `StaleDataError`.
* A WebSocket handler commits on leaving `session.begin()` and then answers. The
  session of an HTTP endpoint comes from `get_session`, a dependency with
  `yield`, which FastAPI resumes after the response, so `Reply` precedes
  `CommitWrite`, and a commit that fails is not told to the client.
* By the time a COMMIT raises, PostgreSQL has decided it, either way: it failed
  (`CommitFails`), or it took effect and its acknowledgement was lost
  (`AcknowledgementLost`). In both cases `handle_ws_errors` tells a WebSocket
  client of a database error, and the call's result is `unsettled`.
* `redis_safe` swallows the errors of `invalidate_count_cache`: the command
  succeeds and the total stays (`InvalidationFails`).
* A page without an `ORDER BY` returns any rows after the cursor, except while
  the heap is in id order. A commit of an update, a deletion or a late insert
  ends that, and so may a rollback, whose dead row's place is used again.
* Filters are the sets of rows that have a name; other filters, eager loading
  and the building of statements are left out.

`AuthorApi` is what a client of the service can rely on, with no sessions,
flushed rows or caches: a call is answered at most once; its write takes effect
at most once and as a whole; a create uses an id that no author has had; a
refusal means no effect, then or later; so does a database error over HTTP, while
over a WebSocket it leaves open whether there has been one (and none follows);
and a WebSocket create is told "ok" only after its effect, where an HTTP call may
be told before. The committed rows are
the authors; `UsedIds` are the ids of the initial rows and of those a call has
named; `Answered` is the outcome of the calls in `sent`.

### LayeredCache

`memory[p]` and `recency[p]` are the `OrderedDict` of process `p`, `redis` the
shared tier. The bodies under `_lock` never await, so each is one step; a Redis
command and the resumption of its caller are two. Readers get a key and, when
they miss, load it and set it; writers change the source and then set the key,
invalidate it, or invalidate by a pattern. The last clears the whole memory tier
and then goes through Redis page by page: `left[c]` are the keys that the SCAN
has yet to pass and `found[c]` those of its last page, which the next `DELETE`
removes; an error at either ends it. `Clear` leaves Redis alone, as the body of
`clear` does; its docstring says "Clear both memory and Redis caches entirely"
(`managers/cache_manager.py:292`).

Entries carry the version of the source and when they expire. What they carry
for the properties is `late`: the writers that had renewed or dropped the key
before the entry was stored although its value was read before they changed the
source. For this a call remembers in `seen` the writers its value is no older
than: those that had changed the source when it was read from there, and for a
value from Redis those that had dropped the key, less the `late` of the entry it
came from. A writer whose value another has overtaken by the time it is stored
is late in the same way. `failed` are the writers whose own Redis command
failed. `token_cache.py` uses single
keys in the same way and has no caller.

### Server, Lifespan, RedisPool, PackageRouter, Middlewares

`Server` composes the application: the lifespan with its background tasks, the
Redis pools, the pipeline in front of the HTTP endpoints, the messages of
connections and the router behind them, and each call's audit entry, whose
fates are those of `AuditLog` (which `AuditPipeline` implements).

| variable | in the code |
|---|---|
| `phase`, `retries`, `tasks` | the await of `lifespan`, the attempts of `wait_and_init_db`, the await of each task |
| `pools`, `instances`, `closed`, `breaker`, `fails` | `RedisPool` with its pybreaker circuit breaker |
| `handlers`, `validators`, `permissions` | the registries of `PackageRouter` |
| `conn[u]` | the connection of a user, as a send sees it |
| `window[k]` | the calls a rate limit key's window holds |
| `connected` | the databases there may be open connections to, whatever has become of their pool |
| `defined`, `imported` | the ids the handler modules register, and whether these are in `sys.modules` |
| `pc`, `op`, `res`, `logged`, `fate` | a call's await, operation, outcome, and its audit entry |
| `streak`, `effect`, `undone`, `doubtful`, `held` | history that only properties read; `doubtful` are the calls whose COMMIT took effect and raised |

Facts of the libraries the model rests on, none of them in `src`:

* pybreaker's `call` runs the function it is given. Given a coroutine function it
  gets a coroutine, records a success and returns, so nothing that awaiting
  raises reaches the breaker (`GetConnection` records no failure).
* Sending on a socket the server has closed raises `RuntimeError`, which ends
  `on_receive` without an audit entry. Sending to a client that has gone raises
  `WebSocketDisconnect`, which `on_receive` counts as an unexpected error and
  audits.
* `on_receive` closes the connection of a message over the limit inside the
  `try` whose `except` fails open: if the close raises, the message is handled
  (`CloseRefused`).
* An answer passes only through the middlewares entered before it was made:
  `RateLimit` and `Authentication` answer before `Audit` is entered
  (`Middlewares!Sees`).
* uvicorn ends the calls and closes the connections before it resumes
  `lifespan`.
* A redis-py client connects anew when its pool has been disconnected. The
  session task keeps its client, so a poll (`Listen`) or a subscription after a
  sleep (`RunTask`) while `close_all` still awaits another pool opens a connection
  that nothing closes; it does not ask for its client again and so makes no pool.
* A COMMIT that raises may have taken effect (`CommitRaises`): over a WebSocket
  the answer and the audit entry then say error (`HandlerInDoubt`), over HTTP
  they have said success already.
* `application()` runs twice, and each time clears the registries (`Cleared`);
  the handler modules are imported the first time and executed again the second
  (`LoadHandlers`, `Reload`).

Abstractions: a window is the set of calls it holds and ends at any time
(`RateLimiter` has the detail), a connection is open, closed or gone
(`WsSession`), a command writes or does not (`AuthorService`), and the
cancellation of all tasks is one step, for each ends at the await it is in.

### MCWsSession, MCAuditPipeline, MCRateLimiter, MCAuthorService, MCLayeredCache, MCServer

They add the symmetry sets, or say which calls there are. The symmetry of
connections is used only in `ws_faults`, which checks invariants: connections
are interchangeable, for no constant and no initial value tells them apart;
likewise the requests of `rate_window`. The runs of liveness use none.

### Mutants

Definitions whose comment starts with "Mutant" belong to no specification. Each
is a changed form of the definition that follows it, as a plausible mistake in
the code would change it; put in its place, it makes one property fail.

## 3. Runs

| run | what it checks | expected |
|---|---|---|
| `ws_faults` | the safety properties, `OverrunBounded` included, with 3 connections of one user, limit 2, one Redis error, one crash, one broadcast, one session expiry | pass |
| `ws_live` | `HandshakeDecided`, `SlotFreed`, `ExpiryClosesSoleConnection` under `FairSpec`, with limiter sets that expire and clients that come back | pass |
| `ws_cleanup` | `CleanupAlwaysRuns`, from `dispatch`'s docstring | violated |
| `ws_limit` | `LimitEnforced`, from `ConnectionLimiter`'s docstring | violated |
| `ws_expiry` | `ExpiryClosesConnections`, from `kc_user_session_task`'s docstring | violated |
| `audit_safety` | bounds, `AtMostOnce`, `LossReported`, `CallReturns`, `EntrySettled`, and that the pipeline implements `AuditLog` | pass |
| `audit_shutdown` | `ShutdownLosesNothing`, from `flush_audit_queue`'s docstring | violated |
| `rate_window` | `WithinLimit`, `DenialJustified`, `SetExpires` | pass |
| `authors` | the safety of the author service, and that it implements `AuthorApi`; `TotalsConverge` and `EveryCallEnds` | pass |
| `caches` | `MemoryBounded`, the two staleness properties, `CacheConverges` | pass |
| `server` | `RefusalsJustified`, `EffectsAdmitted`, `TrailAccounted`, `ShutdownComplete`, `LifecycleEnds` | pass |
| `breaker` | `BreakerOpens`, from `get_redis_connection`'s docstring | violated |

What the violated properties show:

* `ws_cleanup`: `on_first_message` runs before the `try` of `dispatch`. A client
  that leaves before `auth_ok` is sent, or a Redis error in
  `add_kc_user_session`, raises through it, and `on_disconnect` does not run.
  The slot stays until the set's hour is over, and the registry entry until a
  send fails on it. `SlotAccounted` says that the slot of such a connection is
  always in a set that expires; `SlotFreed` and `RegisteredConnectionLives` say
  how far the damage goes.
* `ws_limit`: `SCARD` and `SADD` are separate commands, so connections of a user
  that set up together pass the same check. `OverrunBounded` says how far the
  limit is overrun: by one connection less than ever wait between the two
  commands at one time.
* `ws_expiry`: one entry per session key. After a second login of the same user
  the first connection is out of reach of the expiry task and of broadcasts.
  `SoleConnectionReachable` and `ExpiryClosesSoleConnection` are what remains
  true.
* `audit_shutdown`: the flush looks at the queue and not at the worker's batch,
  and the cancellation that follows drops the batch.
* `breaker`: the breaker guards the making of a coroutine. After as many failed
  commands in a row as `REDIS_CIRCUIT_BREAKER_FAIL_MAX` it is still closed.
  Every user of Redis asks for its connection through this breaker, so
  each of them goes on trying.

What the passing runs show of the faults the code does have: every weakness is
stated with its limit. `LossReported` bounds what may be lost by what has been
reported: one error stands for one batch, or for one flush of the queue, and
the cancellation for one batch more. `NamesUniqueUnlessConcurrent` allows
duplicates and says that only calls that overlapped make them;
`StaleTotalAccounted` allows a wrong total and lists its three causes (a
rename, a failed invalidation, an invalidation that came before the entry);
`ScanExactWhenSorted` says that a scan whose pages did come in order is exact,
whatever commits meanwhile; `MemoryStalenessAccounted` and
`RedisStalenessAccounted` allow an old value only where it was read before its
writer changed the source, or, in Redis, where the writer's own command failed;
`EffectsAdmitted` allows a message over the limit only on a connection that was
closed or gone; `TrailAccounted` allows a change without an entry only where
the response could not be sent, one entered as an error only where the client
had gone or the commit raised all the same, and an entry without its change
only where the commit failed after the answer; `ShutdownComplete` allows a
connection only to the database of the session task.

Texts of the repository that the code contradicts, besides the five violated
properties, as the models show:

* `docs_site/api-reference/http-api.md:58` and `utils/rate_limiter.py:69` add the
  burst to the limit; the code takes the smaller. `rate_window` refuses at 2 with
  a limit of 3 and a burst of 2.
* `docs_site/getting-started/configuration.md:220`: `closed` denies requests when
  Redis is unavailable; without a client the code lets them through.
* `storage/pagination/cursor.py:25` ("Stable results (no duplicates/skips with
  concurrent changes)") and `storage/db.py:176` promise exact scans without
  condition. `ScanExactWhenSorted` is what holds: without its condition the same
  instance has a scan that returns the second row, then goes past the first.
* `storage/redis.py:130`: "all connections are properly closed"; see `Listen`.
* `managers/cache_manager.py:292`: see `Clear`.

### Bounds

* Three connections with a limit of two are the least that let a connection be
  refused while two others interleave; one user suffices there because slots,
  registry entries and keys of different users are disjoint, which the proofs
  state for any number of users. One error, one crash, one broadcast and one
  expiry are enough for each to fall between any two steps of each connection;
  the proofs have no such limits.
* `ws_live` uses two connections with a limit of two, one session expiry, limiter
  sets that expire, and clients that come back as often as they like: a slot left
  behind beside a user who keeps reconnecting is the case that keeps it for ever.
  Redis errors are left out because with them `SlotFreed` does not hold: an
  EXPIRE that fails leaves a set that never expires. A crash is left out because
  it restarts the task and the coroutines, not what they owe. `ws_faults` has no
  reconnections, which only add to liveness, and the proofs have both.
* Four calls against a queue and batches of two fill the queue, the batch and
  the waiting calls at the same time, and leave one to barge in.
* In `rate_window` five requests, two at a time, against an effective limit of
  two: one to be forgotten when the key expires under it, and three more that
  would then pass in its window, one more than the bound allows. The clock goes
  past twice the window, so that the key does expire. `MaxTime` and `MaxFaults`
  only bound the instance.
* `authors` has six calls (two creates, one over each protocol, a rename, a
  deletion, a page and a scan), of which any two run (`MaxRequests`), over two
  initial rows, three names and four ids: two calls are what every property's
  counterexample under a mutant needs, a reader of pages may ask again, and one
  fault falls at any command. Pages have one row (`MaxPageSize`), so that a scan
  of the initial rows takes two pages or more and a create, a rename or a
  deletion may commit between any two of them. The initial rows have different
  names of `InitialNames`. 179,242 states. The proofs have no such limits.
* `caches` has two processes with a memory tier of one entry, a reader of two
  keys and a writer in each process, which may go through both keys in one page
  or in two, and one Redis error (936,344 states): an eviction, a
  back-fill that races both a local and a remote invalidation, and a failure of
  either tier.
* `server` has one user, a request and two messages, two of the three at a time,
  a window of one call, two attempts for the database and one fault (334,705
  states): a call over
  the limit, its message closed while another is sent, a role that is missing,
  and a fault at any await. Users are kept apart by their keys; the proofs hold
  for any number.
* Deadlock is not checked, since every connection and every call ends: a state
  in which all have ended is the normal end of a bounded instance.

### Fairness

* `CallFairness`: a call that waits for space is woken or timed out by the event
  loop (`asyncio.wait_for`). `CallReturns` uses this alone, so it holds for a
  worker that hangs.
* `WorkerFairness`: the worker's waits have timeouts and a transaction commits
  or fails; a shutdown once begun is carried through. Nothing makes a shutdown
  begin.
* `WsSession!Fairness`: each coroutine that can run is run (`ServerStep`), and the
  task likewise. `Disconnected` is strongly fair: a closed socket has only so
  many frames left before the disconnect message. Redis deletes a user's set
  when its hour is over, unless the hour is renewed again and again for ever, so
  the expiry of a set is fair only in behaviours in which `RenewHour` stops; in
  the others `SlotFreed` says nothing of slots left behind, for the code keeps
  them. Steps that depend on a client (`ClientStep`) have no fairness. The choice
  between a step and its failure is free, so no success is assumed.

* `AuthorService`: each call that can go on does (`Serve`), for the event loop
  resumes it and a row lock is released when its holder ends; a total expires
  (`SETEX`). Requests, and the choice to fail, have no fairness.
* `LayeredCache`: each call's awaits end, and time passes in both tiers. Nobody
  has to call the cache.
* `Server`: the lifespan goes on (`LifespanStep`) and each call does (`Serve`).
  Calls need not come and the server need not be stopped.

## 4. Proofs

The proof modules are checked by TLAPS to the last leaf. The assumptions are
those named in the modules: `None` is neither a user nor a connection, limits
are positive, bounds are naturals, `Latency < Window`, the operations that write
are registered with roles (`RolesAssumption`), no WebSocket handler updates
or deletes (`CallsAssumption` of `AuthorService`), and the calls of the layered
cache are finitely many and have at least one key between them (its
`CallsAssumption`, `KeysAssumption`).

**WsSessionProofs.** The safety properties of `ws_faults` hold for all users and
connections (finite or not) and all bounds. They are parts of one invariant,
`IInv`, because none is inductive alone. `UserKnown` and `KeyOfUser` say whose
a connection is: `self.user` is set before the first command that uses it, and
`self.session_key`, once set, names that user, for the connections in the
registry and in a broadcast's snapshot too. Without it a `disconnect(key)` might
hit another user's entry. `TaskClosesDead` says that while the expiry task
awaits `close()`, some connection registered under the key is closed: if the
user has a live connection as well, it is not the only one ever registered, so
`SoleConnectionReachable` survives the pop that follows. There is one lemma per
group of actions and one step per conjunct; `Invariance` combines them, and a
theorem per property follows.

`OverrunsBounded` is about a limit that the code does not keep. Its invariant
`Room` counts a user's slots together with the connections that have passed the
check and not yet taken theirs (`Racing`): passing the check needs fewer slots
than the limit, so the two together stay below the limit plus the most that ever
raced (`peak`), and `SADD` moves a connection from the second to the first
(`RoomTaken`). `LimiterStep` says that no other step adds to either.
`LimitHoldsWithoutRaces` assumes of the behaviour that no two connections of a
user race and of the constants that sets do not expire under their holders: then
`peak` is at most one (`PeakInductive`) and `LimitEnforced`, which `ws_limit`
shows violated, holds, for the connections in their loops hold slots
(`LoopHoldsSlots`). So overlapping setups, and sets that expire under their
holders, are the only causes of that violation. The ghost `past` keeps
`SoleConnectionReachable` true when a connection's name is used again: the
history of `session_key` is gone then, and `past` remembers it.

**AuditPipelineProofs.** `BoundsHold` needs that the batch is full only while it
is being written. `AtMostOnceHolds` needs that a worker in its backoff has no
batch and that the flush list is empty outside the flush (`Conserved`).
`Refinement` proves that the pipeline implements `AuditLog`: `FateUnmoved`,
`FateOfCall` and `FateOfBatch` describe the three ways in which the entries in
memory move, and each action is one of them. `LossesReported` counts: a step that
loses entries takes a sequence out of memory, of which no more are lost than its
length (`EntriesBounded`, `LossGrows`), that length is a batch's or the queue's
(`BoundsHold`, `FlushBoundInductive`), and the step counts an error or is the
cancellation. The lemmas on `Entries` and `Distinct` say what appending to and
taking from a queue does to its entries.

**RateLimiterProofs.** `LimitHolds` is about cardinalities: when a call passes the
check, the requests let through in any range that it belongs to are in the set
it counted, so they are fewer than the limit; those that have passed the check
and are not recorded (`Admitted`) are under way, so they are at most `Overlap`;
and recording moves one from the second set to the first (`LimitInv`). That all
recent requests are in the set is `ExpiryInv`, the part that needs an argument:
the key may expire between the `ZADD` and the `EXPIRE` of a call. It then takes
nothing recent along, because the set held the time of a request whose window
the expiry outlives by a whole window, or whose own `EXPIRE` is on its way and
would be later than any call may be. `DenialsJustified` needs `WindowInv`: what
is in the set when a call counts is the time of a recorded request and young
enough for that call, even if another call added it after this one trimmed.

**ServerProofs.** `IInv` follows a call through its awaits: what `res`, `op`,
`logged` and `fate` can be at each `pc`, that a write in `effect` went through
`Dispatch` with the roles of its user, and what the registries and the phases
allow each other (`phase = "running"` only with all ids registered, no call
under way in a shutdown). `OwnOrSame` says that a step is a call's own or
leaves it alone, and `ConnectionsEnd` that a connection once closed or gone
stays so, which is what makes the exceptions of `EffectsAdmitted` and
`TrailAccounted` hold for good. `HandlerInDoubt` changes the database and
answers with an error, so `MessageInv`, which lists where a message that has
changed the database can be, has the calls in `doubtful` as cases of their own,
up to `TrailAccounted`. `ShutdownComplete` rests on `PhaseInv`: no call is
under way in a shutdown, so nothing makes a client or an entry again after the
pools are closed; and on `PoolInv`, which says that every client and connection
has a pool, and that of the pools already closed only the session task's can
have a connection again. `TrailIsAuditLog` proves that the entries of the whole
application behave as `AuditLog` says, which is what `AuditPipeline` implements
in detail: the two models meet in one abstract specification.

**AuthorServiceProofs.** `IInv` has a part for each way in which one call can
disturb another. `RouteInv` and `CallInv` say which calls reach which await and
what they have come to there. `PendingInv` says that two sessions never hold the
same flushed row and that a flushed insert has an id of its own, below the
sequence. `NameInv` carries a name check to the commit that relies on it: at the
flush, and while the row is pending, every other row of that name was named by a
call that the check could not see; `NamesCommitted` is the step where that
becomes `NamesUniqueUnlessConcurrent`. `TotalInv` and `TallyInv` say the same of
a count on its way to the cache: a count that saw every committed write is
right, and an invalidation whose keys have been looked for either will delete
the entry or came before it. `ScanInv` says that the rows of a sorted scan's
first page's time are in what it has returned up to its cursor, for no row ever
appears under an id that was there before (`RowsAppear`).

`NamesUniqueWithoutRaces` is the other side of `NamesUniqueUnlessConcurrent`. In a
behaviour in which no two calls are between their name check and their commit at
once (`NamingAlone`), a checked name stays free until it is committed (`Cleared`),
and no two authors ever share a name. The hypothesis is about the behaviour; the
code itself does nothing to ensure it.

**AuthorApiProofs.** `Refinement` proves that the service implements
`AuthorApi`. `KindInv` ties what a session has flushed to the operation of its
call, so that a commit is the one write its call may make (`CommitIsWrite`),
and `FreshInv` says that the id of a flushed insert has been used by nobody,
including rows since deleted. `OnlyReplySends` and `AnswerKept` say that an
answer is given by `Reply` alone and never changes, and `AnsweredOnlyCommits`
that an answered call can only still commit, over HTTP, after "ok". A call that
is `unsettled` has nothing flushed left, so whatever its COMMIT came to,
nothing follows its answer. From this and `IInv`, `StepRefines` maps each
action to a write, an answer or a stutter. The theorems `ErrorsLeaveNoEffect`
and `WsAnswersAreCommitted` state two consequences of the refinement as
invariants of the service; no run lists those separately.

**PagingProofs.** `OffsetPagesHold` is arithmetic for every number of rows and
page size. `Quotient` characterises the rounded-up division of `PageCount`,
`PagesAdvance` and `PagesOrdered` place the pages one after another, and
`OffsetPagesExact` follows: each row is on one page, the last page is the one
counted, and `has_more` (`ExtraRow`) is right on each.

**LayeredCacheProofs.** The safety properties of `caches` hold for all processes,
keys, calls and sizes of the memory tier. The lemmas on `Without`, `Touch` and
`Evict` say that the order of use keeps each key once, so its length counts the
keys (`MemoryBounded`); `GoodTier` lifts that to a tier, and `LessKept` covers
every step that only takes something out of one. `SeenInv` is what makes the
staleness properties inductive: the version a call carries is no older than any
writer in its `seen`, whether it was read from the source or from Redis; a value
from Redis inherits this from `DroppedInv`, which is why
`MemoryStalenessAccounted` cannot be proved alone. `DroppedInv` says that an entry
of Redis older than a writer that has dropped the key is `late` to it, and
`DoneInv` that a writer that is done has dropped its key or is in `failed`: for a
pattern, that each key is behind the SCAN, on its last page, or still to come.
`RedisStalenessAccounted` follows from the two. A writer that has started keeps
its key and version (`CallSteps`), so an entry cannot become stale without a
writer's step on that tier.

**Model-checked only**: liveness (`HandshakeDecided`, `SlotFreed`,
`ExpiryClosesSoleConnection`, `CallReturns`, `EntrySettled`, `TotalsConverge`,
`EveryCallEnds`, `CacheConverges`, `LifecycleEnds`), which rests on fairness and
`ENABLED`, beyond the prover's reach; and the violated properties. Every other
property of a passing run is stated by a theorem.

## 5. Not modelled

* **Redis pub/sub handlers** (`REventHandler`, `RedisHandler.subscribe`): no
  module of the application subscribes through them. The expiry task has a
  subscription of its own, which is in `WsSession`.
* **Keycloak**: decoding a token and the circuit breaker around the Keycloak
  client belong to a library call whose outcome is a free choice in `WsSession`
  and `Server`. That breaker has the shape of the Redis one.
* **Formats and Protobuf**: that a message cannot be decoded is a choice;
  converting it keeps no state. The fields of audit entries and their
  sanitising are left out: no property depends on them.
* **Settings**: constants of the modules; their validation at startup is a
  choice between success and failure at its place in the order.
* **Query building**: `default_apply_filters`, eager loading and the
  `BaseRepository` operations that authors do not use.
* **Metrics, profiling**: observation, except the error counters of the audit
  log and the tasks that publish metrics. `reset_limit` has no caller.
* **Several worker processes**: only `LayeredCache` has more than one, the part
  where they share what they write; `WsSession` has one process and a Redis
  that survives it.
* **Models, migrations, schemas, command line tools and generators**:
  declarations, and programs that run before the server does.

`PROJECT.json` lists each part with its status.

## 6. What is done and what is left

Done: the session subsystem, the audit pipeline against its abstract log, the
rate limiter, the author service with its totals and pages against its abstract
API, the layered cache, and the application that composes the rest. Each safety
property and each refinement that a passing run checks is proved.

Left, as far as the code gives something to check: a run of `Server` with two
users and a fail-closed limiter (the proofs cover both), a second process for
the rate limiter's window (its commands already interleave as those of another
process would), and query building, once the filters a client may send have
been fixed by a schema.
