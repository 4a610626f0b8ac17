------------------------------- MODULE Server -------------------------------
(***************************************************************************)
(* The application as a whole: its lifespan and background tasks, the      *)
(* Redis pools, the middleware pipeline in front of the HTTP endpoints,    *)
(* the messages of WebSocket connections and the router behind them, and   *)
(* what becomes of each call's audit entry (AuditLog, which AuditPipeline  *)
(* implements).  pc[c] is the await a call is in.                          *)
(*                                                                         *)
(* The sliding window is abstracted to the calls it holds (RateLimiter has *)
(* its detail), the handshake and the cleanup of a connection to its being *)
(* open (WsSession), and commands to whether they write (AuthorService).   *)
(***************************************************************************)
EXTENDS Naturals, FiniteSets, Sequences

CONSTANTS Calls,
          Kind,        \* Kind[c]: http or ws
          User,        \* User[c]: whose call it is, and whose connection
          Writes,      \* the operations that change the database
          None,
          Main,        \* MAIN_REDIS_DB
          Auth,        \* AUTH_REDIS_DB
          SessionTask, AuditTask,
          Limit,       \* the calls a window admits, HTTP and messages alike
          FailMode,    \* RATE_LIMIT_FAIL_MODE
          MaxCalls,    \* bound: calls under way or ended
          MaxFaults    \* bound: errors of Redis, the database and handlers

CONSTANTS Tasks, MaxRetries, Dbs, FailMax,
          PkgIDs, Unregistered, Guarded, Validated, Users, Grants

VARIABLES phase, retries, tasks,
          pools, instances, closed, connected, breaker, fails,
          handlers, validators, permissions, defined, imported,
          fate,
          conn,      \* the WebSocket connection of each user
          window,    \* the calls a rate limit key's window holds
          pc,
          op,        \* the operation a call asks for
          res,       \* what the call has come to
          logged,    \* the outcome in its audit entry
          faults,
          streak,    \* ghost: the last Redis commands, all of which failed
          effect,    \* ghost: the calls whose writes are committed
          undone,    \* ghost: the calls whose commit failed after the answer
          doubtful,  \* ghost: the calls whose commit took effect and raised
          held       \* ghost: what the window held when a call was refused

INSTANCE Lifespan
INSTANCE Middlewares
INSTANCE RedisPool
INSTANCE PackageRouter
Trail == INSTANCE AuditLog

poolVars == <<pools, instances, closed, connected, breaker, fails>>
registries == <<handlers, validators, permissions, defined, imported>>
system == <<phase, retries, tasks, registries>>
commits == <<effect, undone, doubtful>>
ghosts == <<streak, commits, held>>
vars == <<phase, retries, tasks, pools, instances, closed, connected, breaker, fails,
          handlers, validators, permissions, defined, imported, fate, conn,
          window, pc, op, res, logged, faults, streak, effect, undone, doubtful,
          held>>

ASSUME CallsAssumption ==
    /\ IsFiniteSet(Calls)
    /\ Kind \in [Calls -> {"http", "ws"}]
    /\ User \in [Calls -> Users]
    /\ Grants \in [Users -> SUBSET PkgIDs]
ASSUME NamesAssumption ==
    /\ {Main, Auth} \subseteq Dbs
    /\ {SessionTask, AuditTask} \subseteq Tasks /\ SessionTask # AuditTask
    /\ Writes \subseteq PkgIDs
    /\ Unregistered \notin PkgIDs /\ None \notin PkgIDs \cup {Unregistered}
\* The handlers that write are registered with roles.
ASSUME RolesAssumption == Writes \subseteq Guarded
ASSUME BoundsAssumption ==
    /\ Limit \in Nat \ {0} /\ FailMode \in {"open", "closed"}
    /\ MaxRetries \in Nat \ {0} /\ FailMax \in Nat \ {0}
    /\ MaxCalls \in Nat /\ MaxFaults \in Nat

\* Mutant: one key for a user's requests and messages.
UserKey(c) == <<"http", User[c]>>
\* user:<name> for requests, ws_msg:user:<name> for messages.
Key(c) == <<Kind[c], User[c]>>

WindowKeys == {"http", "ws"} \X Users
\* "refused" is any other error answer: 401, 403, 404, 409, 413, INVALID_DATA...
Results == {"none", "ok", "limited", "nohandler", "refused", "raised"}

TypeOK ==
    /\ LifespanTypeOK /\ PoolTypeOK /\ RouterTypeOK
    /\ fate \in [Calls -> {"new", "pending", "refused", "stored", "lost"}]
    /\ conn \in [Users -> {"none", "open", "closed", "gone"}]
    /\ window \in [WindowKeys -> SUBSET Calls]
    /\ pc \in [Calls -> {"idle", "count", "record", "serve", "send", "audit",
                         "answer", "commit", "refuse", "close", "done"}]
    /\ op \in [Calls -> PkgIDs \cup {Unregistered, None}]
    /\ res \in [Calls -> Results]
    /\ logged \in [Calls -> {"none", "success", "error"}]
    /\ faults \in 0 .. MaxFaults
    /\ streak \in Nat
    /\ effect \in SUBSET Calls /\ undone \in SUBSET Calls /\ doubtful \in SUBSET Calls
    /\ held \in [Calls -> SUBSET Calls]

Init ==
    /\ LifespanInit /\ PoolInit /\ RouterInit
    /\ Trail!Init
    /\ conn = [u \in Users |-> "none"]
    /\ window = [k \in WindowKeys |-> {}]
    /\ pc = [c \in Calls |-> "idle"]
    /\ op = [c \in Calls |-> None]
    /\ res = [c \in Calls |-> "none"]
    /\ logged = [c \in Calls |-> "none"]
    /\ faults = 0 /\ streak = 0
    /\ effect = {} /\ undone = {} /\ doubtful = {}
    /\ held = [c \in Calls |-> {}]

-----------------------------------------------------------------------------
Goto(c, from, to) == pc[c] = from /\ pc' = [pc EXCEPT ![c] = to]
Result(c, r) == res' = [res EXCEPT ![c] = r]
Fault == faults < MaxFaults /\ faults' = faults + 1
Under(c) == pc[c] \notin {"idle", "done"}

\* Where a request goes that m answers.
AnsweredBy(m) == IF Sees("Audit", m) THEN "audit" ELSE "answer"

calls == <<conn, window, pc, op, res, logged>>

-----------------------------------------------------------------------------
(* Startup and shutdown.                                                   *)

\* application(), run when the module is imported and again by the server's
\* factory: the handlers registered are those of the second time.
Import ==
    /\ DependenciesHold
    /\ Advance("boot", "factory") \/ Advance("factory", "settings")
    /\ Collect
    /\ UNCHANGED <<retries, tasks, poolVars, fate, calls, faults, ghosts>>

StartupStep ==
    /\ \/ /\ \/ ValidateSettings
             \/ ValidateConnection("database", "redis")
             \/ ValidateConnection("redis", "verify")
             \/ Verify(AllRegistered)
             \/ DatabaseNotReady
          /\ UNCHANGED poolVars
       \/ DatabaseReady /\ GetConnection(Auth)
    /\ UNCHANGED <<registries, fate, calls, faults, ghosts>>

\* A task that has slept goes on: the session task subscribes again.
RunTask(t) ==
    /\ TaskRuns(t)
    /\ IF t = SessionTask THEN Reconnect(Auth) ELSE UNCHANGED poolVars
    /\ UNCHANGED <<registries, fate, calls, faults, ghosts>>

\* get_message connects a subscription anew whose connection is closed.
Listen ==
    /\ tasks[SessionTask] = "running"
    /\ Reconnect(Auth)
    /\ UNCHANGED <<system, fate, calls, faults, ghosts>>

FailTask(t) ==
    /\ TaskFails(t) /\ Fault
    /\ UNCHANGED <<poolVars, registries, fate, calls, ghosts>>

\* The server stops taking calls, ends those there are, closes the connections,
\* and resumes the lifespan.  The windows are not read again.
BeginShutdown ==
    /\ \A c \in Calls : ~Under(c)
    /\ Advance("running", "flush")
    /\ conn' = [u \in Users |-> IF conn[u] = "open" THEN "closed" ELSE conn[u]]
    /\ window' = [k \in WindowKeys |-> {}]
    /\ UNCHANGED <<retries, tasks, poolVars, registries, fate, pc, op, res,
                   logged, faults, ghosts>>

Pending == {c \in Calls : fate[c] = "pending"}

\* The worker's batches.
StoreEntries ==
    /\ tasks[AuditTask] = "running"
    /\ \E S \in (SUBSET Pending) \ {{}} : Trail!Become(S, "pending", "stored")
    /\ UNCHANGED <<system, poolVars, calls, faults, ghosts>>

LoseEntries ==
    /\ tasks[AuditTask] = "running" /\ Fault
    /\ \E S \in (SUBSET Pending) \ {{}} : Trail!Become(S, "pending", "lost")
    /\ UNCHANGED <<system, poolVars, calls, ghosts>>

\* flush_audit_queue writes what is in the queue; the rest is the worker's batch.
Flush ==
    /\ Advance("flush", "close")
    /\ \/ /\ \E S \in SUBSET Pending : Trail!Become(S, "pending", "stored")
          /\ UNCHANGED faults
       \/ /\ \E S \in (SUBSET Pending) \ {{}} : Trail!Become(S, "pending", "lost")
          /\ Fault
    /\ UNCHANGED <<retries, tasks, poolVars, registries, calls, ghosts>>

CloseOnePool ==
    /\ phase = "close"
    /\ \E db \in Dbs : ClosePool(db)
    /\ UNCHANGED <<system, fate, calls, faults, ghosts>>

\* No await lies between the last pool and the cancellation of the tasks.  An
\* entry still in the worker's batch is lost.
CancelAll ==
    /\ AllClosed
    /\ CancelTasks
    /\ \/ Trail!Become(Pending, "pending", "lost")
       \/ Pending # {} /\ Trail!Become(Pending, "pending", "stored")
    /\ UNCHANGED <<registries, calls, faults, ghosts>>

GatherTasks ==
    /\ Gather
    /\ UNCHANGED <<poolVars, registries, fate, calls, faults, ghosts>>

-----------------------------------------------------------------------------
(* Connections.                                                            *)

Connect(u) ==
    /\ phase = "running" /\ conn[u] = "none"
    /\ \E c \in Calls : Kind[c] = "ws" /\ User[c] = u
    /\ conn' = [conn EXCEPT ![u] = "open"]
    /\ GetConnection(Auth)
    /\ UNCHANGED <<system, fate, window, pc, op, res, logged, faults, ghosts>>

\* The client leaves, or the session task closes the connection.
Disconnect(u) ==
    /\ phase = "running" /\ conn[u] = "open"
    /\ \/ conn' = [conn EXCEPT ![u] = "gone"]
       \/ tasks[SessionTask] = "running" /\ conn' = [conn EXCEPT ![u] = "closed"]
    /\ UNCHANGED <<system, poolVars, fate, window, pc, op, res, logged, faults, ghosts>>

-----------------------------------------------------------------------------
(* A call arrives.                                                         *)

Begin(c, kind, to) ==
    /\ Kind[c] = kind /\ phase = "running"
    /\ Cardinality({d \in Calls : pc[d] # "idle"}) < MaxCalls
    /\ Goto(c, "idle", to)
    /\ UNCHANGED <<system, fate, conn, window, op, logged, commits, held>>

\* AuthenticationMiddleware: a missing or invalid token is answered at once.
Request(c) ==
    /\ \/ Begin(c, "http", "count") /\ UNCHANGED res
       \/ Begin(c, "http", AnsweredBy("Authentication")) /\ Result(c, "refused")
    /\ UNCHANGED <<poolVars, faults, streak>>

\* The messages of a connection are handled one after the other.
ReceiveMessage(c) ==
    /\ conn[User[c]] = "open"
    /\ \A d \in Calls : Kind[d] = "ws" /\ User[d] = User[c] => ~Under(d)
    /\ Begin(c, "ws", "count")
    /\ UNCHANGED <<poolVars, res, faults, streak>>

\* /health is an excluded path: no user, no limit and no audit entry.
HealthCheck ==
    /\ phase = "running"
    /\ GetConnection(Main)
    /\ \/ streak' = 0 /\ UNCHANGED faults
       \/ streak' = streak + 1 /\ Fault
    /\ UNCHANGED <<system, fate, calls, commits, held>>

-----------------------------------------------------------------------------
(* The rate limit, of requests and of messages.                            *)

Refused(c) == /\ pc' = [pc EXCEPT ![c] = IF Kind[c] = "ws" THEN "refuse"
                                         ELSE AnsweredBy("RateLimit")]
              /\ Result(c, "limited")

\* check_rate_limit reads the size of the window; the call is added later.
CountWindow(c) ==
    /\ pc[c] = "count"
    /\ GetConnection(Main)
    /\ streak' = 0
    /\ \/ /\ Cardinality(window[Key(c)]) >= Limit
          /\ Refused(c)
          /\ held' = [held EXCEPT ![c] = window[Key(c)]]
       \/ /\ Cardinality(window[Key(c)]) < Limit
          /\ Goto(c, "count", "record")
          /\ UNCHANGED <<res, held>>
    /\ UNCHANGED <<system, fate, conn, window, op, logged, faults, commits>>

AddToWindow(c) ==
    /\ Goto(c, "record", "serve")
    /\ window' = [window EXCEPT ![Key(c)] = @ \cup {c}]
    /\ streak' = 0
    /\ UNCHANGED <<system, poolVars, fate, conn, op, res, logged, faults, commits, held>>

\* A Redis error lets the call pass, unless RATE_LIMIT_FAIL_MODE is "closed".
LimiterFails(c) ==
    /\ pc[c] \in {"count", "record"}
    /\ IF FailMode = "closed" THEN Refused(c) ELSE Goto(c, pc[c], "serve") /\ UNCHANGED res
    /\ GetConnection(Main)
    /\ streak' = streak + 1
    /\ Fault
    /\ UNCHANGED <<system, fate, conn, window, op, logged, commits, held>>

WindowOver(k) ==
    /\ phase = "running" /\ window[k] # {}
    /\ window' = [window EXCEPT ![k] = {}]
    /\ UNCHANGED <<system, poolVars, fate, conn, pc, op, res, logged, faults, ghosts>>

\* on_receive closes the connection of a refused message.  If that raises, the
\* handler that fails open takes it for an error of the limiter.
CloseRefused(c) ==
    /\ IF conn[User[c]] = "open" THEN Goto(c, "refuse", "done") ELSE Goto(c, "refuse", "serve")
    /\ conn' = [conn EXCEPT ![User[c]] = IF @ = "open" THEN "closed" ELSE @]
    /\ UNCHANGED <<system, poolVars, fate, window, op, res, logged, faults, ghosts>>

-----------------------------------------------------------------------------
(* The endpoint, or the handler of the message.                            *)

Serving(c, p, to, r) ==
    /\ Goto(c, "serve", to)
    /\ op' = [op EXCEPT ![c] = p]
    /\ Result(c, r)

\* The declared body is too large.
RejectSize(c) == Serving(c, None, AnsweredBy("RequestSizeLimit"), "refused")

\* require_roles
Forbid(c) == Grants[User[c]] # PkgIDs /\ Serving(c, None, AnsweredBy("Endpoint"), "refused")

\* handle_http_errors makes an answer of an error; the session of get_session
\* commits a write once the response is out.
Endpoint(c) ==
    /\ Kind[c] = "http" /\ pc[c] = "serve"
    /\ \/ RejectSize(c)
       \/ Forbid(c)
       \/ \E p \in Grants[User[c]] : Serving(c, p, AnsweredBy("Endpoint"), "ok")
       \/ Serving(c, None, AnsweredBy("Endpoint"), "refused")
    /\ UNCHANGED <<system, poolVars, fate, conn, window, logged, faults, ghosts>>

Undecodable(c) == Serving(c, None, "audit", "raised")

\* The handlers that write commit before they return.
Route(c) ==
    \E p \in PkgIDs \cup {Unregistered}, valid \in BOOLEAN :
        LET r == Dispatch(User[c], p, valid) IN
        \/ /\ r = "handler" /\ Serving(c, p, "send", "ok")
           /\ effect' = IF p \in Writes THEN effect \cup {c} ELSE effect
        \/ r = "nohandler" /\ Serving(c, p, "send", r) /\ UNCHANGED effect
        \/ r # "nohandler" /\ Serving(c, None, "send", "refused") /\ UNCHANGED effect

HandleMessage(c) ==
    /\ Kind[c] = "ws" /\ pc[c] = "serve"
    /\ \/ Route(c)
       \/ Undecodable(c) /\ UNCHANGED effect
    /\ UNCHANGED <<system, poolVars, fate, conn, window, logged, faults, streak,
                   undone, doubtful, held>>

\* The COMMIT takes effect and its acknowledgement is lost.
CommitRaises(c) ==
    /\ effect' = effect \cup {c}
    /\ doubtful' = doubtful \cup {c}
    /\ Fault

\* handle_ws_errors makes an error answer of it.
HandlerInDoubt(c) ==
    /\ Kind[c] = "ws" /\ pc[c] = "serve"
    /\ \E p \in Writes : /\ Dispatch(User[c], p, TRUE) = "handler"
                         /\ Serving(c, p, "send", "refused")
    /\ CommitRaises(c)
    /\ UNCHANGED <<system, poolVars, fate, conn, window, logged, streak, undone, held>>

\* Anything else a handler or an endpoint raises.
HandlerRaises(c) ==
    /\ Serving(c, None, "audit", "raised")
    /\ Fault
    /\ UNCHANGED <<system, poolVars, fate, conn, window, logged, ghosts>>

\* A closed connection raises RuntimeError, which ends on_receive; a client
\* that has gone, WebSocketDisconnect, which counts as an unexpected error.
SendResponse(c) ==
    /\ pc[c] = "send"
    /\ \/ conn[User[c]] = "open" /\ Goto(c, "send", "audit") /\ UNCHANGED res
       \/ conn[User[c]] = "closed" /\ Goto(c, "send", "done") /\ UNCHANGED res
       \/ conn[User[c]] = "gone" /\ Goto(c, "send", "audit") /\ Result(c, "raised")
    /\ UNCHANGED <<system, poolVars, fate, conn, window, op, logged, faults, ghosts>>

-----------------------------------------------------------------------------
(* The audit entry, the answer and the commit.                             *)

\* Mutant: the entry says that the call has come this far.
OutcomeByArrival(c) == "success"
Outcome(c) == IF res[c] = "ok" THEN "success" ELSE "error"

AfterAudit(c) == IF Kind[c] = "http" THEN "answer"
                 ELSE IF res[c] = "raised" THEN "close" ELSE "done"

\* log_user_action: the entry is queued, or the queue is full and it is dropped.
WriteAudit(c) ==
    /\ Goto(c, "audit", AfterAudit(c))
    /\ \/ Trail!Become({c}, "new", "pending")
       \/ Trail!Become({c}, "new", "refused")
    /\ logged' = [logged EXCEPT ![c] = Outcome(c)]
    /\ UNCHANGED <<system, poolVars, conn, window, op, res, faults, ghosts>>

\* The connection of a message that raised is closed; when it is not open that
\* raises in turn and ends the endpoint.
CloseAfterError(c) ==
    /\ Goto(c, "close", "done")
    /\ conn' = [conn EXCEPT ![User[c]] = IF @ = "open" THEN "closed" ELSE @]
    /\ UNCHANGED <<system, poolVars, fate, window, op, res, logged, faults, ghosts>>

Answer(c) ==
    /\ Goto(c, "answer", IF res[c] = "ok" /\ op[c] \in Writes THEN "commit" ELSE "done")
    /\ UNCHANGED <<system, poolVars, fate, conn, window, op, res, logged, faults, ghosts>>

\* A COMMIT that raises may have taken effect.
CommitSession(c) ==
    /\ Goto(c, "commit", "done")
    /\ \/ effect' = effect \cup {c} /\ UNCHANGED <<undone, doubtful, faults>>
       \/ undone' = undone \cup {c} /\ Fault /\ UNCHANGED <<effect, doubtful>>
       \/ CommitRaises(c) /\ UNCHANGED undone
    /\ UNCHANGED <<system, poolVars, fate, conn, window, op, res, logged, streak, held>>

-----------------------------------------------------------------------------
Serve(c) ==
    \/ CountWindow(c) \/ AddToWindow(c) \/ CloseRefused(c)
    \/ Endpoint(c) \/ HandleMessage(c) \/ SendResponse(c) \/ WriteAudit(c)
    \/ CloseAfterError(c) \/ Answer(c) \/ CommitSession(c)

LifespanStep == \/ Import \/ StartupStep \/ Flush \/ CloseOnePool \/ CancelAll \/ GatherTasks

Next ==
    \/ LifespanStep \/ BeginShutdown \/ HealthCheck
    \/ StoreEntries \/ LoseEntries
    \/ \E t \in Tasks : RunTask(t) \/ FailTask(t)
    \/ Listen
    \/ \E u \in Users : Connect(u) \/ Disconnect(u)
    \/ \E c \in Calls :
          \/ Request(c) \/ ReceiveMessage(c)
          \/ Serve(c) \/ LimiterFails(c) \/ HandlerRaises(c) \/ HandlerInDoubt(c)
    \/ \E k \in WindowKeys : WindowOver(k)

\* Every await ends.  Calls need not come, and the server need not be stopped.
Fairness ==
    /\ WF_vars(LifespanStep)
    /\ \A c \in Calls : WF_vars(Serve(c))

Spec == Init /\ [][Next]_vars /\ Fairness

-----------------------------------------------------------------------------
(* Properties.                                                             *)

\* A call is refused for the limit only on account of as many calls of the same
\* user and of the same protocol, never of another's traffic; and once the
\* server runs, "no handler" is said of the unregistered package id only.
RefusalsJustified ==
    \A c \in Calls :
        /\ res[c] = "limited" /\ FailMode = "open" =>
              /\ Cardinality(held[c]) >= Limit
              /\ \A d \in held[c] : User[d] = User[c] /\ Kind[d] = Kind[c]
        /\ res[c] = "nohandler" => op[c] = Unregistered

\* A call that changes the database was made by a user with the role for it,
\* whichever protocol and however often the handlers were loaded; and it was
\* not over the limit, except as a message of a connection closed or gone since.
EffectsAdmitted ==
    \A c \in effect :
        /\ op[c] \in Grants[User[c]] \cap Writes
        /\ held[c] # {} => Kind[c] = "ws" /\ conn[User[c]] # "open"

\* The audit trail agrees with the database once a call has ended: a change
\* without an entry is that of a message whose connection was closed before the
\* response; one entered as an error is that of a message whose client had gone
\* by then, or whose commit took effect and raised; and a success is an operation
\* that reads, or its change is there, or it is a request whose commit failed
\* after the answer.
TrailAccounted ==
    \A c \in Calls : pc[c] = "done" =>
        /\ c \in effect /\ logged[c] = "none" => Kind[c] = "ws" /\ conn[User[c]] = "closed"
        /\ c \in effect /\ logged[c] = "error" =>
              Kind[c] = "ws" /\ (conn[User[c]] = "gone" \/ c \in doubtful)
        /\ logged[c] = "success" /\ c \notin effect => c \in undone \/ op[c] \in PkgIDs \ Writes
        /\ logged[c] # "none" <=> fate[c] # "new"

\* However the shutdown meets the tasks, the pools and the entries of the audit
\* worker, at its end no pool or client is left, nor a connection but one that
\* the session task has opened again after its pool was closed; every task has
\* ended, and no audit entry is waiting for a worker that is no longer there.
ShutdownComplete ==
    phase = "done" => /\ pools = {} /\ instances = {} /\ connected \subseteq {Auth}
                      /\ \A t \in Tasks : tasks[t] = "ended"
                      /\ Pending = {}

\* The startup is decided; a shutdown that has begun ends, whatever state the
\* tasks are in and whatever they do meanwhile; and every call ends.
LifecycleEnds ==
    /\ phase \in Startup ~> phase \notin Startup
    /\ phase \in Shutdown ~> phase = "done"
    /\ \A c \in Calls : Under(c) ~> ~Under(c)

\* storage/redis.py:251, get_redis_connection "Protected by circuit breaker
\* pattern to prevent cascading failures when Redis is unavailable": after
\* FailMax failed commands in a row the breaker is open.
BreakerOpens == streak >= FailMax => breaker = "open"
=============================================================================
