----------------------------- MODULE WsSession -----------------------------
(***************************************************************************)
(* The WebSocket session subsystem of one server process: the endpoint     *)
(* coroutine of every connection (api/ws/websocket.py), the connection     *)
(* manager, the connection limiter and the session keys in Redis, the      *)
(* background task that reacts to expired session keys                     *)
(* (tasks/kc_user_session.py), and broadcasts.                             *)
(*                                                                         *)
(* The code is asyncio: a coroutine runs without interruption from one     *)
(* await to the next, so an action is the code from the return of one      *)
(* await up to the next, and pc[c] names the await connection c is in.     *)
(***************************************************************************)
EXTENDS Naturals, FiniteSets, Sequences

CONSTANTS Users,          \* the users; each has one session key
          Conns,          \* the connections
          None,
          MaxConnections, \* WS_MAX_CONNECTIONS_PER_USER
          MaxFaults,      \* Redis commands that fail
          MaxCrashes,     \* deaths of the server process
          MaxBroadcasts,  \* calls of broadcast()
          MaxExpiries,    \* session keys that Redis expires
          SlotsMayExpire, \* whether a connection may outlive the limiter's hour
          Reconnects      \* whether a client comes back after its connection

VARIABLES connections, slots, slotsTTL,
          pc,       \* the await each connection's dispatch() is in
          user,     \* self.user: None until the token is decoded
          session_key, \* self.session_key: None until connect()
          sock,     \* the socket as the server's sends see it
          session,  \* the key session:<user> in Redis
          events,   \* expired-key messages the task's pub/sub has buffered
          task,     \* kc_user_session_task
          bcast,    \* safe_send coroutines of broadcasts under way
          used      \* how much of each bound has been consumed

\* History, read by the properties only.
VARIABLES peak,     \* the most connections of a user ever between SCARD and SADD
          past      \* the users who have come back after a registered connection

limiterVars == <<slots, slotsTTL>>
selfVars == <<user, session_key>>
endpointVars == <<pc, user, session_key, sock>>
redisVars == <<session, events>>
history == <<peak, past>>
vars == <<pc, user, session_key, sock, session, events, task, bcast, used,
          connections, slots, slotsTTL, peak, past>>

INSTANCE ConnectionManager
INSTANCE ConnectionLimiter

ASSUME NoneAssumption == None \notin Conns /\ None \notin Users
ASSUME MaxConnectionsAssumption == MaxConnections \in Nat \ {0}
ASSUME BoundsAssumption ==
    /\ MaxFaults \in Nat /\ MaxCrashes \in Nat
    /\ MaxBroadcasts \in Nat /\ MaxExpiries \in Nat
    /\ SlotsMayExpire \in BOOLEAN /\ Reconnects \in BOOLEAN

\* The awaits of dispatch(), in the order it reaches them.
Handshake == {"upgrade", "auth", "token"}
Admission == {"scard", "sadd", "expire"}
Setup     == {"set", "pexpire", "auth_ok"}
Loop      == {"open", "handling"}
\* How dispatch() ends: cleanly; with on_disconnect run but its SREM failed;
\* by an exception that skips on_disconnect; with the process.
Ended     == {"done", "unreleased", "failed", "killed"}
PcStates == Handshake \cup Admission \cup Setup \cup Loop \cup {"release"}
              \cup Ended

\* The task at an await that concerns no key.
TaskAt(where) == [at |-> where, key |-> None]

HistoryTypeOK == peak \in [Users -> Nat] /\ past \subseteq Users

TypeOK ==
    /\ pc \in [Conns -> PcStates]
    /\ user \in [Conns -> Users \cup {None}]
    /\ session_key \in [Conns -> Users \cup {None}]
    /\ sock \in [Conns -> {"new", "open", "closed", "gone"}]
    /\ session \in [Users -> {"absent", "lasting", "expiring"}]
    /\ events \in Seq(Users)
    /\ task \in [at : {"subscribe", "poll", "close", "dead"}, key : Users \cup {None}]
    /\ bcast \in SUBSET (Users \X Conns)
    /\ used \in [{"faults", "crashes", "broadcasts", "expiries"} -> Nat]
    /\ RegistryTypeOK
    /\ LimiterTypeOK
    /\ HistoryTypeOK

Init ==
    /\ pc = [c \in Conns |-> "upgrade"]
    /\ user = [c \in Conns |-> None]
    /\ session_key = [c \in Conns |-> None]
    /\ sock = [c \in Conns |-> "new"]
    /\ session = [u \in Users |-> "absent"]
    /\ events = <<>>
    /\ task = TaskAt("subscribe")
    /\ bcast = {}
    /\ used = [faults |-> 0, crashes |-> 0, broadcasts |-> 0, expiries |-> 0]
    /\ RegistryInit
    /\ LimiterInit
    /\ peak = [u \in Users |-> 0]
    /\ past = {}

-----------------------------------------------------------------------------
(* Shared by the actions.                                                  *)

Goto(c, from, to) == pc[c] \in from /\ pc' = [pc EXCEPT ![c] = to]

\* One more use of a bounded environment event.
Spend(kind, max) == used[kind] < max /\ used' = [used EXCEPT ![kind] = @ + 1]
Fault == Spend("faults", MaxFaults)

\* A close() by the server, and a connection whose transport is gone.
CloseSock(c) == sock' = [sock EXCEPT ![c] = "closed"]
DropSock(c) == sock' = [sock EXCEPT ![c] = "gone"]

\* An exception leaves dispatch() before its try block: the ASGI server drops
\* the transport and on_disconnect does not run.
Escape(c, from) == Goto(c, from, "failed") /\ DropSock(c)

-----------------------------------------------------------------------------
(* on_connect and on_first_message                                         *)

\* super().on_connect accepts the upgrade.
OnConnect(c) ==
    /\ Goto(c, {"upgrade"}, "auth")
    /\ sock' = [sock EXCEPT ![c] = "open"]
    /\ UNCHANGED <<selfVars, redisVars, task, bcast, used, connections,
                   limiterVars, history>>

\* An origin that is not allowed: on_connect closes and returns, dispatch goes
\* on to on_first_message, and on_disconnect then reads the self.user that was
\* never assigned.
RejectOrigin(c) ==
    /\ Escape(c, {"upgrade"})
    /\ UNCHANGED <<selfVars, redisVars, task, bcast, used, connections,
                   limiterVars, history>>

\* The first frame is {"type": "auth", "token": "Bearer ..."}.
ReceiveAuthFrame(c) ==
    /\ Goto(c, {"auth"}, "token")
    /\ UNCHANGED <<selfVars, sock, redisVars, task, bcast, used, connections,
                   limiterVars, history>>

\* Mutant: the first frame is awaited without AUTH_TIMEOUT.
RefuseWithoutTimeout(c) ==
    /\ sock[c] # "open"
    /\ Goto(c, {"auth"}, "done")
    /\ CloseSock(c)
    /\ UNCHANGED <<selfVars, redisVars, task, bcast, used, connections,
                   limiterVars, history>>

\* AUTH_TIMEOUT, a disconnect, or a frame that is not an auth frame:
\* on_first_message returns False with self.user unauthenticated, so
\* on_disconnect has nothing to give back.
RefuseFirstFrame(c) ==
    /\ Goto(c, {"auth"}, "done")
    /\ CloseSock(c)
    /\ UNCHANGED <<selfVars, redisVars, task, bcast, used, connections,
                   limiterVars, history>>

\* A frame that is JSON but not an object: frame.get raises AttributeError.
FirstFrameNotObject(c) ==
    /\ Escape(c, {"auth"})
    /\ UNCHANGED <<selfVars, redisVars, task, bcast, used, connections,
                   limiterVars, history>>

\* decode_token succeeds: self.user and self.connection_id are assigned.
TokenValid(c, u) ==
    /\ Goto(c, {"token"}, "scard")
    /\ user' = [user EXCEPT ![c] = u]
    /\ UNCHANGED <<session_key, sock, redisVars, task, bcast, used, connections,
                   limiterVars, history>>

TokenInvalid(c) ==
    /\ Goto(c, {"token"}, "done")
    /\ CloseSock(c)
    /\ UNCHANGED <<selfVars, redisVars, task, bcast, used, connections,
                   limiterVars, history>>

-----------------------------------------------------------------------------
(* _post_auth_setup: connection_limiter.add_connection                     *)

\* The connections of u that have passed the check and not yet taken a slot.
Racing(u) == {c \in Conns : pc[c] = "sadd" /\ user[c] = u}

\* One more of u between SCARD and SADD.
Crowd(u) == peak' = [peak EXCEPT ![u] =
                       IF Cardinality(Racing(u)) >= @ THEN @ + 1 ELSE @]

\* The reply of SCARD decides; the connection is not yet in the set.  A refused
\* connection is closed and dispatch() runs on_disconnect: there is no
\* session_key, and as self.user is set it awaits remove_connection.
CheckLimit(c) ==
    /\ \/ /\ Goto(c, {"scard"}, "release") /\ AtLimit(user[c])
          /\ CloseSock(c) /\ UNCHANGED peak
       \/ /\ Goto(c, {"scard"}, "sadd") /\ ~AtLimit(user[c])
          /\ UNCHANGED sock /\ Crowd(user[c])
    /\ UNCHANGED <<selfVars, redisVars, task, bcast, used, connections,
                   limiterVars, past>>

TakeSlot(c) ==
    /\ Goto(c, {"sadd"}, "expire")
    /\ Sadd(user[c], c)
    /\ UNCHANGED <<selfVars, sock, redisVars, task, bcast, used, connections,
                   history>>

SetSlotExpiry(c) ==
    /\ Goto(c, {"expire"}, "set")
    /\ ExpireSlots(user[c])
    /\ UNCHANGED <<selfVars, sock, redisVars, task, bcast, used, connections,
                   history>>

\* redis_safe turns an error of any of the three commands into False.  The
\* command that failed may or may not have been executed by the server.
AdmissionError(c) ==
    /\ Goto(c, Admission, "release")
    /\ CloseSock(c)
    /\ Fault
    /\ \/ UNCHANGED limiterVars
       \/ pc[c] = "sadd" /\ Sadd(user[c], c)
       \/ pc[c] = "expire" /\ ExpireSlots(user[c])
    /\ UNCHANGED <<selfVars, redisVars, task, bcast, connections, history>>

-----------------------------------------------------------------------------
(* _post_auth_setup: add_kc_user_session, connect, auth_ok                 *)

\* SET session:<user> removes the expiry the key may have had.
SetSession(c) ==
    /\ Goto(c, {"set"}, "pexpire")
    /\ session' = [session EXCEPT ![user[c]] = "lasting"]
    /\ UNCHANGED <<selfVars, sock, events, task, bcast, used, connections,
                   limiterVars, history>>

\* Mutant: the session key is set without its PEXPIRE.
SetSessionWithoutExpiry(c) ==
    /\ Goto(c, {"pexpire"}, "auth_ok")
    /\ session_key' = [session_key EXCEPT ![c] = user[c]]
    /\ Connect(user[c], c)
    /\ UNCHANGED <<user, sock, redisVars, task, bcast, used, limiterVars,
                   history>>

\* PEXPIRE returns; session_key is assigned and the connection registered
\* before the next await, the send of auth_ok.
SetSessionExpiry(c) ==
    /\ Goto(c, {"pexpire"}, "auth_ok")
    /\ session' = [session EXCEPT ![user[c]] =
                     IF @ = "absent" THEN "absent" ELSE "expiring"]
    /\ session_key' = [session_key EXCEPT ![c] = user[c]]
    /\ Connect(user[c], c)
    /\ UNCHANGED <<user, sock, events, task, bcast, used, limiterVars, history>>

\* add_kc_user_session raises: nothing between it and the ASGI server catches
\* the exception.
SessionError(c) ==
    /\ Escape(c, {"set", "pexpire"})
    /\ Fault
    /\ \/ UNCHANGED session
       \/ pc[c] = "set" /\ session' = [session EXCEPT ![user[c]] = "lasting"]
       \/ pc[c] = "pexpire" /\ session[user[c]] # "absent"
            /\ session' = [session EXCEPT ![user[c]] = "expiring"]
    /\ UNCHANGED <<selfVars, events, task, bcast, connections, limiterVars,
                   history>>

SendAuthOk(c) ==
    /\ Goto(c, {"auth_ok"}, "open")
    /\ sock[c] = "open"
    /\ UNCHANGED <<selfVars, sock, redisVars, task, bcast, used, connections,
                   limiterVars, history>>

\* send_text raises when the client has gone or the socket has been closed.
SendAuthOkFails(c) ==
    /\ sock[c] # "open"
    /\ Escape(c, {"auth_ok"})
    /\ UNCHANGED <<selfVars, redisVars, task, bcast, used, connections,
                   limiterVars, history>>

-----------------------------------------------------------------------------
(* dispatch: the message loop, and on_disconnect in its finally clause     *)

ReceiveMessage(c) ==
    /\ Goto(c, {"open"}, "handling")
    /\ UNCHANGED <<selfVars, sock, redisVars, task, bcast, used, connections,
                   limiterVars, history>>

\* on_receive returns: the response was sent, or sending it failed on a socket
\* that the server had closed.
MessageHandled(c) ==
    /\ Goto(c, {"handling"}, "open")
    /\ sock[c] # "gone"
    /\ UNCHANGED <<selfVars, sock, redisVars, task, bcast, used, connections,
                   limiterVars, history>>

\* on_receive closes the socket: rate limit, invalid message, handler error.
\* The loop goes on to wait for the disconnect message.
MessageCloses(c) ==
    /\ Goto(c, {"handling"}, "open")
    /\ sock[c] = "open"
    /\ CloseSock(c)
    /\ UNCHANGED <<selfVars, redisVars, task, bcast, used, connections,
                   limiterVars, history>>

\* The send of the response finds the client gone: Starlette marks the socket
\* closed, and on_receive awaits the audit log before its own close() raises.
ResponseFails(c) ==
    /\ pc[c] = "handling" /\ sock[c] = "gone"
    /\ CloseSock(c)
    /\ UNCHANGED <<pc, selfVars, redisVars, task, bcast, used, connections,
                   limiterVars, history>>

\* Mutant: on_disconnect releases the slot and leaves the registry entry.
LeaveLoopRegistered(c, from) ==
    /\ Goto(c, {from}, "release")
    /\ UNCHANGED <<selfVars, sock, redisVars, task, bcast, used, connections,
                   limiterVars, history>>

\* on_disconnect, in the finally clause: the user's registry entry goes before
\* remove_connection is awaited.
LeaveLoop(c, from) ==
    /\ Goto(c, {from}, "release")
    /\ Disconnect(session_key[c])
    /\ UNCHANGED <<selfVars, sock, redisVars, task, bcast, used, limiterVars,
                   history>>

\* The loop receives the disconnect message.
Disconnected(c) == sock[c] # "open" /\ LeaveLoop(c, "open")

\* A frame that decode() cannot parse.
FrameUndecodable(c) == sock[c] = "open" /\ LeaveLoop(c, "open")

\* close() of on_receive raises on a socket that is closed already.
CloseRaises(c) == sock[c] = "closed" /\ LeaveLoop(c, "handling")

\* Mutant: on_disconnect without remove_connection.
EndWithoutRelease(c) ==
    /\ Goto(c, {"release"}, "done")
    /\ DropSock(c)
    /\ UNCHANGED <<selfVars, redisVars, task, bcast, used, connections,
                   limiterVars, history>>

\* on_disconnect returns, and with dispatch() ended the transport is dropped.
RemoveConnection(c) ==
    /\ Goto(c, {"release"}, "done")
    /\ Srem(user[c], c)
    /\ DropSock(c)
    /\ UNCHANGED <<selfVars, redisVars, task, bcast, used, connections,
                   history>>

\* redis_safe swallows the error of remove_connection.
RemoveConnectionError(c) ==
    /\ Goto(c, {"release"}, "unreleased")
    /\ Fault
    /\ UNCHANGED limiterVars \/ Srem(user[c], c)
    /\ DropSock(c)
    /\ UNCHANGED <<selfVars, redisVars, task, bcast, connections, history>>

-----------------------------------------------------------------------------
(* kc_user_session_task                                                    *)

Subscribe ==
    /\ task.at = "subscribe"
    /\ task' = TaskAt("poll")
    /\ UNCHANGED <<endpointVars, redisVars, bcast, used, connections,
                   limiterVars, history>>

\* An expired key nobody is registered under.
EventWithoutConnection ==
    /\ task.at = "poll" /\ events # <<>>
    /\ GetConnection(Head(events)) = None
    /\ events' = Tail(events)
    /\ UNCHANGED <<endpointVars, session, task, bcast, used, connections,
                   limiterVars, history>>

\* Mutant: the task forgets the connection and does not close it.
EventForgetsConnection ==
    /\ task.at = "poll" /\ events # <<>>
    /\ GetConnection(Head(events)) # None
    /\ events' = Tail(events)
    /\ task' = [at |-> "close", key |-> Head(events)]
    /\ UNCHANGED <<endpointVars, session, bcast, used, connections, limiterVars,
                   history>>

\* The await of ws_conn.close() begins; Starlette marks the socket closed.
EventClosesConnection ==
    LET u == Head(events)
        c == GetConnection(u)
    IN  /\ task.at = "poll" /\ events # <<>> /\ c # None
        /\ sock[c] # "closed"
        /\ events' = Tail(events)
        /\ task' = [at |-> "close", key |-> u]
        /\ CloseSock(c)
        /\ UNCHANGED <<pc, selfVars, session, bcast, used, connections,
                       limiterVars, history>>

\* close() on a socket the server has closed raises RuntimeError, and on one
\* whose client has gone it may raise; no except clause of the task names
\* these, so the task ends and nothing restarts it.
EventKillsTask ==
    /\ task.at = "poll" /\ events # <<>>
    /\ GetConnection(Head(events)) # None
    /\ sock[GetConnection(Head(events))] \in {"closed", "gone"}
    /\ events' = <<>>
    /\ task' = TaskAt("dead")
    /\ UNCHANGED <<endpointVars, session, bcast, used, connections, limiterVars,
                   history>>

\* close() returned: the entry now under the key is popped.
ForgetExpired ==
    /\ task.at = "close"
    /\ Disconnect(task.key)
    /\ task' = TaskAt("poll")
    /\ UNCHANGED <<endpointVars, redisVars, bcast, used, limiterVars, history>>

\* A Redis error drops the subscription and what it had buffered.
TaskRedisError ==
    /\ task.at = "poll"
    /\ Fault
    /\ task' = TaskAt("subscribe")
    /\ events' = <<>>
    /\ UNCHANGED <<endpointVars, session, bcast, connections, limiterVars,
                   history>>

-----------------------------------------------------------------------------
(* broadcast                                                               *)

Broadcast ==
    /\ Snapshot # {}
    /\ Spend("broadcasts", MaxBroadcasts)
    /\ bcast' = bcast \cup Snapshot
    /\ UNCHANGED <<endpointVars, redisVars, task, connections, limiterVars,
                   history>>

\* Mutant: any error of a send, a transient one too, removes the entry.
SafeSendRemovesOnError(u, c) ==
    /\ <<u, c>> \in bcast
    /\ bcast' = bcast \ {<<u, c>>}
    /\ UNCHANGED sock
    /\ (sock[c] = "open" /\ UNCHANGED connections) \/ Disconnect(u)
    /\ UNCHANGED <<pc, selfVars, redisVars, task, used, limiterVars, history>>

\* safe_send: sent, or skipped on a transient error; a dead socket removes the
\* entry of the snapshot's key.
SafeSend(u, c) ==
    /\ <<u, c>> \in bcast
    /\ bcast' = bcast \ {<<u, c>>}
    /\ \/ sock[c] = "open" /\ UNCHANGED <<sock, connections>>
       \/ sock[c] # "open" /\ CloseSock(c) /\ Disconnect(u)
    /\ UNCHANGED <<pc, selfVars, redisVars, task, used, limiterVars, history>>

-----------------------------------------------------------------------------
(* The clients, Redis and the process                                      *)

ClientLeaves(c) ==
    /\ sock[c] = "open"
    /\ DropSock(c)
    /\ UNCHANGED <<pc, selfVars, redisVars, task, bcast, used, connections,
                   limiterVars, history>>

\* The client of a connection that has ended opens another: a new endpoint, with
\* nothing decoded and nothing registered.  It is modelled under the identity of
\* the old one once no coroutine refers to that any more.
Reconnect(c) ==
    /\ Reconnects
    /\ Goto(c, {"done"}, "upgrade")
    /\ \A u \in Users : <<u, c>> \notin bcast
    /\ task.at = "close" => task.key # session_key[c]
    /\ past' = past \cup ({session_key[c]} \ {None})
    /\ user' = [user EXCEPT ![c] = None]
    /\ session_key' = [session_key EXCEPT ![c] = None]
    /\ sock' = [sock EXCEPT ![c] = "new"]
    /\ UNCHANGED <<redisVars, task, bcast, used, connections, limiterVars, peak>>

\* Redis deletes an expired session key and publishes the event; it reaches
\* the task only while the task is subscribed.
SessionExpires(u) ==
    /\ session[u] = "expiring"
    /\ Spend("expiries", MaxExpiries)
    /\ session' = [session EXCEPT ![u] = "absent"]
    /\ events' = IF task.at \in {"poll", "close"} THEN Append(events, u) ELSE events
    /\ UNCHANGED <<endpointVars, task, bcast, connections, limiterVars,
                   history>>

LimiterHourOver(u) ==
    /\ SlotsMayExpire
    /\ SlotsExpired(u)
    /\ UNCHANGED <<endpointVars, redisVars, task, bcast, used, connections,
                   history>>

\* The process dies and is started again: memory is lost, Redis is not.
Crash ==
    /\ Spend("crashes", MaxCrashes)
    /\ pc' = [c \in Conns |-> IF pc[c] \in Ended \cup {"upgrade"} THEN pc[c]
                                                             ELSE "killed"]
    /\ sock' = [c \in Conns |-> IF pc[c] = "upgrade" THEN "new" ELSE "gone"]
    /\ connections' = [u \in Users |-> None]
    /\ task' = TaskAt("subscribe")
    /\ events' = <<>>
    /\ bcast' = {}
    /\ UNCHANGED <<selfVars, session, limiterVars, history>>

-----------------------------------------------------------------------------

\* What the server owes a connection: every await returns, by a timeout if by
\* nothing else.
ServerStep(c) ==
    \/ RefuseFirstFrame(c)
    \/ (\E u \in Users : TokenValid(c, u)) \/ TokenInvalid(c)
    \/ CheckLimit(c) \/ TakeSlot(c) \/ SetSlotExpiry(c) \/ AdmissionError(c)
    \/ SetSession(c) \/ SetSessionExpiry(c) \/ SessionError(c)
    \/ SendAuthOk(c) \/ SendAuthOkFails(c)
    \/ MessageHandled(c) \/ MessageCloses(c) \/ ResponseFails(c)
    \/ Disconnected(c) \/ CloseRaises(c)
    \/ RemoveConnection(c) \/ RemoveConnectionError(c)

\* What depends on the client.
ClientStep(c) ==
    \/ OnConnect(c) \/ RejectOrigin(c) \/ ReceiveAuthFrame(c)
    \/ FirstFrameNotObject(c) \/ ReceiveMessage(c) \/ FrameUndecodable(c)
    \/ ClientLeaves(c) \/ Reconnect(c)

TaskStep == \/ Subscribe \/ EventWithoutConnection \/ EventClosesConnection
            \/ EventKillsTask \/ ForgetExpired \/ TaskRedisError

BroadcastStep == Broadcast \/ \E u \in Users, c \in Conns : SafeSend(u, c)

RedisStep == \E u \in Users : SessionExpires(u) \/ LimiterHourOver(u)

Next == \/ \E c \in Conns : ServerStep(c) \/ ClientStep(c)
        \/ TaskStep
        \/ BroadcastStep
        \/ RedisStep
        \/ Crash

Spec == Init /\ [][Next]_vars

\* The EXPIRE of a new connection starts the hour of the user's set again.
RenewHour(u) == \E c \in Conns : user[c] = u /\ SetSlotExpiry(c)

\* The event loop runs every coroutine that can run; a client that has gone or
\* been closed has only so many frames left to receive; and Redis deletes a set
\* whose hour passes without a renewal.  Clients owe nothing.
Fairness ==
    /\ \A c \in Conns : WF_vars(ServerStep(c)) /\ SF_vars(Disconnected(c))
    /\ WF_vars(TaskStep)
    /\ \A u \in Users : WF_vars(LimiterHourOver(u)) \/ []<><<RenewHour(u)>>_vars

FairSpec == Spec /\ Fairness

-----------------------------------------------------------------------------
(* Safety                                                                  *)

\* dispatch() is under way, from TakeSlot until on_disconnect.
Admitted == {"expire"} \cup Setup \cup Loop

\* A slot of the limiter belongs to a connection of that user that is still
\* admitted or being released, or whose release never ran: an endpoint that
\* ended with on_disconnect and its SREM never occupies one.  And a slot goes
\* with its set's hour at the latest: a set without an expiry holds nothing but
\* the slots of connections on their way to EXPIRE, or stopped before it by an
\* error or a crash, never that of an open connection or of a "failed" endpoint.
SlotAccounted ==
    \A u \in Users : \A c \in slots[u] :
        /\ user[c] = u
        /\ pc[c] \in Admitted \cup {"release"} \cup (Ended \ {"done"})
        /\ ~slotsTTL[u] => pc[c] \in {"expire", "release", "unreleased", "killed"}

\* An admitted connection counts against its user's limit from SADD until it
\* leaves, whatever the user's other connections do (unless it outlives the
\* hour after which Redis drops the set).
SlotHeld ==
    \A c \in Conns : pc[c] \in Admitted =>
        SlotsMayExpire \/ c \in slots[user[c]]

\* The registry maps a user to one of the user's own connections, and to one
\* whose endpoint runs; the exception is an endpoint that an exception killed
\* during setup, whose dead socket makes the next send remove the entry.
RegisteredConnectionLives ==
    \A u \in Users : LET c == connections[u] IN
        c # None => /\ user[c] = u
                    /\ \/ pc[c] \in {"auth_ok"} \cup Loop
                       \/ pc[c] = "failed" /\ sock[c] # "open"

\* The connections of u that have reached connect(), and whether c is the only
\* one there ever was.
EverRegistered(u) == {c \in Conns : session_key[c] = u}
SoleEver(u, c) == EverRegistered(u) = {c} /\ u \notin past

\* Broadcasts and session expiry reach a live connection as long as no other
\* connection of its user has been registered.
SoleConnectionReachable ==
    \A c \in Conns :
        /\ pc[c] \in {"auth_ok"} \cup Loop /\ sock[c] = "open"
        /\ SoleEver(user[c], c)
        => connections[user[c]] = c

\* A session key without an expiry is one whose PEXPIRE is still to come, or
\* never came because the endpoint that owed it failed or was killed there.
LastingSessionAccounted ==
    \A u \in Users : session[u] = "lasting" =>
        \E c \in Conns : user[c] = u /\ pc[c] \in {"pexpire", "failed", "killed"}

\* SCARD and SADD are separate commands, so the limit can be overrun, but only
\* by as many connections as were ever in between: whatever fails and crashes,
\* a user who never had more than one there stays within the limit.
OverrunBounded ==
    \A u \in Users : Cardinality(slots[u]) < MaxConnections + peak[u]

-----------------------------------------------------------------------------
(* What the documentation says and the code does not do                    *)

\* websocket.py:130, "Always call on_disconnect for cleanup": a connection
\* whose endpoint has ended, the process living on, is in no registry entry
\* and holds no slot.
CleanupAlwaysRuns ==
    \A c \in Conns, u \in Users :
        pc[c] \in {"done", "failed"} => connections[u] # c /\ c \notin slots[u]

\* rate_limiter.py:160, "Tracks active connections per user and enforces
\* maximum connection limits": the connections in their message loops.
LimitEnforced ==
    \A u \in Users :
        Cardinality({c \in Conns : pc[c] \in Loop /\ user[c] = u}) <= MaxConnections

\* kc_user_session.py:24, "when a user's session expires, their WebSocket
\* connection is properly closed": when the task has taken the message of a
\* session that has not been renewed, no open connection of the user is left.
ExpiryClosesConnections ==
    [][\A u \in Users :
          /\ events # <<>> /\ Head(events) = u /\ events' = Tail(events)
          /\ session[u] = "absent"
          => \A c \in Conns :
                user[c] = u /\ pc[c] \in Loop => sock'[c] # "open"]_vars

-----------------------------------------------------------------------------
(* Liveness                                                                *)

\* An accepted socket is either authenticated or given up: nobody keeps one
\* without sending a valid first frame.
HandshakeDecided == \A c \in Conns : pc[c] = "auth" ~> pc[c] \in Loop \cup Ended

\* The slot of a connection whose client has gone becomes free again by
\* on_disconnect, or its endpoint ends without giving the slot back; and such a
\* slot is freed by the expiry of the set, unless the user connects again within
\* the hour for ever, for each EXPIRE renews the hour of the whole set.
SlotFreed ==
    \A u \in Users :
        /\ \A c \in Conns :
              sock[c] = "gone" /\ c \in slots[u] ~> c \notin slots[u] \/ pc[c] \in Ended
        /\ \/ []<><<RenewHour(u)>>_vars
           \/ \A c \in Conns :
                 pc[c] \in Ended /\ c \in slots[u] ~> c \notin slots[u]

\* An expired-key message closes the connection registered under the key,
\* unless the task has died or the user has had another connection.
ExpiryClosesSoleConnection ==
    \A u \in Users : \A c \in Conns :
        /\ events # <<>> /\ Head(events) = u /\ connections[u] = c
        /\ SoleEver(u, c)
        ~> \/ sock[c] # "open" \/ task.at = "dead" \/ ~SoleEver(u, c)
=============================================================================
