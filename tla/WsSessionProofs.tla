-------------------------- MODULE WsSessionProofs --------------------------
(***************************************************************************)
(* Proofs about WsSession for any users, connections, limit and bounds on  *)
(* the environment.  The safety properties are proved together, as parts   *)
(* of one inductive invariant: each needs to know whose connection a slot, *)
(* a registry entry or a broadcast under way belongs to.                   *)
(***************************************************************************)
EXTENDS WsSession, FiniteSetTheorems, TLAPS

-----------------------------------------------------------------------------
(* Type correctness.                                                       *)

\* The limiter's commands keep its sets and expiries typed.
LEMMA LimiterCommandsTyped ==
    ASSUME LimiterTypeOK, NEW u, NEW c \in Conns,
           \/ Sadd(u, c) \/ Srem(u, c) \/ ExpireSlots(u) \/ SlotsExpired(u)
           \/ UNCHANGED limiterVars
    PROVE  LimiterTypeOK'
<1> USE DEF LimiterTypeOK
<1>1. CASE Sadd(u, c) \/ UNCHANGED limiterVars
  BY <1>1 DEF Sadd, limiterVars
<1>2. CASE Srem(u, c)
  BY <1>2 DEF Srem
<1>3. CASE ExpireSlots(u) \/ SlotsExpired(u)
  BY <1>3 DEF ExpireSlots, SlotsExpired
<1> QED BY <1>1, <1>2, <1>3

\* The steps that leave the history alone, and what the others add to it.
LEMMA HistorySteps ==
    ASSUME [Next]_vars
    PROVE  \/ UNCHANGED history
           \/ \E c \in Conns : CheckLimit(c) /\ past' = past
                              /\ (UNCHANGED peak \/ Crowd(user[c]))
           \/ \E c \in Conns : Reconnect(c) /\ UNCHANGED peak
<1>1. ASSUME NEW c \in Conns, ServerStep(c), ~CheckLimit(c) PROVE UNCHANGED history
  BY <1>1 DEF ServerStep, RefuseFirstFrame, TokenValid, TokenInvalid, TakeSlot,
     SetSlotExpiry, AdmissionError, SetSession, SetSessionExpiry, SessionError,
     SendAuthOk, SendAuthOkFails, MessageHandled, MessageCloses, ResponseFails,
     Disconnected, CloseRaises, LeaveLoop, RemoveConnection, RemoveConnectionError
<1>2. ASSUME NEW c \in Conns, CheckLimit(c)
      PROVE  past' = past /\ (UNCHANGED peak \/ Crowd(user[c]))
  BY <1>2 DEF CheckLimit
<1>3. ASSUME NEW c \in Conns, ClientStep(c), ~Reconnect(c) PROVE UNCHANGED history
  BY <1>3 DEF ClientStep, OnConnect, RejectOrigin, ReceiveAuthFrame,
     FirstFrameNotObject, ReceiveMessage, FrameUndecodable, LeaveLoop, ClientLeaves
<1>4. ASSUME NEW c \in Conns, Reconnect(c) PROVE UNCHANGED peak
  BY <1>4 DEF Reconnect
<1>5. CASE TaskStep \/ BroadcastStep
  BY <1>5 DEF TaskStep, Subscribe, EventWithoutConnection, EventClosesConnection,
     EventKillsTask, ForgetExpired, TaskRedisError, BroadcastStep, Broadcast, SafeSend
<1>6. CASE RedisStep \/ Crash \/ UNCHANGED vars
  BY <1>6 DEF RedisStep, SessionExpires, LimiterHourOver, Crash, vars, history
<1> QED BY <1>1, <1>2, <1>3, <1>4, <1>5, <1>6 DEF Next

\* The history stays typed.
LEMMA HistoryTyped == TypeOK /\ [Next]_vars => HistoryTypeOK'
<1> SUFFICES ASSUME TypeOK, [Next]_vars PROVE HistoryTypeOK'
  OBVIOUS
<1>1. peak \in [Users -> Nat] /\ past \subseteq Users
  BY DEF TypeOK, HistoryTypeOK
<1>2. CASE UNCHANGED history
  BY <1>1, <1>2 DEF HistoryTypeOK, history
<1>3. ASSUME NEW c \in Conns, past' = past, UNCHANGED peak \/ Crowd(user[c])
      PROVE  HistoryTypeOK'
  BY <1>1, <1>3 DEF HistoryTypeOK, Crowd
<1>4. ASSUME NEW c \in Conns, Reconnect(c), UNCHANGED peak PROVE HistoryTypeOK'
  <2>1. session_key[c] \in Users \cup {None}
    BY DEF TypeOK
  <2> QED BY <1>1, <1>4, <2>1 DEF HistoryTypeOK, Reconnect
<1> QED BY <1>2, <1>3, <1>4, HistorySteps

\* Every step preserves the types.
LEMMA TypeInductive == TypeOK /\ [Next]_vars => TypeOK'
<1> SUFFICES ASSUME TypeOK, [Next]_vars PROVE TypeOK'
  OBVIOUS
<1> USE NoneAssumption
    DEF TypeOK, RegistryTypeOK, LimiterTypeOK, PcStates,
        Handshake, Admission, Setup, Loop, Ended, TaskAt, Goto, Spend, Fault, CloseSock, DropSock, Escape,
        limiterVars, selfVars, endpointVars, redisVars
<1>0. HistoryTypeOK'
  BY HistoryTyped
<1>1. ASSUME NEW c \in Conns, ServerStep(c) PROVE TypeOK'
  <2>1. CASE RefuseFirstFrame(c)
    BY <1>0, <2>1 DEF RefuseFirstFrame
  <2>2. CASE TokenInvalid(c)
    BY <1>0, <2>2 DEF TokenInvalid
  <2>3. ASSUME NEW u \in Users, TokenValid(c, u) PROVE TypeOK'
    BY <1>0, <2>3 DEF TokenValid
  <2>4. CASE CheckLimit(c)
    <3>1. CASE pc' = [pc EXCEPT ![c] = "release"] /\ CloseSock(c)
      BY <1>0, <2>4, <3>1 DEF CheckLimit
    <3>2. CASE pc' = [pc EXCEPT ![c] = "sadd"] /\ UNCHANGED sock
      BY <1>0, <2>4, <3>2 DEF CheckLimit
    <3> QED BY <2>4, <3>1, <3>2 DEF CheckLimit
  <2>5. CASE TakeSlot(c)
    BY <1>0, <2>5 DEF TakeSlot, Sadd
  <2>6. CASE SetSlotExpiry(c)
    BY <1>0, <2>6 DEF SetSlotExpiry, ExpireSlots
  <2>7. CASE AdmissionError(c)
    <3>1. LimiterTypeOK'
      BY <2>7, LimiterCommandsTyped DEF AdmissionError
    <3> QED BY <1>0, <2>7, <3>1 DEF AdmissionError
  <2>8. CASE SetSession(c)
    BY <1>0, <2>8 DEF SetSession
  <2>9. CASE SetSessionExpiry(c)
    BY <1>0, <2>9 DEF SetSessionExpiry, Connect
  <2>10. CASE SessionError(c)
    BY <1>0, <2>10 DEF SessionError
  <2>11. CASE SendAuthOk(c) \/ SendAuthOkFails(c) \/ MessageHandled(c)
    <3>1. CASE SendAuthOk(c)
      BY <1>0, <3>1 DEF SendAuthOk
    <3>2. CASE SendAuthOkFails(c)
      BY <1>0, <3>2 DEF SendAuthOkFails
    <3>3. CASE MessageHandled(c)
      BY <1>0, <3>3 DEF MessageHandled
    <3> QED BY <2>11, <3>1, <3>2, <3>3
  <2>15. CASE MessageCloses(c) \/ ResponseFails(c)
    <3>1. CASE MessageCloses(c)
      BY <1>0, <3>1 DEF MessageCloses
    <3>2. CASE ResponseFails(c)
      BY <1>0, <3>2 DEF ResponseFails
    <3> QED BY <2>15, <3>1, <3>2
  <2>12. CASE Disconnected(c) \/ CloseRaises(c)
    BY <1>0, <2>12 DEF Disconnected, CloseRaises, LeaveLoop, Disconnect
  <2>13. CASE RemoveConnection(c)
    BY <1>0, <2>13 DEF RemoveConnection, Srem
  <2>14. CASE RemoveConnectionError(c)
    <3>1. LimiterTypeOK'
      BY <2>14, LimiterCommandsTyped DEF RemoveConnectionError
    <3> QED BY <1>0, <2>14, <3>1 DEF RemoveConnectionError
  <2> QED BY <1>1, <2>1, <2>2, <2>3, <2>4, <2>5, <2>6, <2>7, <2>8, <2>9,
             <2>10, <2>11, <2>12, <2>13, <2>14, <2>15 DEF ServerStep
<1>2. ASSUME NEW c \in Conns, ClientStep(c) PROVE TypeOK'
  <2>1. CASE OnConnect(c)
    BY <1>0, <2>1 DEF OnConnect
  <2>4. CASE RejectOrigin(c) \/ ReceiveAuthFrame(c)
    BY <1>0, <2>4 DEF RejectOrigin, ReceiveAuthFrame
  <2>2. CASE FirstFrameNotObject(c) \/ ReceiveMessage(c)
    BY <1>0, <2>2 DEF FirstFrameNotObject, ReceiveMessage
  <2>6. CASE ClientLeaves(c)
    BY <1>0, <2>6 DEF ClientLeaves
  <2>3. CASE FrameUndecodable(c)
    BY <1>0, <2>3 DEF FrameUndecodable, LeaveLoop, Disconnect
  <2>5. CASE Reconnect(c)
    BY <1>0, <2>5 DEF Reconnect
  <2> QED BY <1>2, <2>1, <2>2, <2>3, <2>4, <2>5, <2>6 DEF ClientStep
<1>3. ASSUME TaskStep PROVE TypeOK'
  <2>1. CASE Subscribe
    BY <1>0, <2>1 DEF Subscribe
  <2>5. CASE EventKillsTask
    BY <1>0, <2>5 DEF EventKillsTask
  <2>6. CASE TaskRedisError
    BY <1>0, <2>6 DEF TaskRedisError
  <2>2. CASE EventWithoutConnection
    BY <1>0, <2>2 DEF EventWithoutConnection
  <2>3. CASE EventClosesConnection
    BY <1>0, <2>3 DEF EventClosesConnection, GetConnection
  <2>4. CASE ForgetExpired
    BY <1>0, <2>4 DEF ForgetExpired, Disconnect
  <2> QED BY <1>3, <2>1, <2>2, <2>3, <2>4, <2>5, <2>6 DEF TaskStep
<1>4. ASSUME BroadcastStep PROVE TypeOK'
  <2>1. CASE Broadcast
    BY <1>0, <2>1 DEF Broadcast, Snapshot
  <2>2. ASSUME NEW u \in Users, NEW c \in Conns, SafeSend(u, c) PROVE TypeOK'
    BY <1>0, <2>2 DEF SafeSend, Disconnect
  <2> QED BY <1>4, <2>1, <2>2 DEF BroadcastStep
<1>5. ASSUME RedisStep PROVE TypeOK'
  <2>1. ASSUME NEW u \in Users, SessionExpires(u) PROVE TypeOK'
    BY <1>0, <2>1 DEF SessionExpires
  <2>2. ASSUME NEW u \in Users, LimiterHourOver(u) PROVE TypeOK'
    BY <1>0, <2>2 DEF LimiterHourOver, SlotsExpired
  <2> QED BY <1>5, <2>1, <2>2 DEF RedisStep
<1>6. ASSUME Crash PROVE TypeOK'
  BY <1>0, <1>6 DEF Crash
<1>7. ASSUME UNCHANGED vars PROVE TypeOK'
  BY <1>0, <1>7 DEF vars
<1> QED BY <1>1, <1>2, <1>3, <1>4, <1>5, <1>6, <1>7 DEF Next

-----------------------------------------------------------------------------
(* The inductive invariant.                                                *)

\* self.user is assigned from TokenValid on.
UserKnown ==
    \A c \in Conns :
        pc[c] \in Admission \cup Setup \cup Loop \cup {"release"} => user[c] \in Users

\* self.session_key, once assigned, names the user, and it is assigned before
\* the connection can be in the loop, in the registry or in a broadcast.
KeyOfUser ==
    /\ \A c \in Conns :
          /\ session_key[c] # None => session_key[c] = user[c]
          /\ pc[c] \in Handshake => session_key[c] = None
          /\ pc[c] \in {"auth_ok"} \cup Loop => session_key[c] = user[c]
    /\ \A u \in Users : connections[u] # None => session_key[connections[u]] = u
    /\ \A p \in bcast : session_key[p[2]] = p[1]

\* While the task awaits close(), the connection it closes has been registered
\* under the key and takes no more sends.
TaskClosesDead ==
    task.at = "close" =>
        /\ task.key \in Users
        /\ \E c \in Conns : session_key[c] = task.key /\ sock[c] \in {"closed", "gone"}

\* The invariant: the safety properties and what they rest on.
IInv == /\ TypeOK
        /\ UserKnown
        /\ KeyOfUser
        /\ TaskClosesDead
        /\ SlotAccounted
        /\ SlotHeld
        /\ RegisteredConnectionLives
        /\ SoleConnectionReachable
        /\ LastingSessionAccounted

-----------------------------------------------------------------------------
(* Every step preserves it.                                                *)

\* Only Reconnect adds to the users that have come back.
LEMMA PastKept ==
    /\ \A c \in Conns : ServerStep(c) \/ (ClientStep(c) /\ ~Reconnect(c)) => past' = past
    /\ TaskStep \/ BroadcastStep \/ RedisStep \/ Crash => past' = past
<1> USE DEF history
<1>1. ASSUME NEW c \in Conns, ServerStep(c) PROVE past' = past
  BY <1>1 DEF ServerStep, RefuseFirstFrame, TokenValid, TokenInvalid, CheckLimit, TakeSlot,
     SetSlotExpiry, AdmissionError, SetSession, SetSessionExpiry, SessionError,
     SendAuthOk, SendAuthOkFails, MessageHandled, MessageCloses, ResponseFails,
     Disconnected, CloseRaises, LeaveLoop, RemoveConnection, RemoveConnectionError
<1>2. ASSUME NEW c \in Conns, ClientStep(c), ~Reconnect(c) PROVE past' = past
  BY <1>2 DEF ClientStep, OnConnect, RejectOrigin, ReceiveAuthFrame,
     FirstFrameNotObject, ReceiveMessage, FrameUndecodable, LeaveLoop, ClientLeaves
<1>3. TaskStep \/ BroadcastStep => past' = past
  BY DEF TaskStep, Subscribe, EventWithoutConnection, EventClosesConnection,
     EventKillsTask, ForgetExpired, TaskRedisError, BroadcastStep, Broadcast, SafeSend
<1>4. RedisStep \/ Crash => past' = past
  BY DEF RedisStep, SessionExpires, LimiterHourOver, Crash
<1> QED BY <1>1, <1>2, <1>3, <1>4

\* The endpoint: a connection takes its own slot, key and registry entry, and
\* gives up the entry of its own user.
LEMMA ServerStepInductive ==
    ASSUME IInv, NEW c \in Conns, ServerStep(c), TypeOK', past' = past
    PROVE  IInv'
<1> USE NoneAssumption
    DEF TypeOK, RegistryTypeOK, LimiterTypeOK, PcStates, Handshake, Admission,
        Setup, Loop, Ended, Admitted, Goto, Fault, Spend, Escape, CloseSock, DropSock,
        selfVars, endpointVars, limiterVars, redisVars, IInv,
        ServerStep, RefuseFirstFrame, TokenValid, TokenInvalid, CheckLimit,
        TakeSlot, SetSlotExpiry, AdmissionError, SetSession, SetSessionExpiry,
        SessionError, SendAuthOk, SendAuthOkFails, MessageHandled,
        MessageCloses, ResponseFails, Disconnected, CloseRaises, LeaveLoop,
        RemoveConnection, RemoveConnectionError,
        Connect, Disconnect, Sadd, Srem, ExpireSlots
<1>1. UserKnown'
  BY DEF UserKnown
<1>2. KeyOfUser'
  <2>1. CASE SetSessionExpiry(c)
    BY <2>1 DEF UserKnown, KeyOfUser
  <2>2. CASE Disconnected(c) \/ CloseRaises(c)
    BY <2>2 DEF UserKnown, KeyOfUser
  <2>3. ASSUME NEW u \in Users, TokenValid(c, u) PROVE KeyOfUser'
    BY <2>3 DEF KeyOfUser
  <2>4. CASE UNCHANGED <<connections, user, session_key>>
    BY <2>4 DEF UserKnown, KeyOfUser
  <2> QED BY <2>1, <2>2, <2>3, <2>4
<1>3. TaskClosesDead'
  <2>1. SUFFICES ASSUME task.at = "close"
                 PROVE  TaskClosesDead'
    BY DEF TaskClosesDead
  <2>2. PICK d \in Conns : session_key[d] = task.key /\ sock[d] \in {"closed", "gone"}
    BY <2>1 DEF TaskClosesDead
  <2>3. task.key \in Users /\ task' = task
    BY <2>1 DEF TaskClosesDead
  <2>4. session_key'[d] = task.key
    BY <2>2, <2>3 DEF KeyOfUser
  <2>5. sock'[d] \in {"closed", "gone"}
    BY <2>2
  <2> QED BY <2>3, <2>4, <2>5 DEF TaskClosesDead
<1>4. SlotAccounted'
  <2> SUFFICES ASSUME NEW u \in Users, NEW d \in slots'[u]
               PROVE  /\ user'[d] = u
                      /\ pc'[d] \in Admitted \cup {"release"} \cup (Ended \ {"done"})
                      /\ ~slotsTTL'[u] => pc'[d] \in {"expire", "release", "unreleased", "killed"}
    BY DEF SlotAccounted
  <2>1. CASE d \in slots[u]
    BY <2>1 DEF SlotAccounted, UserKnown
  <2>2. CASE d \notin slots[u]
    <3>1. d = c /\ u = user[c] /\ pc[c] = "sadd"
      BY <2>2 DEF UserKnown
    <3> QED BY <3>1
  <2> QED BY <2>1, <2>2
<1>5. SlotHeld'
  BY DEF SlotHeld, SlotAccounted, UserKnown
<1>6. RegisteredConnectionLives'
  BY DEF RegisteredConnectionLives, KeyOfUser, UserKnown
<1>7. SoleConnectionReachable'
  <2> SUFFICES ASSUME NEW d \in Conns,
                      (pc'[d] \in {"auth_ok"} \cup Loop /\ sock'[d] = "open"
                        /\ SoleEver(user[d], d)')
               PROVE  connections'[user'[d]] = d
    BY DEF SoleConnectionReachable
  <2>1. CASE SetSessionExpiry(c)
    BY <2>1 DEF EverRegistered, SoleEver, KeyOfUser, UserKnown, SoleConnectionReachable
  <2>2. CASE Disconnected(c) \/ CloseRaises(c)
    BY <2>2 DEF EverRegistered, SoleEver, KeyOfUser, UserKnown, SoleConnectionReachable
  <2>3. CASE UNCHANGED <<connections, session_key>>
    BY <2>3 DEF EverRegistered, SoleEver, KeyOfUser, UserKnown, SoleConnectionReachable
  <2> QED BY <2>1, <2>2, <2>3
<1>8. LastingSessionAccounted'
  <2>1. CASE SetSession(c) \/ SetSessionExpiry(c)
    BY <2>1 DEF LastingSessionAccounted, UserKnown
  <2>2. CASE SessionError(c)
    BY <2>2 DEF LastingSessionAccounted, UserKnown
  <2>3. ASSUME NEW u \in Users, TokenValid(c, u)
        PROVE  LastingSessionAccounted'
    BY <2>3 DEF LastingSessionAccounted
  <2>4. CASE UNCHANGED <<session, user>>
    BY <2>4 DEF LastingSessionAccounted, UserKnown
  <2> QED BY <2>1, <2>2, <2>3, <2>4
<1> QED BY <1>1, <1>2, <1>3, <1>4, <1>5, <1>6, <1>7, <1>8

\* A connection that has ended is in no slot, registry entry or broadcast, and
\* what its user has registered before is remembered.
LEMMA ReconnectInductive ==
    ASSUME IInv, NEW c \in Conns, Reconnect(c), TypeOK'
    PROVE  IInv'
<1> USE NoneAssumption
    DEF TypeOK, RegistryTypeOK, LimiterTypeOK, Handshake, Admission, Setup, Loop,
        Ended, Admitted, Goto, limiterVars, redisVars, IInv, Reconnect
<1>1. UserKnown'
  BY DEF UserKnown
<1>2. \A u \in Users : connections[u] # c /\ c \notin slots[u]
  BY DEF RegisteredConnectionLives, SlotAccounted
<1>3. KeyOfUser'
  BY <1>2 DEF KeyOfUser
<1>4. TaskClosesDead'
  <2> SUFFICES ASSUME task.at = "close" PROVE TaskClosesDead'
    BY DEF TaskClosesDead
  <2>1. PICK d \in Conns : session_key[d] = task.key /\ sock[d] \in {"closed", "gone"}
    BY DEF TaskClosesDead
  <2>2. d # c
    BY <2>1
  <2> QED BY <2>1, <2>2 DEF TaskClosesDead
<1>5. SlotAccounted' /\ SlotHeld'
  BY <1>2 DEF SlotAccounted, SlotHeld
<1>6. RegisteredConnectionLives'
  BY <1>2 DEF RegisteredConnectionLives
<1>7. SoleConnectionReachable'
  <2> SUFFICES ASSUME NEW d \in Conns,
                      (pc'[d] \in {"auth_ok"} \cup Loop /\ sock'[d] = "open"
                        /\ SoleEver(user[d], d)')
               PROVE  connections'[user'[d]] = d
    BY DEF SoleConnectionReachable
  <2>1. d # c /\ user'[d] = user[d] /\ session_key[d] = user[d] /\ user[d] \in Users
    BY DEF KeyOfUser, UserKnown
  <2>2. session_key[c] # user[d]
    BY <2>1 DEF SoleEver
  <2>3. SoleEver(user[d], d)
    BY <2>1, <2>2 DEF SoleEver, EverRegistered
  <2> QED BY <2>1, <2>3 DEF SoleConnectionReachable
<1>8. LastingSessionAccounted'
  BY DEF LastingSessionAccounted
<1> QED BY <1>1, <1>3, <1>4, <1>5, <1>6, <1>7, <1>8

\* What clients send and when they leave.
LEMMA ClientStepInductive ==
    ASSUME IInv, NEW c \in Conns, ClientStep(c), ~Reconnect(c), TypeOK', past' = past
    PROVE  IInv'
<1> USE NoneAssumption
    DEF TypeOK, RegistryTypeOK, LimiterTypeOK, PcStates, Handshake, Admission,
        Setup, Loop, Ended, Admitted, Goto, Escape, CloseSock, DropSock,
        selfVars, limiterVars, redisVars, IInv,
        ClientStep, OnConnect, RejectOrigin, ReceiveAuthFrame,
        FirstFrameNotObject, ReceiveMessage, FrameUndecodable, LeaveLoop,
        ClientLeaves, Disconnect
<1>1. UserKnown'
  BY DEF UserKnown
<1>2. KeyOfUser'
  BY DEF KeyOfUser
<1>3. TaskClosesDead'
  BY DEF TaskClosesDead, KeyOfUser
<1>4. SlotAccounted'
  BY DEF SlotAccounted
<1>5. SlotHeld'
  BY DEF SlotHeld
<1>6. RegisteredConnectionLives'
  BY DEF RegisteredConnectionLives, KeyOfUser, UserKnown
<1>7. SoleConnectionReachable'
  BY DEF SoleConnectionReachable, EverRegistered, SoleEver, KeyOfUser, UserKnown
<1>8. LastingSessionAccounted'
  BY DEF LastingSessionAccounted
<1> QED BY <1>1, <1>2, <1>3, <1>4, <1>5, <1>6, <1>7, <1>8

\* kc_user_session_task: it pops the key of a connection that is closed.
LEMMA TaskStepInductive ==
    ASSUME IInv, TaskStep, TypeOK', past' = past
    PROVE  IInv'
<1> USE NoneAssumption
    DEF TypeOK, RegistryTypeOK, LimiterTypeOK, PcStates, Handshake, Admission,
        Setup, Loop, Ended, Admitted, Fault, Spend, CloseSock, TaskAt,
        selfVars, endpointVars, limiterVars, redisVars, IInv,
        TaskStep, Subscribe, EventWithoutConnection, EventClosesConnection,
        EventKillsTask, ForgetExpired, TaskRedisError,
        GetConnection, Disconnect
<1>1. UserKnown'
  BY DEF UserKnown
<1>2. KeyOfUser'
  BY DEF KeyOfUser
<1>3. TaskClosesDead'
  BY DEF TaskClosesDead, KeyOfUser
<1>4. SlotAccounted'
  BY DEF SlotAccounted
<1>5. SlotHeld'
  BY DEF SlotHeld
<1>6. RegisteredConnectionLives'
  BY DEF RegisteredConnectionLives
<1>7. SoleConnectionReachable'
  BY DEF SoleConnectionReachable, EverRegistered, SoleEver, KeyOfUser, UserKnown, TaskClosesDead
<1>8. LastingSessionAccounted'
  BY DEF LastingSessionAccounted
<1> QED BY <1>1, <1>2, <1>3, <1>4, <1>5, <1>6, <1>7, <1>8

\* A broadcast removes the entry of a dead socket's own user.
LEMMA SafeSendInductive ==
    ASSUME IInv, NEW u \in Users, NEW c \in Conns, SafeSend(u, c), TypeOK', past' = past
    PROVE  IInv'
<1> USE NoneAssumption
    DEF TypeOK, RegistryTypeOK, LimiterTypeOK, PcStates, Handshake, Admission,
        Setup, Loop, Ended, Admitted, Spend, CloseSock,
        selfVars, endpointVars, limiterVars, redisVars, IInv,
        SafeSend, Disconnect
<1>1. UserKnown'
  BY DEF UserKnown
<1>2. KeyOfUser'
  BY DEF KeyOfUser
<1>3. TaskClosesDead'
  BY DEF TaskClosesDead, KeyOfUser
<1>4. SlotAccounted'
  BY DEF SlotAccounted
<1>5. SlotHeld'
  BY DEF SlotHeld
<1>6. RegisteredConnectionLives'
  BY DEF RegisteredConnectionLives
<1>7. SoleConnectionReachable'
  BY DEF SoleConnectionReachable, EverRegistered, SoleEver, KeyOfUser, UserKnown
<1>8. LastingSessionAccounted'
  BY DEF LastingSessionAccounted
<1> QED BY <1>1, <1>2, <1>3, <1>4, <1>5, <1>6, <1>7, <1>8

\* A broadcast's snapshot is taken from the registry.
LEMMA BroadcastInductive ==
    ASSUME IInv, Broadcast, TypeOK', past' = past
    PROVE  IInv'
<1> USE DEF Broadcast, Spend, selfVars, endpointVars, limiterVars, redisVars, IInv
<1>1. KeyOfUser'
  BY NoneAssumption DEF KeyOfUser, Snapshot, TypeOK, RegistryTypeOK
<1>2. UserKnown' /\ TaskClosesDead' /\ SlotAccounted' /\ SlotHeld'
  BY DEF UserKnown, TaskClosesDead, SlotAccounted, SlotHeld
<1>3. RegisteredConnectionLives' /\ SoleConnectionReachable'
  BY DEF RegisteredConnectionLives, SoleConnectionReachable, EverRegistered, SoleEver
<1>4. LastingSessionAccounted'
  BY DEF LastingSessionAccounted
<1> QED BY <1>1, <1>2, <1>3, <1>4

\* Expiries take slots and sessions away and add none.
LEMMA RedisStepInductive ==
    ASSUME IInv, RedisStep, TypeOK', past' = past
    PROVE  IInv'
<1> USE DEF TypeOK, LimiterTypeOK, Spend, endpointVars, limiterVars, redisVars,
        RedisStep, SessionExpires, LimiterHourOver, SlotsExpired, IInv
<1>1. UserKnown' /\ KeyOfUser' /\ TaskClosesDead'
  BY DEF UserKnown, KeyOfUser, TaskClosesDead
<1>2. SlotAccounted' /\ SlotHeld'
  BY DEF SlotAccounted, SlotHeld
<1>3. RegisteredConnectionLives' /\ SoleConnectionReachable'
  <2>1. UNCHANGED <<pc, user, session_key, sock, connections, past>>
    OBVIOUS
  <2>2. RegisteredConnectionLives'
    BY <2>1 DEF RegisteredConnectionLives
  <2>3. SoleConnectionReachable'
    BY <2>1 DEF SoleConnectionReachable, EverRegistered, SoleEver
  <2> QED BY <2>2, <2>3
<1>4. LastingSessionAccounted'
  BY DEF LastingSessionAccounted
<1> QED BY <1>1, <1>2, <1>3, <1>4

\* What survives a crash is in Redis, and every slot and session key there
\* is owed by an endpoint that is now "killed".
LEMMA CrashInductive ==
    ASSUME IInv, Crash, TypeOK', past' = past
    PROVE  IInv'
<1> USE NoneAssumption
    DEF TypeOK, LimiterTypeOK, PcStates, Handshake, Admission, Setup, Loop, Ended,
        Admitted, Spend, TaskAt, selfVars, limiterVars, Crash, IInv
<1>1. UserKnown' /\ TaskClosesDead' /\ SlotHeld'
  BY DEF UserKnown, TaskClosesDead, SlotHeld
<1>2. KeyOfUser' /\ RegisteredConnectionLives' /\ SoleConnectionReachable'
  BY DEF KeyOfUser, RegisteredConnectionLives, SoleConnectionReachable
<1>3. SlotAccounted'
  BY DEF SlotAccounted
<1>4. LastingSessionAccounted'
  BY DEF LastingSessionAccounted
<1> QED BY <1>1, <1>2, <1>3, <1>4

\* Initially there is nothing to account for.
LEMMA InitIInv == Init => IInv
<1> USE NoneAssumption
    DEF Init, IInv, RegistryInit, LimiterInit, TaskAt, TypeOK,
        RegistryTypeOK, LimiterTypeOK, HistoryTypeOK, PcStates, Handshake, Admission,
        Setup, Loop, Ended, Admitted
<1>1. Init => TypeOK
  OBVIOUS
<1>2. Init => UserKnown /\ KeyOfUser /\ TaskClosesDead
  BY DEF UserKnown, KeyOfUser, TaskClosesDead
<1>3. Init => SlotAccounted /\ SlotHeld /\ RegisteredConnectionLives
  BY DEF SlotAccounted, SlotHeld, RegisteredConnectionLives
<1>4. Init => SoleConnectionReachable /\ LastingSessionAccounted
  BY DEF SoleConnectionReachable, LastingSessionAccounted
<1> QED BY <1>1, <1>2, <1>3, <1>4

\* Hence every step preserves it.
LEMMA NextIInv == IInv /\ [Next]_vars => IInv'
<1> SUFFICES ASSUME IInv, [Next]_vars PROVE IInv'
  OBVIOUS
<1>1. TypeOK'
  BY TypeInductive DEF IInv
<1>2. ASSUME NEW c \in Conns, ServerStep(c) PROVE IInv'
  BY <1>1, <1>2, PastKept, ServerStepInductive
<1>3. ASSUME NEW c \in Conns, ClientStep(c) PROVE IInv'
  BY <1>1, <1>3, PastKept, ClientStepInductive, ReconnectInductive
<1>4. CASE TaskStep
  BY <1>1, <1>4, PastKept, TaskStepInductive
<1>5. CASE BroadcastStep
  BY <1>1, <1>5, PastKept, SafeSendInductive, BroadcastInductive DEF BroadcastStep
<1>6. CASE RedisStep
  BY <1>1, <1>6, PastKept, RedisStepInductive
<1>7. CASE Crash
  BY <1>1, <1>7, PastKept, CrashInductive
<1>8. CASE UNCHANGED vars
  BY <1>1, <1>8 DEF vars, IInv, UserKnown, KeyOfUser, TaskClosesDead, SlotAccounted,
     SlotHeld, RegisteredConnectionLives, SoleConnectionReachable, EverRegistered, SoleEver,
     LastingSessionAccounted
<1> QED BY <1>2, <1>3, <1>4, <1>5, <1>6, <1>7, <1>8 DEF Next

\* The inductive invariant holds in every behaviour of the session subsystem.
THEOREM Invariance == Spec => []IInv
BY InitIInv, NextIInv, PTL DEF Spec

-----------------------------------------------------------------------------
(* The properties the runs check.                                          *)

\* Every behaviour is well typed.
THEOREM TypeCorrect == Spec => []TypeOK
BY Invariance, PTL DEF IInv

\* A slot of the limiter belongs to a connection of that user that is admitted,
\* being released, or whose release never ran.
THEOREM SlotsAccounted == Spec => []SlotAccounted
BY Invariance, PTL DEF IInv

\* An admitted connection keeps its slot whatever other connections do.
THEOREM SlotsHeld == Spec => []SlotHeld
BY Invariance, PTL DEF IInv

\* The registry maps a user to one of the user's own connections, and a dead
\* one there has a dead socket.
THEOREM RegisteredConnectionsLive == Spec => []RegisteredConnectionLives
BY Invariance, PTL DEF IInv

\* A user's only connection is never removed from the registry while its
\* socket is open, by a disconnect, a broadcast or the expiry task.
THEOREM SoleConnectionsReachable == Spec => []SoleConnectionReachable
BY Invariance, PTL DEF IInv

\* A session key without an expiry is behind a setup that did not get to its
\* PEXPIRE.
THEOREM LastingSessionsAccounted == Spec => []LastingSessionAccounted
BY Invariance, PTL DEF IInv

-----------------------------------------------------------------------------
(* How far the limit can be overrun.                                       *)

\* The slots taken and those about to be taken.
Room == \A u \in Users :
    /\ IsFiniteSet(slots[u]) /\ IsFiniteSet(Racing(u))
    /\ Cardinality(Racing(u)) <= peak[u]
    /\ Cardinality(slots[u]) + Cardinality(Racing(u)) < MaxConnections + peak[u]

\* Sets that shrink.
LEMMA RoomShrinks ==
    ASSUME NEW S, NEW R, IsFiniteSet(S), IsFiniteSet(R), NEW n \in Nat,
           Cardinality(S) + Cardinality(R) < n,
           NEW S2, NEW R2, S2 \subseteq S, R2 \subseteq R
    PROVE  /\ IsFiniteSet(S2) /\ IsFiniteSet(R2)
           /\ Cardinality(S2) + Cardinality(R2) < n
<1>1. /\ IsFiniteSet(S2) /\ Cardinality(S2) <= Cardinality(S)
      /\ IsFiniteSet(R2) /\ Cardinality(R2) <= Cardinality(R)
  BY FS_Subset
<1>2. /\ Cardinality(S) \in Nat /\ Cardinality(R) \in Nat
      /\ Cardinality(S2) \in Nat /\ Cardinality(R2) \in Nat
  BY <1>1, FS_CardinalityType
<1> QED BY <1>1, <1>2

\* A connection that takes its slot is no longer about to.
LEMMA RoomTaken ==
    ASSUME NEW S, NEW R, IsFiniteSet(S), IsFiniteSet(R), NEW n \in Nat,
           Cardinality(S) + Cardinality(R) < n, NEW c \in R
    PROVE  /\ IsFiniteSet(S \cup {c}) /\ IsFiniteSet(R \ {c})
           /\ Cardinality(S \cup {c}) + Cardinality(R \ {c}) < n
<1>1. /\ IsFiniteSet(S \cup {c}) /\ Cardinality(S \cup {c}) <= Cardinality(S) + 1
      /\ IsFiniteSet(R \ {c}) /\ Cardinality(R \ {c}) = Cardinality(R) - 1
  BY FS_AddElement, FS_RemoveElement, FS_CardinalityType
<1>2. /\ Cardinality(S) \in Nat /\ Cardinality(R) \in Nat
      /\ Cardinality(S \cup {c}) \in Nat /\ Cardinality(R \ {c}) \in Nat
  BY <1>1, FS_CardinalityType
<1> QED BY <1>1, <1>2

\* What a step does to the limiter: it takes slots back, or it lets one more
\* connection pass below the limit, or one that had passed takes its slot.
LEMMA LimiterStep ==
    ASSUME IInv, [Next]_vars
    PROVE  \/ /\ \A u \in Users : slots'[u] \subseteq slots[u] /\ Racing(u)' \subseteq Racing(u)
              /\ peak' = peak
           \/ \E c \in Conns :
                 /\ ~AtLimit(user[c]) /\ c \notin Racing(user[c])
                 /\ slots' = slots /\ Crowd(user[c])
                 /\ \A u \in Users :
                       Racing(u)' = IF u = user[c] THEN Racing(u) \cup {c} ELSE Racing(u)
           \/ \E c \in Conns :
                 /\ c \in Racing(user[c])
                 /\ slots' = [slots EXCEPT ![user[c]] = @ \cup {c}]
                 /\ \A u \in Users : Racing(u)' = Racing(u) \ {c}
                 /\ peak' = peak
<1> DEFINE Shrinks == /\ \A u \in Users : slots'[u] \subseteq slots[u]
                                           /\ Racing(u)' \subseteq Racing(u)
                      /\ peak' = peak
<1> USE DEF IInv, TypeOK, LimiterTypeOK, Racing, Goto, selfVars, endpointVars,
        limiterVars, history
<1>1. ASSUME UNCHANGED slots, UNCHANGED peak, \A c \in Conns : pc'[c] = "sadd" => pc[c] = "sadd",
             \A c \in Conns : pc'[c] = "sadd" => user'[c] = user[c]
      PROVE  Shrinks
  BY <1>1
<1>2. ASSUME NEW c \in Conns, CheckLimit(c)
      PROVE  Shrinks \/ (/\ ~AtLimit(user[c]) /\ c \notin Racing(user[c])
                         /\ slots' = slots /\ Crowd(user[c])
                         /\ \A u \in Users :
                               Racing(u)' = IF u = user[c] THEN Racing(u) \cup {c} ELSE Racing(u))
  <2>1. CASE pc' = [pc EXCEPT ![c] = "release"] /\ UNCHANGED peak
    BY <1>1, <1>2, <2>1 DEF CheckLimit
  <2>2. CASE pc' = [pc EXCEPT ![c] = "sadd"] /\ ~AtLimit(user[c]) /\ Crowd(user[c])
    BY <1>2, <2>2 DEF CheckLimit
  <2> QED BY <1>2, <2>1, <2>2 DEF CheckLimit
<1>3. ASSUME NEW c \in Conns, pc[c] = "sadd", pc'[c] # "sadd",
             pc' = [pc EXCEPT ![c] = pc'[c]], Sadd(user[c], c), UNCHANGED <<user, peak>>
      PROVE  /\ c \in Racing(user[c])
             /\ slots' = [slots EXCEPT ![user[c]] = @ \cup {c}]
             /\ \A u \in Users : Racing(u)' = Racing(u) \ {c}
             /\ peak' = peak
  BY <1>3 DEF Sadd
<1>4. ASSUME NEW c \in Conns, TakeSlot(c)
      PROVE  /\ c \in Racing(user[c])
             /\ slots' = [slots EXCEPT ![user[c]] = @ \cup {c}]
             /\ \A u \in Users : Racing(u)' = Racing(u) \ {c}
             /\ peak' = peak
  BY <1>3, <1>4 DEF TakeSlot
<1>5. ASSUME NEW c \in Conns, AdmissionError(c)
      PROVE  Shrinks \/ (/\ c \in Racing(user[c])
                         /\ slots' = [slots EXCEPT ![user[c]] = @ \cup {c}]
                         /\ \A u \in Users : Racing(u)' = Racing(u) \ {c}
                         /\ peak' = peak)
  <2>1. CASE UNCHANGED slots
    BY <1>1, <1>5, <2>1 DEF AdmissionError, CloseSock
  <2>2. CASE pc[c] = "sadd" /\ Sadd(user[c], c)
    BY <1>3, <1>5, <2>2 DEF AdmissionError, CloseSock
  <2> QED BY <1>5, <2>1, <2>2 DEF AdmissionError, ExpireSlots
<1>6. ASSUME NEW c \in Conns, ServerStep(c), ~CheckLimit(c), ~TakeSlot(c), ~AdmissionError(c)
      PROVE  Shrinks
  <2>1. ASSUME NEW u \in Users, TokenValid(c, u) PROVE Shrinks
    BY <1>1, <2>1 DEF TokenValid
  <2>2. CASE RemoveConnection(c) \/ RemoveConnectionError(c)
    <3>1. /\ UNCHANGED slots \/ slots' = [slots EXCEPT ![user[c]] = @ \ {c}]
          /\ user' = user /\ peak' = peak /\ \A d \in Conns : pc'[d] = "sadd" => pc[d] = "sadd"
      BY <2>2 DEF RemoveConnection, RemoveConnectionError, Srem
    <3>2. \A u \in Users : slots'[u] \subseteq slots[u]
      BY <3>1
    <3>3. \A u \in Users : Racing(u)' \subseteq Racing(u)
      BY <3>1
    <3> QED BY <3>1, <3>2, <3>3
  <2>3. CASE SetSlotExpiry(c)
    BY <1>1, <2>3 DEF SetSlotExpiry, ExpireSlots
  <2>4. CASE \/ RefuseFirstFrame(c) \/ TokenInvalid(c) \/ SetSession(c)
             \/ SetSessionExpiry(c) \/ SessionError(c) \/ SendAuthOk(c)
             \/ SendAuthOkFails(c)
    BY <1>1, <2>4 DEF RefuseFirstFrame, TokenInvalid, SetSession, SetSessionExpiry,
          SessionError, SendAuthOk, SendAuthOkFails, Escape
  <2>5. CASE \/ MessageHandled(c) \/ MessageCloses(c) \/ ResponseFails(c)
             \/ Disconnected(c) \/ CloseRaises(c)
    BY <1>1, <2>5 DEF MessageHandled, MessageCloses, ResponseFails, Disconnected,
          CloseRaises, LeaveLoop
  <2> QED BY <1>6, <2>1, <2>2, <2>3, <2>4, <2>5 DEF ServerStep
<1>7. ASSUME NEW c \in Conns, ClientStep(c) PROVE Shrinks
  BY <1>1, <1>7 DEF ClientStep, Reconnect, OnConnect, RejectOrigin, ReceiveAuthFrame, Escape,
        FirstFrameNotObject, ReceiveMessage, FrameUndecodable, LeaveLoop, ClientLeaves
<1>8. CASE TaskStep \/ BroadcastStep
  BY <1>1, <1>8 DEF TaskStep, Subscribe, EventWithoutConnection, EventClosesConnection,
        EventKillsTask, ForgetExpired, TaskRedisError, BroadcastStep, Broadcast, SafeSend
<1>9. CASE RedisStep
  <2>1. ASSUME NEW u \in Users, SessionExpires(u) PROVE Shrinks
    BY <1>1, <2>1 DEF SessionExpires
  <2>2. ASSUME NEW u \in Users, LimiterHourOver(u) PROVE Shrinks
    BY <2>2 DEF LimiterHourOver, SlotsExpired
  <2> QED BY <1>9, <2>1, <2>2 DEF RedisStep
<1>10. CASE Crash
  BY <1>1, <1>10 DEF Crash, Ended
<1>11. CASE UNCHANGED vars
  BY <1>1, <1>11 DEF vars
<1> QED BY <1>2, <1>4, <1>5, <1>6, <1>7, <1>8, <1>9, <1>10, <1>11 DEF Next

\* Passing the check needs room below the limit, and taking the slot uses what
\* was passed.
LEMMA RoomInductive == IInv /\ Room /\ [Next]_vars => Room'
<1> SUFFICES ASSUME IInv, Room, [Next]_vars, NEW u \in Users
             PROVE  /\ IsFiniteSet(slots'[u]) /\ IsFiniteSet(Racing(u)')
                    /\ Cardinality(Racing(u)') <= peak'[u]
                    /\ Cardinality(slots'[u]) + Cardinality(Racing(u)') < MaxConnections + peak'[u]
  BY DEF Room
<1> DEFINE Goal == /\ IsFiniteSet(slots'[u]) /\ IsFiniteSet(Racing(u)')
                   /\ Cardinality(Racing(u)') <= peak'[u]
                   /\ Cardinality(slots'[u]) + Cardinality(Racing(u)') < MaxConnections + peak'[u]
<1>1. /\ IsFiniteSet(slots[u]) /\ IsFiniteSet(Racing(u))
      /\ Cardinality(Racing(u)) <= peak[u]
      /\ Cardinality(slots[u]) + Cardinality(Racing(u)) < MaxConnections + peak[u]
      /\ MaxConnections + peak[u] \in Nat /\ MaxConnections \in Nat /\ peak[u] \in Nat
  BY MaxConnectionsAssumption DEF Room, IInv, TypeOK, HistoryTypeOK
<1>2. Cardinality(Racing(u)) \in Nat /\ Cardinality(slots[u]) \in Nat
  BY <1>1, FS_CardinalityType
<1>3. ASSUME slots'[u] \subseteq slots[u], Racing(u)' \subseteq Racing(u), peak' = peak
      PROVE  Goal
  <2>1. Cardinality(Racing(u)') \in Nat /\ Cardinality(Racing(u)') <= Cardinality(Racing(u))
    BY <1>1, <1>3, FS_Subset, FS_CardinalityType
  <2> QED BY <1>1, <1>2, <1>3, <2>1, RoomShrinks
<1>4. ASSUME NEW c \in Conns, ~AtLimit(user[c]), c \notin Racing(user[c]),
             slots' = slots, Crowd(user[c]),
             Racing(u)' = IF u = user[c] THEN Racing(u) \cup {c} ELSE Racing(u)
      PROVE  Goal
  <2>1. CASE u # user[c]
    <3>1. peak'[u] = peak[u]
      BY <1>4, <2>1 DEF Crowd, IInv, TypeOK, HistoryTypeOK
    <3> QED BY <1>1, <1>4, <2>1, <3>1
  <2>2. CASE u = user[c]
    <3>1. IsFiniteSet(Racing(u)') /\ Cardinality(Racing(u)') = Cardinality(Racing(u)) + 1
      BY <1>1, <1>4, <2>2, FS_AddElement
    <3>2. Cardinality(slots[u]) < MaxConnections
      BY <1>1, <1>2, <1>4, <2>2 DEF AtLimit
    <3>3. peak'[u] = IF Cardinality(Racing(u)) >= peak[u] THEN peak[u] + 1 ELSE peak[u]
      BY <1>4, <2>2 DEF Crowd, IInv, TypeOK, HistoryTypeOK
    <3>4. Cardinality(Racing(u)') <= peak'[u] /\ peak'[u] \in Nat
      BY <1>1, <1>2, <3>1, <3>3
    <3> QED BY <1>1, <1>2, <1>4, <3>1, <3>2, <3>4
  <2> QED BY <2>1, <2>2
<1>5. ASSUME NEW c \in Conns, c \in Racing(user[c]),
             slots' = [slots EXCEPT ![user[c]] = @ \cup {c}],
             Racing(u)' = Racing(u) \ {c}, peak' = peak
      PROVE  Goal
  <2>1. CASE u = user[c]
    <3>1. slots'[u] = slots[u] \cup {c}
      BY <1>5, <2>1 DEF IInv, TypeOK, LimiterTypeOK
    <3>2. c \in Racing(u) /\ Racing(u)' = Racing(u) \ {c}
      BY <1>5, <2>1
    <3>3. /\ IsFiniteSet(slots[u] \cup {c}) /\ IsFiniteSet(Racing(u) \ {c})
          /\ Cardinality(slots[u] \cup {c}) + Cardinality(Racing(u) \ {c}) < MaxConnections + peak[u]
      BY <1>1, <3>2, RoomTaken
    <3>4. Cardinality(Racing(u) \ {c}) \in Nat /\ Cardinality(Racing(u) \ {c}) <= Cardinality(Racing(u))
      BY <1>1, FS_Subset, FS_CardinalityType
    <3>5. peak'[u] = peak[u] /\ Cardinality(Racing(u) \ {c}) <= peak[u]
      BY <1>1, <1>2, <1>5, <3>4
    <3> QED BY <3>1, <3>2, <3>3, <3>5
  <2>2. CASE u # user[c]
    <3>1. slots'[u] = slots[u] /\ Racing(u)' \subseteq Racing(u)
      BY <1>5, <2>2 DEF IInv, TypeOK, LimiterTypeOK
    <3> QED BY <1>3, <1>5, <3>1
  <2> QED BY <2>1, <2>2
<1> QED BY <1>3, <1>4, <1>5, LimiterStep

\* At first no slot is taken.
LEMMA RoomInit == Init => Room
<1> SUFFICES ASSUME Init PROVE Room
  OBVIOUS
<1>1. \A u \in Users : slots[u] = {} /\ Racing(u) = {} /\ peak[u] = 0
  BY DEF Init, LimiterInit, Racing
<1>2. 0 + 0 < MaxConnections + 0 /\ 0 <= 0
  BY MaxConnectionsAssumption
<1> QED BY <1>1, <1>2, FS_EmptySet DEF Room

\* Where there is room, the slots stay below the bound.
LEMMA RoomBelow ==
    ASSUME IInv, Room
    PROVE  OverrunBounded
<1> SUFFICES ASSUME NEW u \in Users
             PROVE  Cardinality(slots[u]) < MaxConnections + peak[u]
  BY DEF OverrunBounded
<1>1. /\ Cardinality(slots[u]) \in Nat /\ Cardinality(Racing(u)) \in Nat
      /\ Cardinality(slots[u]) + Cardinality(Racing(u)) < MaxConnections + peak[u]
      /\ MaxConnections + peak[u] \in Nat
  BY FS_CardinalityType, MaxConnectionsAssumption DEF Room, IInv, TypeOK, HistoryTypeOK
<1> QED BY <1>1

\* The room that the invariant speaks of is there in every behaviour.
LEMMA RoomHolds == Spec => []Room
BY RoomInit, RoomInductive, Invariance, PTL DEF Spec

\* No user ever holds more slots above the limit than connections of that user
\* were at some time between SCARD and SADD, less one.
THEOREM OverrunsBounded == Spec => []OverrunBounded
BY RoomBelow, RoomHolds, Invariance, PTL

\* No more than K connections of a user are between the check and the SADD, and
\* no more have ever been.
RaceOf(K) == \A u \in Users : Cardinality(Racing(u)) <= K
PeakOf(K) == \A u \in Users : peak[u] <= K

\* The peak grows only with the connections that race.
LEMMA PeakInductive ==
    ASSUME NEW K \in Nat, IInv, Room, PeakOf(K), RaceOf(K)', [Next]_vars
    PROVE  PeakOf(K)'
<1> SUFFICES ASSUME NEW u \in Users PROVE peak'[u] <= K
  BY DEF PeakOf
<1>1. /\ IsFiniteSet(Racing(u)) /\ Cardinality(Racing(u)) \in Nat
      /\ Cardinality(Racing(u)) <= peak[u] /\ peak[u] \in Nat /\ peak[u] <= K
      /\ Cardinality(Racing(u)') <= K
  BY FS_CardinalityType DEF Room, IInv, TypeOK, HistoryTypeOK, PeakOf, RaceOf
<1>2. ASSUME NEW c \in Conns, c \notin Racing(user[c]), Crowd(user[c]),
             Racing(u)' = IF u = user[c] THEN Racing(u) \cup {c} ELSE Racing(u)
      PROVE  peak'[u] <= K
  <2>1. CASE u # user[c]
    BY <1>1, <1>2, <2>1 DEF Crowd, IInv, TypeOK, HistoryTypeOK
  <2>2. CASE u = user[c]
    <3>1. Cardinality(Racing(u)') = Cardinality(Racing(u)) + 1
      BY <1>1, <1>2, <2>2, FS_AddElement
    <3>2. peak'[u] = IF Cardinality(Racing(u)) >= peak[u] THEN peak[u] + 1 ELSE peak[u]
      BY <1>2, <2>2 DEF Crowd, IInv, TypeOK, HistoryTypeOK
    <3> QED BY <1>1, <3>1, <3>2
  <2> QED BY <2>1, <2>2
<1> QED BY <1>1, <1>2, LimiterStep

\* The connections in their message loops hold slots.
LEMMA LoopHoldsSlots ==
    ASSUME IInv, Room, PeakOf(1), ~SlotsMayExpire
    PROVE  LimitEnforced
<1> SUFFICES ASSUME NEW u \in Users
             PROVE  Cardinality({c \in Conns : pc[c] \in Loop /\ user[c] = u}) <= MaxConnections
  BY DEF LimitEnforced
<1> DEFINE L == {c \in Conns : pc[c] \in Loop /\ user[c] = u}
<1>1. L \subseteq slots[u]
  BY DEF IInv, SlotHeld, Admitted
<1>2. /\ IsFiniteSet(slots[u]) /\ Cardinality(slots[u]) < MaxConnections + peak[u]
      /\ peak[u] <= 1 /\ peak[u] \in Nat
  BY RoomBelow DEF Room, OverrunBounded, PeakOf, IInv, TypeOK, HistoryTypeOK
<1>3. /\ IsFiniteSet(L) /\ Cardinality(L) <= Cardinality(slots[u])
      /\ Cardinality(L) \in Nat /\ Cardinality(slots[u]) \in Nat
  BY <1>1, <1>2, FS_Subset, FS_CardinalityType
<1> QED BY <1>2, <1>3, MaxConnectionsAssumption

\* What WS_MAX_CONNECTIONS_PER_USER needs to be a limit: no two connections of
\* a user between SCARD and SADD at once, and none that outlives the hour after
\* which Redis drops the set.  Then crashes, lost replies and failed releases
\* never let a user into more message loops than allowed.
THEOREM LimitHoldsWithoutRaces ==
    ASSUME ~SlotsMayExpire
    PROVE  Spec => ([]RaceOf(1) => []LimitEnforced)
<1>1. Init => PeakOf(1)
  BY DEF Init, PeakOf
<1>2. IInv /\ Room /\ PeakOf(1) /\ RaceOf(1)' /\ [Next]_vars => PeakOf(1)'
  BY PeakInductive
<1>3. IInv /\ Room /\ PeakOf(1) => LimitEnforced
  BY LoopHoldsSlots
<1> QED BY <1>1, <1>2, <1>3, RoomHolds, Invariance, PTL DEF Spec
=============================================================================
