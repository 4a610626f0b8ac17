---------------------------- MODULE ServerProofs ----------------------------
(***************************************************************************)
(* Proofs about Server for every set of calls, users and package ids, every*)
(* limit and every number of faults.                                       *)
(*                                                                         *)
(* The properties speak of calls that have ended; the invariant follows a  *)
(* call through its awaits.  IInv is TypeOK and the registries and windows, *)
(* the phases, the pools, what a request may have come to at each await, and*)
(* what a message may.                                                     *)
(***************************************************************************)
EXTENDS Server, TLAPS

\* The registries agree with each other, and are complete once verified; a
\* window holds calls of its own key.
RegistryInv ==
    /\ permissions = handlers \cap Guarded
    /\ phase \in {"wait", "running"} => PkgIDs \subseteq handlers
    /\ \A k \in WindowKeys : \A d \in window[k] : Key(d) = k

\* Calls are under way in the running phase only, what has been closed stays
\* closed, and a startup that still waits has an attempt left.
PhaseInv ==
    /\ phase = "failed" \/ retries < MaxRetries
    /\ \A c \in Calls : Under(c) => phase = "running"
    /\ phase \in {"gather", "done"} => Pending = {}
    /\ phase = "done" => \A t \in Tasks : tasks[t] = "ended"

\* A client has a pool and a connection belongs to a client until all of them
\* are forgotten; of a pool that is closed only the session task's is open again.
PoolInv ==
    /\ phase # "close" => closed = {}
    /\ closed \cap connected \subseteq {Auth}
    /\ IF phase \in {"gather", "done"}
       THEN pools = {} /\ instances = {} /\ connected \subseteq {Auth}
       ELSE instances \cup connected \subseteq pools

\* What holds of every call, whatever its protocol.
CallInv(c) ==
    /\ res[c] = "limited" /\ FailMode = "open" =>
          Cardinality(held[c]) >= Limit /\ \A d \in held[c] : Key(d) = Key(c)
    /\ res[c] = "nohandler" => op[c] = Unregistered
    /\ res[c] = "ok" => /\ op[c] \in PkgIDs
                        /\ op[c] \in Writes => op[c] \in Grants[User[c]]
    /\ c \in effect => op[c] \in Grants[User[c]] \cap Writes
    /\ logged[c] # "none" <=> fate[c] # "new"
    /\ logged[c] # "none" => pc[c] \in {"answer", "commit", "close", "done"}
    /\ logged[c] = "success" => res[c] = "ok"
    /\ res[c] = "ok" => pc[c] \in {"send", "audit", "answer", "commit", "done"}

\* A request: its change comes last, after its answer and its entry.
RequestInv(c) == Kind[c] = "http" =>
    /\ pc[c] \in {"idle", "count", "record", "serve", "audit", "answer", "commit", "done"}
    /\ c \in effect => pc[c] = "done" /\ res[c] = "ok"
    /\ res[c] = "ok" /\ pc[c] \in {"answer", "commit", "done"} => logged[c] = "success"
    /\ pc[c] = "commit" => res[c] = "ok" /\ op[c] \in Writes
    /\ res[c] = "ok" /\ pc[c] = "done" /\ op[c] \in Writes => c \in effect \cup undone
    /\ held[c] # {} => res[c] = "limited" /\ pc[c] \in {"audit", "answer", "done"}

\* A message: its change comes first, and what becomes of its connection
\* decides between the entry, the wrong entry and none.
MessageInv(c) == Kind[c] = "ws" =>
    /\ pc[c] \in {"idle", "count", "record", "refuse", "serve", "send", "audit", "close", "done"}
    /\ pc[c] # "idle" => conn[User[c]] # "none"
    /\ held[c] # {} => pc[c] = "refuse" \/ conn[User[c]] \in {"closed", "gone"}
    /\ res[c] = "ok" /\ op[c] \in Writes => c \in effect
    /\ c \in effect =>
          \/ pc[c] \in {"send", "audit"} /\ res[c] = "ok"
          \/ pc[c] \in {"send", "audit"} /\ res[c] = "refused" /\ c \in doubtful
          \/ pc[c] = "audit" /\ res[c] = "raised" /\ conn[User[c]] = "gone"
          \/ pc[c] \in {"close", "done"} /\ logged[c] = "success"
          \/ pc[c] = "done" /\ logged[c] = "none" /\ conn[User[c]] = "closed"
          \/ pc[c] \in {"close", "done"} /\ logged[c] = "error" /\ conn[User[c]] = "gone"
          \/ pc[c] = "done" /\ logged[c] = "error" /\ c \in doubtful

IInv ==
    /\ TypeOK
    /\ RegistryInv
    /\ PhaseInv
    /\ PoolInv
    /\ \A c \in Calls : CallInv(c)
    /\ \A c \in Calls : RequestInv(c)
    /\ \A c \in Calls : MessageInv(c)

-----------------------------------------------------------------------------
(* The pipeline.                                                           *)

\* The answer of the endpoint passes through Audit.
LEMMA EndpointAudited == AnsweredBy("Endpoint") = "audit"
<1>1. DOMAIN Pipeline = 1 .. 10
  BY DEF Pipeline
<1>2. \A i \in 1 .. 10 : Pipeline[i] = "Audit" <=> i = 7
  BY DEF Pipeline
<1>3. \A i \in 1 .. 10 : Pipeline[i] = "Endpoint" <=> i = 10
  BY DEF Pipeline
<1>4. Place("Audit") = 7 /\ Place("Endpoint") = 10
  BY <1>1, <1>2, <1>3 DEF Place
<1> QED BY <1>4 DEF AnsweredBy, Sees

\* Any answer goes on to its entry or to the client.
LEMMA AnswerGoesOn == \A m : AnsweredBy(m) \in {"audit", "answer"}
BY DEF AnsweredBy

-----------------------------------------------------------------------------
(* Types.                                                                  *)

\* The key of a call names one of the windows.
LEMMA KeyTyped == \A c \in Calls : Key(c) \in WindowKeys
BY CallsAssumption DEF Key, WindowKeys

\* Every step preserves the types.
LEMMA TypeInductive ==
    ASSUME IInv, [Next]_vars
    PROVE  TypeOK'
<1> USE CallsAssumption, NamesAssumption, BoundsAssumption
<1>a. TypeOK /\ PhaseInv
  BY DEF IInv
<1>1. CASE Import
  BY <1>a, <1>1, KeyTyped, AnswerGoesOn DEF Import, Advance, Collect, LoadHandlers,
      Reload, Register, Cleared, Startup, Shutdown, poolVars, registries, system, calls,
      ghosts, commits, TypeOK, LifespanTypeOK, PoolTypeOK, RouterTypeOK, Results
<1>2. CASE StartupStep
  <2>1. UNCHANGED <<registries, fate, calls, faults, ghosts>>
    BY <1>2 DEF StartupStep
  <2>2. CASE ValidateSettings \/ ValidateConnection("database", "redis") \/
             ValidateConnection("redis", "verify") \/ Verify(AllRegistered)
    <3>1. UNCHANGED <<retries, tasks>> /\ phase' \in Startup \cup {"failed"}
      BY <2>2 DEF ValidateSettings, ValidateConnection, Verify, Advance, Startup
    <3>2. LifespanTypeOK'
      BY <1>a, <3>1 DEF TypeOK, LifespanTypeOK
    <3>3. UNCHANGED poolVars
      BY <1>2, <2>2 DEF StartupStep, ValidateSettings, ValidateConnection,
          Verify, Advance, DatabaseReady
    <3> QED BY <1>a, <2>1, <3>2, <3>3 DEF poolVars, registries, system, calls, ghosts,
        commits, TypeOK, PoolTypeOK, RouterTypeOK
  <2>3. CASE DatabaseNotReady /\ UNCHANGED poolVars
    <3>1. retries' \in 0 .. MaxRetries /\ phase' \in {"wait", "failed"} /\ tasks' = tasks
      BY <1>a, <2>3 DEF DatabaseNotReady, Advance, PhaseInv, TypeOK, LifespanTypeOK
    <3>2. LifespanTypeOK'
      BY <1>a, <3>1 DEF TypeOK, LifespanTypeOK, Startup
    <3> QED BY <1>a, <2>1, <2>3, <3>2 DEF poolVars, registries, system, calls, ghosts,
        commits, TypeOK, PoolTypeOK, RouterTypeOK
  <2>4. CASE DatabaseReady /\ GetConnection(Auth)
    <3>1. LifespanTypeOK'
      BY <2>4 DEF DatabaseReady, Advance, LifespanTypeOK
    <3>2. PoolTypeOK'
      BY <1>a, <2>4 DEF GetConnection, Record, TypeOK, PoolTypeOK
    <3> QED BY <1>a, <2>1, <3>1, <3>2 DEF poolVars, registries, system, calls, ghosts,
        commits, TypeOK, RouterTypeOK
  <2> QED BY <1>2, <2>2, <2>3, <2>4 DEF StartupStep
<1>3. CASE Flush
  BY <1>a, <1>3, KeyTyped, AnswerGoesOn DEF Flush, Advance, Trail!Become,
      Pending, Fault, Startup, Shutdown, poolVars, registries, system, calls,
      ghosts, commits, TypeOK, LifespanTypeOK, PoolTypeOK, RouterTypeOK, Results
<1>4. CASE CloseOnePool
  BY <1>a, <1>4, KeyTyped, AnswerGoesOn DEF CloseOnePool, ClosePool, poolVars,
      registries, system, calls, ghosts, commits, TypeOK, LifespanTypeOK, PoolTypeOK,
      RouterTypeOK, Results
<1>5. CASE CancelAll
  BY <1>a, <1>5, KeyTyped, AnswerGoesOn DEF CancelAll, AllClosed, CancelTasks,
      Advance, Trail!Become, Pending, Startup, Shutdown, poolVars, registries,
      system, calls, ghosts, commits, TypeOK, LifespanTypeOK, PoolTypeOK, RouterTypeOK,
      Results
<1>6. CASE GatherTasks
  BY <1>a, <1>6, KeyTyped, AnswerGoesOn DEF GatherTasks, Gather, Advance,
      Startup, Shutdown, poolVars, registries, system, calls, ghosts, commits, TypeOK,
      LifespanTypeOK, PoolTypeOK, RouterTypeOK, Results
<1>7. CASE BeginShutdown
  BY <1>a, <1>7, KeyTyped, AnswerGoesOn DEF BeginShutdown, Advance, Startup,
      Shutdown, poolVars, registries, system, calls, ghosts, commits, TypeOK,
      LifespanTypeOK, PoolTypeOK, RouterTypeOK, Results
<1>8. CASE HealthCheck
  BY <1>a, <1>8, KeyTyped, AnswerGoesOn DEF HealthCheck, GetConnection,
      Record, Fault, poolVars, registries, system, calls, ghosts, commits, TypeOK,
      LifespanTypeOK, PoolTypeOK, RouterTypeOK, Results
<1>9. CASE StoreEntries
  BY <1>a, <1>9, KeyTyped, AnswerGoesOn DEF StoreEntries, Trail!Become,
      Pending, poolVars, registries, system, calls, ghosts, commits, TypeOK,
      LifespanTypeOK, PoolTypeOK, RouterTypeOK, Results
<1>10. CASE LoseEntries
  BY <1>a, <1>10, KeyTyped, AnswerGoesOn DEF LoseEntries, Trail!Become,
      Pending, Fault, poolVars, registries, system, calls, ghosts, commits, TypeOK,
      LifespanTypeOK, PoolTypeOK, RouterTypeOK, Results
<1>11. CASE \E t \in Tasks : RunTask(t)
  BY <1>a, <1>11, KeyTyped, AnswerGoesOn DEF RunTask, TaskRuns, Reconnect,
      poolVars, registries, system, calls, ghosts, commits, TypeOK, LifespanTypeOK, PoolTypeOK,
      RouterTypeOK, Results
<1>12. CASE \E t \in Tasks : FailTask(t)
  BY <1>a, <1>12, KeyTyped, AnswerGoesOn DEF FailTask, TaskFails, Fault,
      poolVars, registries, system, calls, ghosts, commits, TypeOK, LifespanTypeOK,
      PoolTypeOK, RouterTypeOK, Results
<1>13. CASE \E u \in Users : Connect(u)
  BY <1>a, <1>13, KeyTyped, AnswerGoesOn DEF Connect, GetConnection, Record,
      poolVars, registries, system, calls, ghosts, commits, TypeOK, LifespanTypeOK,
      PoolTypeOK, RouterTypeOK, Results
<1>14. CASE \E u \in Users : Disconnect(u)
  BY <1>a, <1>14, KeyTyped, AnswerGoesOn DEF Disconnect, poolVars, registries,
      system, calls, ghosts, commits, TypeOK, LifespanTypeOK, PoolTypeOK, RouterTypeOK,
      Results
<1>15. CASE \E k \in WindowKeys : WindowOver(k)
  BY <1>a, <1>15, KeyTyped, AnswerGoesOn DEF WindowOver, poolVars, registries,
      system, calls, ghosts, commits, TypeOK, LifespanTypeOK, PoolTypeOK, RouterTypeOK,
      Results
<1>16. CASE \E c \in Calls : Request(c)
  BY <1>a, <1>16, KeyTyped, AnswerGoesOn DEF Request, Begin, Goto, Result,
      AnsweredBy, poolVars, registries, system, calls, ghosts, commits, TypeOK,
      LifespanTypeOK, PoolTypeOK, RouterTypeOK, Results
<1>17. CASE \E c \in Calls : ReceiveMessage(c)
  BY <1>a, <1>17, KeyTyped, AnswerGoesOn DEF ReceiveMessage, Begin, Goto,
      poolVars, registries, system, calls, ghosts, commits, TypeOK, LifespanTypeOK,
      PoolTypeOK, RouterTypeOK, Results
<1>18. CASE \E c \in Calls : CountWindow(c)
  BY <1>a, <1>18, KeyTyped, AnswerGoesOn DEF CountWindow, GetConnection,
      Record, Refused, Goto, Result, AnsweredBy, poolVars, registries, system,
      calls, ghosts, commits, TypeOK, LifespanTypeOK, PoolTypeOK, RouterTypeOK, Results
<1>19. CASE \E c \in Calls : AddToWindow(c)
  BY <1>a, <1>19, KeyTyped, AnswerGoesOn DEF AddToWindow, Goto, poolVars,
      registries, system, calls, ghosts, commits, TypeOK, LifespanTypeOK, PoolTypeOK,
      RouterTypeOK, Results
<1>20. CASE \E c \in Calls : CloseRefused(c)
  <2> PICK c \in Calls : CloseRefused(c)
    BY <1>20
  <2>1. User[c] \in Users /\ (IF conn[User[c]] = "open" THEN "closed" ELSE conn[User[c]])
                               \in {"none", "open", "closed", "gone"}
    BY <1>a DEF TypeOK
  <2>2. conn' \in [Users -> {"none", "open", "closed", "gone"}]
    BY <1>a, <2>1 DEF CloseRefused, TypeOK
  <2>3. pc' \in [Calls -> {"idle", "count", "record", "serve", "send", "audit",
                          "answer", "commit", "refuse", "close", "done"}]
    BY <1>a DEF CloseRefused, Goto, TypeOK
  <2> QED
    BY <1>a, <2>2, <2>3 DEF CloseRefused, system, registries, poolVars, ghosts,
        commits, TypeOK, LifespanTypeOK, PoolTypeOK, RouterTypeOK, Results
<1>21. CASE \E c \in Calls : Endpoint(c)
  BY <1>a, <1>21, KeyTyped, AnswerGoesOn DEF Endpoint, RejectSize, Forbid,
      Serving, Goto, Result, AnsweredBy, poolVars, registries, system, calls,
      ghosts, commits, TypeOK, LifespanTypeOK, PoolTypeOK, RouterTypeOK, Results
<1>22. CASE \E c \in Calls : HandleMessage(c)
  BY <1>a, <1>22, KeyTyped, AnswerGoesOn DEF HandleMessage, Undecodable,
      Route, Serving, Goto, Result, poolVars, registries, system, calls,
      ghosts, commits, TypeOK, LifespanTypeOK, PoolTypeOK, RouterTypeOK, Results
<1>23. CASE \E c \in Calls : SendResponse(c)
  BY <1>a, <1>23, KeyTyped, AnswerGoesOn DEF SendResponse, Goto, Result,
      poolVars, registries, system, calls, ghosts, commits, TypeOK, LifespanTypeOK,
      PoolTypeOK, RouterTypeOK, Results
<1>24. CASE \E c \in Calls : WriteAudit(c)
  BY <1>a, <1>24, KeyTyped, AnswerGoesOn DEF WriteAudit, Goto, AfterAudit,
      Outcome, Trail!Become, poolVars, registries, system, calls, ghosts, commits,
      TypeOK, LifespanTypeOK, PoolTypeOK, RouterTypeOK, Results
<1>25. CASE \E c \in Calls : CloseAfterError(c)
  <2> PICK c \in Calls : CloseAfterError(c)
    BY <1>25
  <2>1. User[c] \in Users /\ (IF conn[User[c]] = "open" THEN "closed" ELSE conn[User[c]])
                               \in {"none", "open", "closed", "gone"}
    BY <1>a DEF TypeOK
  <2>2. conn' \in [Users -> {"none", "open", "closed", "gone"}]
    BY <1>a, <2>1 DEF CloseAfterError, TypeOK
  <2>3. pc' \in [Calls -> {"idle", "count", "record", "serve", "send", "audit",
                          "answer", "commit", "refuse", "close", "done"}]
    BY <1>a DEF CloseAfterError, Goto, TypeOK
  <2> QED
    BY <1>a, <2>2, <2>3 DEF CloseAfterError, system, registries, poolVars, ghosts,
        commits, TypeOK, LifespanTypeOK, PoolTypeOK, RouterTypeOK, Results
<1>26. CASE \E c \in Calls : Answer(c)
  BY <1>a, <1>26, KeyTyped, AnswerGoesOn DEF Answer, Goto, poolVars,
      registries, system, calls, ghosts, commits, TypeOK, LifespanTypeOK, PoolTypeOK,
      RouterTypeOK, Results
<1>27. CASE \E c \in Calls : CommitSession(c)
  BY <1>a, <1>27, KeyTyped, AnswerGoesOn DEF CommitSession, CommitRaises, Goto, Fault,
      poolVars, registries, system, calls, ghosts, commits, TypeOK, LifespanTypeOK,
      PoolTypeOK, RouterTypeOK, Results
<1>28. CASE \E c \in Calls : LimiterFails(c)
  BY <1>a, <1>28, KeyTyped, AnswerGoesOn DEF LimiterFails, Refused, Goto,
      Result, GetConnection, Record, Fault, AnsweredBy, poolVars, registries,
      system, calls, ghosts, commits, TypeOK, LifespanTypeOK, PoolTypeOK, RouterTypeOK,
      Results
<1>29. CASE \E c \in Calls : HandlerRaises(c)
  BY <1>a, <1>29, KeyTyped, AnswerGoesOn DEF HandlerRaises, Serving, Goto,
      Result, Fault, poolVars, registries, system, calls, ghosts, commits, TypeOK,
      LifespanTypeOK, PoolTypeOK, RouterTypeOK, Results
<1>30. CASE UNCHANGED vars
  BY <1>a, <1>30 DEF vars, TypeOK, LifespanTypeOK, PoolTypeOK, RouterTypeOK,
      Results
<1>31. CASE Listen
  BY <1>a, <1>31 DEF Listen, Reconnect, poolVars, registries, system, calls,
      ghosts, commits, TypeOK, LifespanTypeOK, PoolTypeOK, RouterTypeOK, Results
<1>32. CASE \E c \in Calls : HandlerInDoubt(c)
  BY <1>a, <1>32 DEF HandlerInDoubt, CommitRaises, Serving, Goto, Result, Fault,
      poolVars, registries, system, calls, ghosts, commits, TypeOK,
      LifespanTypeOK, PoolTypeOK, RouterTypeOK, Results
<1> QED
  BY <1>1, <1>2, <1>3, <1>4, <1>5, <1>6, <1>7, <1>8, <1>9, <1>10, <1>11,
      <1>12, <1>13, <1>14, <1>15, <1>16, <1>17, <1>18, <1>19, <1>20, <1>21,
      <1>22, <1>23, <1>24, <1>25, <1>26, <1>27, <1>28, <1>29, <1>30, <1>31,
      <1>32 DEF Next, LifespanStep, Serve

-----------------------------------------------------------------------------
(* What a step may do to a call.                                           *)

\* The step is not one of c.
Same(c) ==
    /\ pc'[c] = pc[c] /\ op'[c] = op[c] /\ res'[c] = res[c]
    /\ logged'[c] = logged[c] /\ held'[c] = held[c]
    /\ c \in effect' <=> c \in effect
    /\ c \in undone' <=> c \in undone
    /\ c \in doubtful' <=> c \in doubtful
    /\ fate'[c] = "new" <=> fate[c] = "new"

Own(c) == \/ Request(c) \/ ReceiveMessage(c)
          \/ Serve(c) \/ LimiterFails(c) \/ HandlerRaises(c) \/ HandlerInDoubt(c)

\* A step is one of a call, or leaves the call as it is.
LEMMA OwnOrSame ==
    ASSUME IInv, [Next]_vars
    PROVE  \A c \in Calls : Own(c) \/ Same(c)
<1>a. TypeOK
  BY DEF IInv
<1> USE DEF TypeOK, poolVars, system, registries, calls, ghosts, commits, Same
<1>1. CASE Import
  BY <1>a, <1>1 DEF Import
<1>2. CASE StartupStep
  BY <1>a, <1>2 DEF StartupStep
<1>3. CASE Flush
  BY <1>a, <1>3 DEF Flush, Trail!Become, Pending
<1>4. CASE CloseOnePool
  BY <1>a, <1>4 DEF CloseOnePool
<1>5. CASE CancelAll
  BY <1>a, <1>5 DEF CancelAll, Trail!Become, Pending
<1>6. CASE GatherTasks
  BY <1>a, <1>6 DEF GatherTasks
<1>7. CASE BeginShutdown
  BY <1>a, <1>7 DEF BeginShutdown
<1>8. CASE HealthCheck
  BY <1>a, <1>8 DEF HealthCheck
<1>9. CASE StoreEntries
  BY <1>a, <1>9 DEF StoreEntries, Trail!Become, Pending
<1>10. CASE LoseEntries
  BY <1>a, <1>10 DEF LoseEntries, Trail!Become, Pending
<1>11. CASE \E t \in Tasks : RunTask(t)
  BY <1>a, <1>11 DEF RunTask
<1>12. CASE \E t \in Tasks : FailTask(t)
  BY <1>a, <1>12 DEF FailTask
<1>13. CASE \E u \in Users : Connect(u)
  BY <1>a, <1>13 DEF Connect
<1>14. CASE \E u \in Users : Disconnect(u)
  BY <1>a, <1>14 DEF Disconnect
<1>15. CASE \E k \in WindowKeys : WindowOver(k)
  BY <1>a, <1>15 DEF WindowOver
<1>16. CASE \E c \in Calls : Request(c)
  <2>1. PICK c \in Calls : Request(c)
    BY <1>16
  <2>2. \A d \in Calls : d # c => Same(d)
    BY <1>a, <2>1 DEF Request, Begin, Goto, Result, AnsweredBy
  <2> QED BY <2>1, <2>2 DEF Own, Serve
<1>17. CASE \E c \in Calls : ReceiveMessage(c)
  <2>1. PICK c \in Calls : ReceiveMessage(c)
    BY <1>17
  <2>2. \A d \in Calls : d # c => Same(d)
    BY <1>a, <2>1 DEF ReceiveMessage, Begin, Goto
  <2> QED BY <2>1, <2>2 DEF Own, Serve
<1>18. CASE \E c \in Calls : CountWindow(c)
  <2>1. PICK c \in Calls : CountWindow(c)
    BY <1>18
  <2>2. \A d \in Calls : d # c => Same(d)
    BY <1>a, <2>1 DEF CountWindow, GetConnection, Record, Refused, Goto,
        Result, AnsweredBy
  <2> QED BY <2>1, <2>2 DEF Own, Serve
<1>19. CASE \E c \in Calls : AddToWindow(c)
  <2>1. PICK c \in Calls : AddToWindow(c)
    BY <1>19
  <2>2. \A d \in Calls : d # c => Same(d)
    BY <1>a, <2>1 DEF AddToWindow, Goto
  <2> QED BY <2>1, <2>2 DEF Own, Serve
<1>20. CASE \E c \in Calls : CloseRefused(c)
  <2>1. PICK c \in Calls : CloseRefused(c)
    BY <1>20
  <2>2. \A d \in Calls : d # c => Same(d)
    BY <1>a, <2>1 DEF CloseRefused, Goto
  <2> QED BY <2>1, <2>2 DEF Own, Serve
<1>21. CASE \E c \in Calls : Endpoint(c)
  <2>1. PICK c \in Calls : Endpoint(c)
    BY <1>21
  <2>2. \A d \in Calls : d # c => Same(d)
    BY <1>a, <2>1 DEF Endpoint, RejectSize, Forbid, Serving, Goto, Result,
        AnsweredBy
  <2> QED BY <2>1, <2>2 DEF Own, Serve
<1>22. CASE \E c \in Calls : HandleMessage(c)
  <2>1. PICK c \in Calls : HandleMessage(c)
    BY <1>22
  <2>2. \A d \in Calls : d # c => Same(d)
    BY <1>a, <2>1 DEF HandleMessage, Undecodable, Route, Serving, Goto, Result
  <2> QED BY <2>1, <2>2 DEF Own, Serve
<1>23. CASE \E c \in Calls : SendResponse(c)
  <2>1. PICK c \in Calls : SendResponse(c)
    BY <1>23
  <2>2. \A d \in Calls : d # c => Same(d)
    BY <1>a, <2>1 DEF SendResponse, Goto, Result
  <2> QED BY <2>1, <2>2 DEF Own, Serve
<1>24. CASE \E c \in Calls : WriteAudit(c)
  <2>1. PICK c \in Calls : WriteAudit(c)
    BY <1>24
  <2>2. \A d \in Calls : d # c => Same(d)
    BY <1>a, <2>1 DEF WriteAudit, Goto, AfterAudit, Outcome, Trail!Become
  <2> QED BY <2>1, <2>2 DEF Own, Serve
<1>25. CASE \E c \in Calls : CloseAfterError(c)
  <2>1. PICK c \in Calls : CloseAfterError(c)
    BY <1>25
  <2>2. \A d \in Calls : d # c => Same(d)
    BY <1>a, <2>1 DEF CloseAfterError, Goto
  <2> QED BY <2>1, <2>2 DEF Own, Serve
<1>26. CASE \E c \in Calls : Answer(c)
  <2>1. PICK c \in Calls : Answer(c)
    BY <1>26
  <2>2. \A d \in Calls : d # c => Same(d)
    BY <1>a, <2>1 DEF Answer, Goto
  <2> QED BY <2>1, <2>2 DEF Own, Serve
<1>27. CASE \E c \in Calls : CommitSession(c)
  <2>1. PICK c \in Calls : CommitSession(c)
    BY <1>27
  <2>2. \A d \in Calls : d # c => Same(d)
    BY <1>a, <2>1 DEF CommitSession, CommitRaises, Goto, Fault
  <2> QED BY <2>1, <2>2 DEF Own, Serve
<1>28. CASE \E c \in Calls : LimiterFails(c)
  <2>1. PICK c \in Calls : LimiterFails(c)
    BY <1>28
  <2>2. \A d \in Calls : d # c => Same(d)
    BY <1>a, <2>1 DEF LimiterFails, Refused, Goto, Result, GetConnection,
        Record, Fault, AnsweredBy
  <2> QED BY <2>1, <2>2 DEF Own, Serve
<1>29. CASE \E c \in Calls : HandlerRaises(c)
  <2>1. PICK c \in Calls : HandlerRaises(c)
    BY <1>29
  <2>2. \A d \in Calls : d # c => Same(d)
    BY <1>a, <2>1 DEF HandlerRaises, Serving, Goto, Result, Fault
  <2> QED BY <2>1, <2>2 DEF Own, Serve
<1>30. CASE UNCHANGED vars
  BY <1>30 DEF vars
<1>31. CASE Listen
  BY <1>a, <1>31 DEF Listen
<1>32. CASE \E c \in Calls : HandlerInDoubt(c)
  <2>1. PICK c \in Calls : HandlerInDoubt(c)
    BY <1>32
  <2>2. \A d \in Calls : d # c => Same(d)
    BY <1>a, <2>1 DEF HandlerInDoubt, CommitRaises, Serving, Goto, Result
  <2> QED BY <2>1, <2>2 DEF Own
<1> QED
  BY <1>1, <1>2, <1>3, <1>4, <1>5, <1>6, <1>7, <1>8, <1>9, <1>10, <1>11,
      <1>12, <1>13, <1>14, <1>15, <1>16, <1>17, <1>18, <1>19, <1>20, <1>21,
      <1>22, <1>23, <1>24, <1>25, <1>26, <1>27, <1>28, <1>29, <1>30, <1>31,
      <1>32 DEF Next, LifespanStep, Serve

\* A connection closed or gone stays so, and one there was does not go away.
LEMMA ConnectionsEnd ==
    ASSUME IInv, [Next]_vars
    PROVE  \A u \in Users : /\ conn[u] \in {"closed", "gone"} => conn'[u] = conn[u]
                            /\ conn[u] # "none" => conn'[u] # "none"
<1>a. TypeOK
  BY DEF IInv
<1> USE CallsAssumption DEF TypeOK, calls
<1>1. CASE Import
  BY <1>a, <1>1 DEF Import
<1>2. CASE StartupStep
  BY <1>a, <1>2 DEF StartupStep
<1>3. CASE Flush
  BY <1>a, <1>3 DEF Flush
<1>4. CASE CloseOnePool
  BY <1>a, <1>4 DEF CloseOnePool
<1>5. CASE CancelAll
  BY <1>a, <1>5 DEF CancelAll
<1>6. CASE GatherTasks
  BY <1>a, <1>6 DEF GatherTasks
<1>7. CASE BeginShutdown
  BY <1>a, <1>7 DEF BeginShutdown
<1>8. CASE HealthCheck
  BY <1>a, <1>8 DEF HealthCheck
<1>9. CASE StoreEntries
  BY <1>a, <1>9 DEF StoreEntries
<1>10. CASE LoseEntries
  BY <1>a, <1>10 DEF LoseEntries
<1>11. CASE \E t \in Tasks : RunTask(t)
  BY <1>a, <1>11 DEF RunTask
<1>12. CASE \E t \in Tasks : FailTask(t)
  BY <1>a, <1>12 DEF FailTask
<1>13. CASE \E u \in Users : Connect(u)
  BY <1>a, <1>13 DEF Connect
<1>14. CASE \E u \in Users : Disconnect(u)
  BY <1>a, <1>14 DEF Disconnect
<1>15. CASE \E k \in WindowKeys : WindowOver(k)
  BY <1>a, <1>15 DEF WindowOver
<1>16. CASE \E c \in Calls : Request(c)
  BY <1>a, <1>16 DEF Request, Begin
<1>17. CASE \E c \in Calls : ReceiveMessage(c)
  BY <1>a, <1>17 DEF ReceiveMessage, Begin
<1>18. CASE \E c \in Calls : CountWindow(c)
  BY <1>a, <1>18 DEF CountWindow
<1>19. CASE \E c \in Calls : AddToWindow(c)
  BY <1>a, <1>19 DEF AddToWindow
<1>20. CASE \E c \in Calls : CloseRefused(c)
  BY <1>a, <1>20 DEF CloseRefused
<1>21. CASE \E c \in Calls : Endpoint(c)
  BY <1>a, <1>21 DEF Endpoint
<1>22. CASE \E c \in Calls : HandleMessage(c)
  BY <1>a, <1>22 DEF HandleMessage
<1>23. CASE \E c \in Calls : SendResponse(c)
  BY <1>a, <1>23 DEF SendResponse
<1>24. CASE \E c \in Calls : WriteAudit(c)
  BY <1>a, <1>24 DEF WriteAudit
<1>25. CASE \E c \in Calls : CloseAfterError(c)
  BY <1>a, <1>25 DEF CloseAfterError
<1>26. CASE \E c \in Calls : Answer(c)
  BY <1>a, <1>26 DEF Answer
<1>27. CASE \E c \in Calls : CommitSession(c)
  BY <1>a, <1>27 DEF CommitSession
<1>28. CASE \E c \in Calls : LimiterFails(c)
  BY <1>a, <1>28 DEF LimiterFails
<1>29. CASE \E c \in Calls : HandlerRaises(c)
  BY <1>a, <1>29 DEF HandlerRaises
<1>30. CASE UNCHANGED vars
  BY <1>30 DEF vars
<1>31. CASE Listen
  BY <1>a, <1>31 DEF Listen
<1>32. CASE \E c \in Calls : HandlerInDoubt(c)
  BY <1>a, <1>32 DEF HandlerInDoubt
<1> QED
  BY <1>1, <1>2, <1>3, <1>4, <1>5, <1>6, <1>7, <1>8, <1>9, <1>10, <1>11,
      <1>12, <1>13, <1>14, <1>15, <1>16, <1>17, <1>18, <1>19, <1>20, <1>21,
      <1>22, <1>23, <1>24, <1>25, <1>26, <1>27, <1>28, <1>29, <1>30, <1>31,
      <1>32 DEF Next, LifespanStep, Serve

-----------------------------------------------------------------------------
(* The registries and the windows.                                         *)

\* The registries change together, when the modules are loaded; a window takes
\* a call in under its key.
LEMMA RegistryInductive ==
    ASSUME IInv, [Next]_vars
    PROVE  RegistryInv'
<1>a. TypeOK /\ RegistryInv
  BY DEF IInv
<1> USE CallsAssumption
<1>1. CASE Import
  BY <1>a, <1>1 DEF Import, Advance, Collect, LoadHandlers, Reload, Register, Cleared,
      RegistryInv, calls
<1>2. CASE StartupStep
  <2>1. UNCHANGED <<registries, calls>>
    BY <1>2 DEF StartupStep
  <2>2. phase' = "wait" => phase = "wait" \/ AllRegistered
    BY <1>2 DEF StartupStep, ValidateSettings, ValidateConnection, Verify,
        DatabaseReady, DatabaseNotReady, Advance
  <2>3. phase' = "running" => phase = "wait"
    BY <1>2 DEF StartupStep, ValidateSettings, ValidateConnection, Verify,
        DatabaseReady, DatabaseNotReady, Advance
  <2> QED BY <1>a, <2>1, <2>2, <2>3 DEF RegistryInv, AllRegistered, registries, calls
<1>3. CASE Flush
  BY <1>a, <1>3 DEF Flush, Advance, TypeOK, RegistryInv, system, registries,
      calls
<1>4. CASE CloseOnePool
  BY <1>a, <1>4 DEF CloseOnePool, TypeOK, RegistryInv, system, registries,
      calls
<1>5. CASE CancelAll
  BY <1>a, <1>5 DEF CancelAll, CancelTasks, Advance, TypeOK, RegistryInv,
      system, registries, calls
<1>6. CASE GatherTasks
  BY <1>a, <1>6 DEF GatherTasks, Gather, Advance, TypeOK, RegistryInv, system,
      registries, calls
<1>7. CASE BeginShutdown
  BY <1>a, <1>7 DEF BeginShutdown, Advance, TypeOK, RegistryInv, system,
      registries, calls
<1>8. CASE HealthCheck
  BY <1>a, <1>8 DEF HealthCheck, TypeOK, RegistryInv, system, registries,
      calls
<1>9. CASE StoreEntries
  BY <1>a, <1>9 DEF StoreEntries, TypeOK, RegistryInv, system, registries,
      calls
<1>10. CASE LoseEntries
  BY <1>a, <1>10 DEF LoseEntries, TypeOK, RegistryInv, system, registries,
      calls
<1>11. CASE \E t \in Tasks : RunTask(t)
  BY <1>a, <1>11 DEF RunTask, TaskRuns, TypeOK, RegistryInv, system,
      registries, calls
<1>12. CASE \E t \in Tasks : FailTask(t)
  BY <1>a, <1>12 DEF FailTask, TaskFails, TypeOK, RegistryInv, system,
      registries, calls
<1>13. CASE \E u \in Users : Connect(u)
  BY <1>a, <1>13 DEF Connect, TypeOK, RegistryInv, system, registries, calls
<1>14. CASE \E u \in Users : Disconnect(u)
  BY <1>a, <1>14 DEF Disconnect, TypeOK, RegistryInv, system, registries,
      calls
<1>15. CASE \E k \in WindowKeys : WindowOver(k)
  BY <1>a, <1>15 DEF WindowOver, TypeOK, RegistryInv, system, registries,
      calls
<1>16. CASE \E c \in Calls : Request(c)
  BY <1>a, <1>16 DEF Request, Begin, TypeOK, RegistryInv, system, registries,
      calls
<1>17. CASE \E c \in Calls : ReceiveMessage(c)
  BY <1>a, <1>17 DEF ReceiveMessage, Begin, TypeOK, RegistryInv, system,
      registries, calls
<1>18. CASE \E c \in Calls : CountWindow(c)
  BY <1>a, <1>18 DEF CountWindow, TypeOK, RegistryInv, system, registries,
      calls
<1>19. CASE \E c \in Calls : AddToWindow(c)
  <2> PICK c \in Calls : AddToWindow(c)
    BY <1>19
  <2>1. UNCHANGED <<phase, registries>>
    BY DEF AddToWindow, system, registries
  <2>2. \A k \in WindowKeys : window'[k] \subseteq window[k] \cup {c} /\
                             (c \in window'[k] \ window[k] => k = Key(c))
    BY <1>a, KeyTyped DEF AddToWindow, TypeOK
  <2> QED BY <1>a, <2>1, <2>2 DEF RegistryInv, registries
<1>20. CASE \E c \in Calls : CloseRefused(c)
  BY <1>a, <1>20 DEF CloseRefused, TypeOK, RegistryInv, system, registries,
      calls
<1>21. CASE \E c \in Calls : Endpoint(c)
  BY <1>a, <1>21 DEF Endpoint, TypeOK, RegistryInv, system, registries, calls
<1>22. CASE \E c \in Calls : HandleMessage(c)
  BY <1>a, <1>22 DEF HandleMessage, TypeOK, RegistryInv, system, registries,
      calls
<1>23. CASE \E c \in Calls : SendResponse(c)
  BY <1>a, <1>23 DEF SendResponse, TypeOK, RegistryInv, system, registries,
      calls
<1>24. CASE \E c \in Calls : WriteAudit(c)
  BY <1>a, <1>24 DEF WriteAudit, TypeOK, RegistryInv, system, registries,
      calls
<1>25. CASE \E c \in Calls : CloseAfterError(c)
  BY <1>a, <1>25 DEF CloseAfterError, TypeOK, RegistryInv, system, registries,
      calls
<1>26. CASE \E c \in Calls : Answer(c)
  BY <1>a, <1>26 DEF Answer, TypeOK, RegistryInv, system, registries, calls
<1>27. CASE \E c \in Calls : CommitSession(c)
  BY <1>a, <1>27 DEF CommitSession, TypeOK, RegistryInv, system, registries,
      calls
<1>28. CASE \E c \in Calls : LimiterFails(c)
  BY <1>a, <1>28 DEF LimiterFails, TypeOK, RegistryInv, system, registries,
      calls
<1>29. CASE \E c \in Calls : HandlerRaises(c)
  BY <1>a, <1>29 DEF HandlerRaises, TypeOK, RegistryInv, system, registries,
      calls
<1>30. CASE UNCHANGED vars
  BY <1>a, <1>30 DEF vars, RegistryInv
<1>31. CASE Listen
  BY <1>a, <1>31 DEF Listen, RegistryInv, system, registries, calls
<1>32. CASE \E c \in Calls : HandlerInDoubt(c)
  BY <1>a, <1>32 DEF HandlerInDoubt, RegistryInv, system, registries
<1> QED
  BY <1>1, <1>2, <1>3, <1>4, <1>5, <1>6, <1>7, <1>8, <1>9, <1>10, <1>11,
      <1>12, <1>13, <1>14, <1>15, <1>16, <1>17, <1>18, <1>19, <1>20, <1>21,
      <1>22, <1>23, <1>24, <1>25, <1>26, <1>27, <1>28, <1>29, <1>30, <1>31,
      <1>32 DEF Next, LifespanStep, Serve

-----------------------------------------------------------------------------
(* The phases.                                                             *)

\* A call takes its steps while the server runs, and leaves the phase alone.
LEMMA CallsRun ==
    ASSUME IInv, NEW c \in Calls, Own(c)
    PROVE  /\ phase = "running" /\ UNCHANGED <<phase, retries>>
           /\ UNCHANGED poolVars \/ GetConnection(Main)
<1>a. Under(c) => phase = "running"
  BY DEF IInv, PhaseInv
<1> USE DEF system
<1>1. CASE Request(c)
  BY <1>a, <1>1 DEF Request, Begin
<1>2. CASE ReceiveMessage(c)
  BY <1>a, <1>2 DEF ReceiveMessage, Begin
<1>3. CASE CountWindow(c)
  BY <1>a, <1>3 DEF CountWindow, Under
<1>4. CASE AddToWindow(c)
  BY <1>a, <1>4 DEF AddToWindow, Goto, Under
<1>5. CASE CloseRefused(c)
  BY <1>a, <1>5 DEF CloseRefused, Goto, Under
<1>6. CASE Endpoint(c)
  BY <1>a, <1>6 DEF Endpoint, Under
<1>7. CASE HandleMessage(c)
  BY <1>a, <1>7 DEF HandleMessage, Under
<1>8. CASE SendResponse(c)
  BY <1>a, <1>8 DEF SendResponse, Under
<1>9. CASE WriteAudit(c)
  BY <1>a, <1>9 DEF WriteAudit, Goto, Under
<1>10. CASE CloseAfterError(c)
  BY <1>a, <1>10 DEF CloseAfterError, Goto, Under
<1>11. CASE Answer(c)
  BY <1>a, <1>11 DEF Answer, Goto, Under
<1>12. CASE CommitSession(c)
  BY <1>a, <1>12 DEF CommitSession, Goto, Under
<1>13. CASE LimiterFails(c)
  BY <1>a, <1>13 DEF LimiterFails, Under
<1>14. CASE HandlerRaises(c)
  BY <1>a, <1>14 DEF HandlerRaises, Serving, Goto, Under
<1>15. CASE HandlerInDoubt(c)
  BY <1>a, <1>15 DEF HandlerInDoubt, Under
<1> QED
  BY <1>1, <1>2, <1>3, <1>4, <1>5, <1>6, <1>7, <1>8, <1>9, <1>10, <1>11,
      <1>12, <1>13, <1>14, <1>15 DEF Own, Serve

\* The phases are left in their order.
LEMMA PhaseInductive ==
    ASSUME IInv, [Next]_vars
    PROVE  PhaseInv'
<1>a. TypeOK /\ PhaseInv
  BY DEF IInv
<1>b. CASE \E c \in Calls : Own(c)
  BY <1>a, <1>b, CallsRun DEF PhaseInv
<1>c. CASE ~\E c \in Calls : Own(c)
  <2>1. \A c \in Calls : Same(c)
    BY <1>c, OwnOrSame
  <2>2. \A c \in Calls : Under(c)' <=> Under(c)
    BY <2>1 DEF Same, Under
  <2> USE <1>a, <2>2, BoundsAssumption DEF PhaseInv, TypeOK, LifespanTypeOK
  <2>3. CASE Import
    BY <2>3 DEF Import, Advance
  <2>4. CASE StartupStep
    <3>1. CASE ValidateSettings \/ ValidateConnection("database", "redis") \/
               ValidateConnection("redis", "verify") \/ Verify(AllRegistered)
      <4>1. /\ retries' = retries /\ phase \notin {"failed", "running"}
            /\ phase' \in Startup \cup {"failed"}
        BY <3>1 DEF ValidateSettings, ValidateConnection, Verify, Advance, Startup
      <4> QED BY <4>1 DEF Startup
    <3>2. CASE DatabaseNotReady
      BY <3>2 DEF DatabaseNotReady, Advance
    <3>3. CASE DatabaseReady
      BY <3>3 DEF DatabaseReady, Advance
    <3> QED BY <2>4, <3>1, <3>2, <3>3 DEF StartupStep
  <2>5. CASE Flush
    BY <2>5 DEF Flush, Advance, Trail!Become, Pending
  <2>6. CASE CloseOnePool
    BY <2>6 DEF CloseOnePool, ClosePool, system
  <2>7. CASE CancelAll
    BY <2>7 DEF CancelAll, AllClosed, CancelTasks, Advance, Trail!Become, Pending
  <2>8. CASE GatherTasks
    BY <2>8 DEF GatherTasks, Gather, Advance, Pending, poolVars
  <2>9. CASE BeginShutdown
    BY <2>9 DEF BeginShutdown, Advance
  <2>10. CASE HealthCheck
    BY <2>10 DEF HealthCheck, system
  <2>11. CASE StoreEntries
    BY <2>11 DEF StoreEntries, Trail!Become, Pending, system, poolVars
  <2>12. CASE LoseEntries
    BY <2>12 DEF LoseEntries, Trail!Become, Pending, system, poolVars
  <2>13. CASE \E t \in Tasks : RunTask(t)
    BY <2>13 DEF RunTask, TaskRuns, Pending
  <2>14. CASE \E t \in Tasks : FailTask(t)
    BY <2>14 DEF FailTask, TaskFails, poolVars, Pending
  <2>15. CASE \E u \in Users : Connect(u)
    BY <2>15 DEF Connect, system
  <2>16. CASE \E u \in Users : Disconnect(u)
    BY <2>16 DEF Disconnect, system
  <2>17. CASE \E k \in WindowKeys : WindowOver(k)
    BY <2>17 DEF WindowOver, system
  <2>18. CASE Listen
    BY <2>18 DEF Listen, Pending, system
  <2>19. CASE UNCHANGED vars
    BY <2>19 DEF vars, Pending
  <2> QED
    BY <1>c, <2>3, <2>4, <2>5, <2>6, <2>7, <2>8, <2>9, <2>10, <2>11, <2>12,
        <2>13, <2>14, <2>15, <2>16, <2>17, <2>18, <2>19
        DEF Own, Next, LifespanStep
<1> QED BY <1>b, <1>c

\* Asking for a connection keeps the pools in order while the server runs.
LEMMA AskedFor ==
    ASSUME PoolInv, phase \notin {"close", "gather", "done"}, NEW db \in Dbs,
           GetConnection(db), phase' \notin {"close", "gather", "done"}
    PROVE  PoolInv'
BY DEF PoolInv, GetConnection

\* A step that leaves the pools alone, in a phase that does not end yet.
LEMMA PoolsLeft ==
    ASSUME PoolInv, UNCHANGED poolVars,
           \/ phase' = phase
           \/ phase # "close" /\ {phase, phase'} \cap {"gather", "done"} = {}
    PROVE  PoolInv'
BY DEF PoolInv, poolVars

\* The pools are made, closed and forgotten in this order, however the session
\* task connects meanwhile.
LEMMA PoolsInductive ==
    ASSUME IInv, [Next]_vars
    PROVE  PoolInv'
<1>a. TypeOK /\ PoolInv /\ Main \in Dbs /\ Auth \in Dbs
  BY NamesAssumption DEF IInv
<1> USE <1>a
<1>1. CASE \E c \in Calls : Own(c)
  <2>1. /\ phase = "running" /\ phase' = phase
        /\ UNCHANGED poolVars \/ GetConnection(Main)
    BY <1>1, CallsRun
  <2> QED BY <2>1, AskedFor, PoolsLeft
<1>2. CASE Import
  BY <1>2, PoolsLeft DEF Import, Advance
<1>3. CASE StartupStep
  <2>1. /\ phase \notin {"close", "gather", "done"}
        /\ phase' \notin {"close", "gather", "done"}
        /\ UNCHANGED poolVars \/ GetConnection(Auth)
    BY <1>3 DEF StartupStep, ValidateSettings, ValidateConnection, Verify,
        DatabaseReady, DatabaseNotReady, Advance
  <2> QED BY <2>1, AskedFor, PoolsLeft
<1>4. CASE Flush
  BY <1>4, PoolsLeft DEF Flush, Advance
<1>5. CASE CloseOnePool
  BY <1>5 DEF CloseOnePool, ClosePool, system, PoolInv
<1>6. CASE CancelAll
  BY <1>6 DEF CancelAll, AllClosed, CancelTasks, Advance, PoolInv
<1>7. CASE GatherTasks
  BY <1>7 DEF GatherTasks, Gather, Advance, poolVars, PoolInv
<1>8. CASE BeginShutdown
  BY <1>8, PoolsLeft DEF BeginShutdown, Advance
<1>9. CASE HealthCheck \/ \E u \in Users : Connect(u)
  <2>1. phase = "running" /\ phase' = phase /\ (GetConnection(Main) \/ GetConnection(Auth))
    BY <1>9 DEF HealthCheck, Connect, system
  <2> QED BY <2>1, AskedFor
<1>10. CASE \/ StoreEntries \/ LoseEntries
            \/ \E t \in Tasks : FailTask(t)
            \/ \E u \in Users : Disconnect(u)
            \/ \E k \in WindowKeys : WindowOver(k)
  <2>1. phase' = phase /\ UNCHANGED poolVars
    BY <1>10 DEF StoreEntries, LoseEntries, FailTask, TaskFails, Disconnect,
        WindowOver, system
  <2> QED BY <2>1, PoolsLeft
<1>11. CASE Listen \/ \E t \in Tasks : RunTask(t)
  <2>1. phase' = phase /\ (UNCHANGED poolVars \/ Reconnect(Auth))
    BY <1>11 DEF Listen, RunTask, TaskRuns, system
  <2>2. CASE Reconnect(Auth)
    BY <2>1, <2>2 DEF Reconnect, PoolInv
  <2> QED BY <2>1, <2>2, PoolsLeft
<1>12. CASE UNCHANGED vars
  BY <1>12, PoolsLeft DEF vars, poolVars
<1> QED
  BY <1>1, <1>2, <1>3, <1>4, <1>5, <1>6, <1>7, <1>8, <1>9, <1>10, <1>11,
      <1>12 DEF Own, Next, LifespanStep

-----------------------------------------------------------------------------
(* The calls.                                                              *)

\* What a call has come to, whatever its protocol.
LEMMA CallInductive ==
    ASSUME IInv, [Next]_vars, NEW c \in Calls
    PROVE  CallInv(c)'
<1>a. TypeOK /\ RegistryInv /\ CallInv(c) /\ RequestInv(c) /\ MessageInv(c)
  BY DEF IInv
<1>b. pc[c] = "serve" => c \notin effect
  BY <1>a, CallsAssumption DEF RequestInv, MessageInv
<1>c. pc[c] = "commit" => res[c] = "ok" /\ op[c] \in Writes
  BY <1>a, CallsAssumption DEF RequestInv, MessageInv
<1> USE CallsAssumption, NamesAssumption, BoundsAssumption
<1>1. CASE Same(c)
  BY <1>a, <1>1 DEF Same, CallInv
<1>2. CASE Request(c)
  BY <1>a, <1>b, <1>c, <1>2 DEF Request, Begin, Goto, Result, AnsweredBy,
      TypeOK, CallInv, calls, ghosts, commits
<1>3. CASE ReceiveMessage(c)
  BY <1>a, <1>b, <1>c, <1>3 DEF ReceiveMessage, Begin, Goto, TypeOK, CallInv,
      calls, ghosts, commits
<1>4. CASE CountWindow(c)
  BY <1>a, <1>b, <1>c, <1>4, KeyTyped DEF CountWindow, Refused, Goto, Result,
      AnsweredBy, RegistryInv, TypeOK, CallInv, calls, ghosts, commits
<1>5. CASE AddToWindow(c)
  BY <1>a, <1>b, <1>c, <1>5 DEF AddToWindow, Goto, TypeOK, CallInv, calls,
      ghosts, commits
<1>6. CASE CloseRefused(c)
  BY <1>a, <1>b, <1>c, <1>6 DEF CloseRefused, Goto, TypeOK, CallInv, calls,
      ghosts, commits
<1>7. CASE Endpoint(c)
  BY <1>a, <1>b, <1>c, <1>7 DEF Endpoint, RejectSize, Forbid, Serving, Goto,
      Result, AnsweredBy, TypeOK, CallInv, calls, ghosts, commits
<1>8. CASE HandleMessage(c)
  <2>1. /\ pc[c] = "serve" /\ UNCHANGED <<held, logged, fate>>
        /\ logged[c] = "none"
    BY <1>a, <1>8 DEF HandleMessage, Undecodable, Route, Serving, Goto, calls, CallInv
  <2>2. CASE Undecodable(c) /\ UNCHANGED effect
    BY <1>a, <1>b, <1>8, <2>1, <2>2 DEF Undecodable, Serving, Goto, Result, TypeOK, CallInv
  <2>3. CASE Route(c)
    <3> PICK p \in PkgIDs \cup {Unregistered}, valid \in BOOLEAN :
            LET r == Dispatch(User[c], p, valid) IN
            \/ /\ r = "handler" /\ Serving(c, p, "send", "ok")
               /\ effect' = IF p \in Writes THEN effect \cup {c} ELSE effect
            \/ r = "nohandler" /\ Serving(c, p, "send", r) /\ UNCHANGED effect
            \/ r # "nohandler" /\ Serving(c, None, "send", "refused") /\ UNCHANGED effect
      BY <2>3 DEF Route
    <3> DEFINE r == Dispatch(User[c], p, valid)
    <3>1. r = "handler" => p \in handlers /\ (p \in permissions => p \in Grants[User[c]])
      BY DEF Dispatch, Permitted
    <3>2. r = "nohandler" => p \notin handlers
      BY DEF Dispatch, Permitted
    <3>3. phase = "running"
      BY <1>8, CallsRun DEF Own, Serve
    <3>4. r = "handler" => p \in PkgIDs /\ (p \in Writes => p \in Grants[User[c]])
      BY <1>a, <3>1, RolesAssumption DEF RegistryInv, TypeOK, RouterTypeOK
    <3>5. r = "nohandler" => p = Unregistered
      BY <1>a, <3>2, <3>3 DEF RegistryInv
    <3>6. CASE /\ r = "handler" /\ Serving(c, p, "send", "ok")
               /\ effect' = IF p \in Writes THEN effect \cup {c} ELSE effect
      <4>1. effect' = IF p \in Writes THEN effect \cup {c} ELSE effect
        BY <3>6
      <4>2. pc'[c] = "send" /\ op'[c] = p /\ res'[c] = "ok"
        BY <1>a, <3>6 DEF Serving, Goto, Result, TypeOK
      <4> HIDE DEF r
      <4> QED BY <1>a, <1>b, <2>1, <3>4, <3>6, <4>1, <4>2 DEF CallInv
    <3>7. CASE r = "nohandler" /\ Serving(c, p, "send", r) /\ UNCHANGED effect
      <4>1. UNCHANGED effect
        BY <3>7
      <4>2. pc'[c] = "send" /\ op'[c] = p /\ res'[c] = "nohandler"
        BY <1>a, <3>7 DEF Serving, Goto, Result, TypeOK
      <4> HIDE DEF r
      <4> QED BY <1>a, <1>b, <2>1, <3>5, <3>7, <4>1, <4>2 DEF CallInv
    <3>8. CASE Serving(c, None, "send", "refused") /\ UNCHANGED effect
      BY <1>a, <1>b, <2>1, <3>8 DEF Serving, Goto, Result, TypeOK, CallInv
    <3> QED BY <3>6, <3>7, <3>8
  <2> QED BY <1>8, <2>2, <2>3 DEF HandleMessage
<1>9. CASE SendResponse(c)
  BY <1>a, <1>b, <1>c, <1>9 DEF SendResponse, Goto, Result, TypeOK, CallInv,
      calls, ghosts, commits
<1>10. CASE WriteAudit(c)
  BY <1>a, <1>b, <1>c, <1>10 DEF WriteAudit, Goto, AfterAudit, Outcome,
      Trail!Become, TypeOK, CallInv, calls, ghosts, commits
<1>11. CASE CloseAfterError(c)
  BY <1>a, <1>b, <1>c, <1>11 DEF CloseAfterError, Goto, TypeOK, CallInv,
      calls, ghosts, commits
<1>12. CASE Answer(c)
  BY <1>a, <1>b, <1>c, <1>12 DEF Answer, Goto, TypeOK, CallInv, calls, ghosts, commits
<1>13. CASE CommitSession(c)
  BY <1>a, <1>b, <1>c, <1>13 DEF CommitSession, CommitRaises, Goto, TypeOK, CallInv, calls,
      ghosts, commits
<1>14. CASE LimiterFails(c)
  BY <1>a, <1>b, <1>c, <1>14 DEF LimiterFails, Refused, Goto, Result,
      AnsweredBy, TypeOK, CallInv, calls, ghosts, commits
<1>15. CASE HandlerRaises(c)
  BY <1>a, <1>b, <1>c, <1>15 DEF HandlerRaises, Serving, Goto, Result, TypeOK,
      CallInv, calls, ghosts, commits
<1>16. CASE HandlerInDoubt(c)
  <2>1. /\ pc[c] = "serve" /\ UNCHANGED <<held, logged, fate>>
        /\ logged[c] = "none" /\ effect' = effect \cup {c}
    BY <1>a, <1>16 DEF HandlerInDoubt, CommitRaises, CallInv
  <2>2. PICK p \in Writes : /\ Dispatch(User[c], p, TRUE) = "handler"
                            /\ Serving(c, p, "send", "refused")
    BY <1>16 DEF HandlerInDoubt
  <2>3. p \in handlers /\ (p \in permissions => p \in Grants[User[c]])
    BY <2>2 DEF Dispatch, Permitted
  <2>4. p \in Grants[User[c]] \cap Writes /\ p \in PkgIDs
    BY <1>a, <2>3, RolesAssumption DEF RegistryInv, TypeOK, RouterTypeOK
  <2>5. pc'[c] = "send" /\ op'[c] = p /\ res'[c] = "refused"
    BY <1>a, <2>2 DEF Serving, Goto, Result, TypeOK
  <2> QED BY <1>a, <1>b, <2>1, <2>4, <2>5 DEF CallInv
<1> QED
  BY OwnOrSame, <1>1, <1>2, <1>3, <1>4, <1>5, <1>6, <1>7, <1>8, <1>9, <1>10,
      <1>11, <1>12, <1>13, <1>14, <1>15, <1>16 DEF Own, Serve

\* A request is answered and audited before its change.
LEMMA RequestInductive ==
    ASSUME IInv, [Next]_vars, NEW c \in Calls
    PROVE  RequestInv(c)'
<1>a. TypeOK /\ RegistryInv /\ CallInv(c) /\ RequestInv(c) /\ MessageInv(c)
  BY DEF IInv
<1> USE CallsAssumption, NamesAssumption, BoundsAssumption
<1>1. CASE Same(c)
  BY <1>a, <1>1 DEF Same, RequestInv
<1>2. CASE Request(c)
  BY <1>a, <1>2, AnswerGoesOn DEF Request, Begin, Goto, Result, AnsweredBy,
      TypeOK, RequestInv, calls, ghosts, commits
<1>3. CASE ReceiveMessage(c)
  BY <1>a, <1>3 DEF ReceiveMessage, Begin, Goto, TypeOK, RequestInv, calls,
      ghosts, commits
<1>4. CASE CountWindow(c)
  BY <1>a, <1>4, AnswerGoesOn DEF CountWindow, Refused, Goto, Result,
      AnsweredBy, TypeOK, RequestInv, calls, ghosts, commits
<1>5. CASE AddToWindow(c)
  BY <1>a, <1>5 DEF AddToWindow, Goto, TypeOK, RequestInv, calls, ghosts, commits
<1>6. CASE CloseRefused(c)
  BY <1>a, <1>6 DEF CloseRefused, Goto, TypeOK, RequestInv, calls, ghosts, commits
<1>7. CASE Endpoint(c)
  BY <1>a, <1>7, EndpointAudited DEF Endpoint, RejectSize, Forbid, Serving,
      Goto, Result, AnsweredBy, CallInv, TypeOK, RequestInv, calls, ghosts, commits
<1>8. CASE HandleMessage(c)
  BY <1>a, <1>8 DEF HandleMessage, Undecodable, Route, Serving, Goto, Result,
      TypeOK, RequestInv, calls, ghosts, commits
<1>9. CASE SendResponse(c)
  BY <1>a, <1>9 DEF SendResponse, Goto, Result, TypeOK, RequestInv, calls,
      ghosts, commits
<1>10. CASE WriteAudit(c)
  BY <1>a, <1>10 DEF WriteAudit, Goto, AfterAudit, Outcome, Trail!Become,
      CallInv, TypeOK, RequestInv, calls, ghosts, commits
<1>11. CASE CloseAfterError(c)
  BY <1>a, <1>11 DEF CloseAfterError, Goto, TypeOK, RequestInv, calls, ghosts, commits
<1>12. CASE Answer(c)
  BY <1>a, <1>12 DEF Answer, Goto, TypeOK, RequestInv, calls, ghosts, commits
<1>13. CASE CommitSession(c)
  BY <1>a, <1>13 DEF CommitSession, CommitRaises, Goto, TypeOK, RequestInv, calls,
      ghosts, commits
<1>14. CASE LimiterFails(c)
  BY <1>a, <1>14, AnswerGoesOn DEF LimiterFails, Refused, Goto, Result,
      AnsweredBy, TypeOK, RequestInv, calls, ghosts, commits
<1>15. CASE HandlerRaises(c)
  BY <1>a, <1>15 DEF HandlerRaises, Serving, Goto, Result, TypeOK, RequestInv,
      calls, ghosts, commits
<1>16. CASE HandlerInDoubt(c)
  BY <1>a, <1>16 DEF HandlerInDoubt, CommitRaises, Serving, Goto, Result,
      CallInv, TypeOK, RequestInv
<1> QED
  BY OwnOrSame, <1>1, <1>2, <1>3, <1>4, <1>5, <1>6, <1>7, <1>8, <1>9, <1>10,
      <1>11, <1>12, <1>13, <1>14, <1>15, <1>16 DEF Own, Serve

\* A message changes the database before its answer and its entry.
LEMMA MessageInductive ==
    ASSUME IInv, [Next]_vars, NEW c \in Calls
    PROVE  MessageInv(c)'
<1>a. TypeOK /\ RegistryInv /\ CallInv(c) /\ RequestInv(c) /\ MessageInv(c)
  BY DEF IInv
<1>b. /\ User[c] \in Users
      /\ conn[User[c]] \in {"closed", "gone"} => conn'[User[c]] = conn[User[c]]
      /\ conn[User[c]] # "none" => conn'[User[c]] # "none"
  BY ConnectionsEnd, CallsAssumption
<1> USE CallsAssumption, NamesAssumption, BoundsAssumption
<1>1. CASE Same(c)
  BY <1>a, <1>b, <1>1 DEF Same, MessageInv
<1>2. CASE Request(c)
  BY <1>a, <1>b, <1>2 DEF Request, Begin, Goto, Result, AnsweredBy, TypeOK,
      MessageInv, calls, ghosts, commits
<1>3. CASE ReceiveMessage(c)
  BY <1>a, <1>b, <1>3 DEF ReceiveMessage, Begin, Goto, TypeOK, MessageInv,
      calls, ghosts, commits
<1>4. CASE CountWindow(c)
  BY <1>a, <1>b, <1>4 DEF CountWindow, Refused, Goto, Result, AnsweredBy,
      TypeOK, MessageInv, calls, ghosts, commits
<1>5. CASE AddToWindow(c)
  BY <1>a, <1>b, <1>5 DEF AddToWindow, Goto, TypeOK, MessageInv, calls, ghosts, commits
<1>6. CASE CloseRefused(c)
  BY <1>a, <1>b, <1>6 DEF CloseRefused, Goto, TypeOK, MessageInv, calls,
      ghosts, commits
<1>7. CASE Endpoint(c)
  BY <1>a, <1>b, <1>7 DEF Endpoint, RejectSize, Forbid, Serving, Goto, Result,
      AnsweredBy, TypeOK, MessageInv, calls, ghosts, commits
<1>8. CASE HandleMessage(c)
  BY <1>a, <1>b, <1>8 DEF HandleMessage, Undecodable, Route, Serving, Goto,
      Result, TypeOK, MessageInv, calls, ghosts, commits
<1>9. CASE SendResponse(c)
  <2>1. UNCHANGED <<op, logged, fate, conn, commits, held>> /\ pc[c] = "send"
    BY <1>9 DEF SendResponse, ghosts, commits
  <2>2. CASE conn[User[c]] = "open" /\ Goto(c, "send", "audit") /\ UNCHANGED res
    BY <1>a, <2>1, <2>2 DEF Goto, TypeOK, MessageInv, commits
  <2>3. CASE conn[User[c]] = "closed" /\ Goto(c, "send", "done") /\ UNCHANGED res
    BY <1>a, <2>1, <2>3 DEF Goto, TypeOK, MessageInv, CallInv, commits
  <2>4. CASE conn[User[c]] = "gone" /\ Goto(c, "send", "audit") /\ Result(c, "raised")
    BY <1>a, <2>1, <2>4 DEF Goto, Result, TypeOK, MessageInv, commits
  <2> QED BY <1>9, <2>2, <2>3, <2>4 DEF SendResponse
<1>10. CASE WriteAudit(c)
  BY <1>a, <1>b, <1>10 DEF WriteAudit, Goto, AfterAudit, Outcome,
      Trail!Become, TypeOK, MessageInv, calls, ghosts, commits
<1>11. CASE CloseAfterError(c)
  BY <1>a, <1>b, <1>11 DEF CloseAfterError, Goto, TypeOK, MessageInv, calls,
      ghosts, commits
<1>12. CASE Answer(c)
  BY <1>a, <1>b, <1>12 DEF Answer, Goto, TypeOK, MessageInv, calls, ghosts, commits
<1>13. CASE CommitSession(c)
  BY <1>a, <1>b, <1>13 DEF CommitSession, CommitRaises, Goto, TypeOK, MessageInv, calls,
      ghosts, commits
<1>14. CASE LimiterFails(c)
  BY <1>a, <1>b, <1>14 DEF LimiterFails, Refused, Goto, Result, AnsweredBy,
      TypeOK, MessageInv, calls, ghosts, commits
<1>15. CASE HandlerRaises(c)
  BY <1>a, <1>b, <1>15 DEF HandlerRaises, Serving, Goto, Result, TypeOK,
      MessageInv, calls, ghosts, commits
<1>16. CASE HandlerInDoubt(c)
  BY <1>a, <1>b, <1>16 DEF HandlerInDoubt, CommitRaises, Serving, Goto, Result,
      CallInv, TypeOK, MessageInv
<1> QED
  BY OwnOrSame, <1>1, <1>2, <1>3, <1>4, <1>5, <1>6, <1>7, <1>8, <1>9, <1>10,
      <1>11, <1>12, <1>13, <1>14, <1>15, <1>16 DEF Own, Serve

-----------------------------------------------------------------------------
(* Theorems.                                                               *)

\* The application starts with nothing registered, under way or committed.
LEMMA Initially == Init => IInv
<1> SUFFICES ASSUME Init PROVE IInv
  OBVIOUS
<1> USE BoundsAssumption, CallsAssumption, NamesAssumption
        DEF Init, LifespanInit, PoolInit, RouterInit, Trail!Init
<1>1. TypeOK
  <2>1. LifespanTypeOK
    BY DEF LifespanTypeOK, Startup
  <2>2. PoolTypeOK /\ RouterTypeOK
    BY DEF PoolTypeOK, RouterTypeOK
  <2> QED BY <2>1, <2>2 DEF TypeOK, Results
<1>2. RegistryInv
  BY DEF RegistryInv
<1>3. PhaseInv /\ PoolInv
  BY DEF PhaseInv, PoolInv, Under
<1>4. ASSUME NEW c \in Calls PROVE CallInv(c) /\ RequestInv(c) /\ MessageInv(c)
  BY DEF CallInv, RequestInv, MessageInv
<1> QED BY <1>1, <1>2, <1>3, <1>4 DEF IInv

\* IInv holds throughout every behaviour.
THEOREM Invariance == Spec => []IInv
<1>1. IInv /\ [Next]_vars => IInv'
  <2> SUFFICES ASSUME IInv, [Next]_vars PROVE IInv'
    OBVIOUS
  <2>1. TypeOK' /\ RegistryInv' /\ PhaseInv' /\ PoolInv'
    BY TypeInductive, RegistryInductive, PhaseInductive, PoolsInductive
  <2>2. \A c \in Calls : CallInv(c)' /\ RequestInv(c)' /\ MessageInv(c)'
    BY CallInductive, RequestInductive, MessageInductive
  <2> QED BY <2>1, <2>2 DEF IInv
<1> QED BY Initially, <1>1, PTL DEF Spec

\* The variables keep their types whatever the calls, faults and limits are.
THEOREM TypeCorrect == Spec => []TypeOK
<1>1. IInv => TypeOK
  BY DEF IInv
<1> QED BY Invariance, <1>1, PTL

\* check_rate_limit refuses on account of the caller's own calls of the same
\* protocol, and handle_request misses no handler of a package id with one.
THEOREM RefusalsAreJustified == Spec => []RefusalsJustified
<1>1. IInv => RefusalsJustified
  BY CallsAssumption DEF IInv, CallInv, Key, RefusalsJustified
<1> QED BY Invariance, <1>1, PTL

\* The database is changed by users with the role for it, and not over the
\* limit but on a connection that has ended.
THEOREM EffectsAreAdmitted == Spec => []EffectsAdmitted
<1>1. ASSUME IInv, NEW c \in effect
      PROVE  /\ op[c] \in Grants[User[c]] \cap Writes
             /\ held[c] # {} => Kind[c] = "ws" /\ conn[User[c]] # "open"
  <2>1. c \in Calls /\ Kind[c] \in {"http", "ws"}
    BY <1>1, CallsAssumption DEF IInv, TypeOK
  <2>2. CallInv(c) /\ RequestInv(c) /\ MessageInv(c)
    BY <1>1, <2>1 DEF IInv
  <2> QED BY <1>1, <2>1, <2>2 DEF CallInv, RequestInv, MessageInv
<1>2. IInv => EffectsAdmitted
  BY <1>1 DEF EffectsAdmitted
<1> QED BY Invariance, <1>2, PTL

\* A call that has ended has its entry, and the entry its change, but for the
\* connections that ended before the response, the commits that failed after
\* the answer, and those that took effect and raised.
THEOREM TrailIsAccounted == Spec => []TrailAccounted
<1>1. ASSUME IInv, NEW c \in Calls, pc[c] = "done"
      PROVE  /\ c \in effect /\ logged[c] = "none" =>
                    Kind[c] = "ws" /\ conn[User[c]] = "closed"
             /\ c \in effect /\ logged[c] = "error" =>
                    Kind[c] = "ws" /\ (conn[User[c]] = "gone" \/ c \in doubtful)
             /\ logged[c] = "success" /\ c \notin effect =>
                    c \in undone \/ op[c] \in PkgIDs \ Writes
             /\ logged[c] # "none" <=> fate[c] # "new"
  <2>1. Kind[c] \in {"http", "ws"} /\ logged[c] \in {"none", "success", "error"}
    BY <1>1, CallsAssumption DEF IInv, TypeOK
  <2>2. CallInv(c) /\ RequestInv(c) /\ MessageInv(c)
    BY <1>1 DEF IInv
  <2> QED BY <1>1, <2>1, <2>2 DEF CallInv, RequestInv, MessageInv
<1>2. IInv => TrailAccounted
  BY <1>1 DEF TrailAccounted
<1> QED BY Invariance, <1>2, PTL

\* RedisPool.close_all, the flush of the audit queue and the cancellation of
\* the tasks leave no pool, no client, no task and no entry behind, and no
\* connection but one that the session task has opened anew.
THEOREM ShutdownIsComplete == Spec => []ShutdownComplete
<1>1. IInv => ShutdownComplete
  BY DEF IInv, PhaseInv, PoolInv, ShutdownComplete
<1> QED BY Invariance, <1>1, PTL
-----------------------------------------------------------------------------
(* The audit trail.                                                        *)

\* No entry, no step of the audit log.
LEMMA NoneBecome ==
    ASSUME TypeOK, NEW from, NEW to, Trail!Become({}, from, to)
    PROVE  fate' = fate
BY DEF TypeOK, Trail!Become

\* What each step does to the entries is a step of the audit log, or nothing.
LEMMA TrailStep == TypeOK /\ [Next]_vars => [Trail!Next]_fate
<1> SUFFICES ASSUME TypeOK, [Next]_vars PROVE [Trail!Next]_fate
  OBVIOUS
<1>1. CASE StoreEntries \/ LoseEntries
  BY <1>1 DEF StoreEntries, LoseEntries, Pending, Trail!Next, Trail!Store, Trail!Lose
<1>2. CASE Flush
  <2>1. ASSUME NEW S \in SUBSET Pending, Trail!Become(S, "pending", "stored")
        PROVE  fate' = fate \/ Trail!Store
    BY <2>1, NoneBecome DEF Pending, Trail!Store
  <2>2. ASSUME NEW S \in (SUBSET Pending) \ {{}}, Trail!Become(S, "pending", "lost")
        PROVE  Trail!Lose
    BY <2>2 DEF Pending, Trail!Lose
  <2> QED BY <1>2, <2>1, <2>2 DEF Flush, Trail!Next
<1>3. CASE CancelAll
  <2>1. Pending \in SUBSET Calls
    BY DEF Pending
  <2>2. \/ Trail!Become(Pending, "pending", "lost")
        \/ Pending # {} /\ Trail!Become(Pending, "pending", "stored")
    BY <1>3 DEF CancelAll
  <2>3. fate' = fate \/ Trail!Lose \/ Trail!Store
    BY <2>1, <2>2, NoneBecome DEF Trail!Lose, Trail!Store
  <2> QED BY <2>3 DEF Trail!Next
<1>4. ASSUME NEW c \in Calls, WriteAudit(c) PROVE Trail!Next
  BY <1>4 DEF WriteAudit, Trail!Next, Trail!Accept, Trail!Refuse
<1>5. CASE Import \/ StartupStep \/ CloseOnePool \/ GatherTasks \/ BeginShutdown \/ HealthCheck
  BY <1>5 DEF Import, StartupStep, CloseOnePool, GatherTasks, BeginShutdown, HealthCheck
<1>6. CASE Listen \/ \E t \in Tasks : RunTask(t) \/ FailTask(t)
  BY <1>6 DEF Listen, RunTask, FailTask
<1>7. CASE \/ \E u \in Users : Connect(u) \/ Disconnect(u)
           \/ \E k \in WindowKeys : WindowOver(k)
  BY <1>7 DEF Connect, Disconnect, WindowOver
<1>8. ASSUME NEW c \in Calls,
             \/ Request(c) \/ ReceiveMessage(c) \/ CountWindow(c) \/ AddToWindow(c)
             \/ CloseRefused(c) \/ LimiterFails(c)
      PROVE  fate' = fate
  BY <1>8 DEF Request, ReceiveMessage, Begin, CountWindow, AddToWindow, CloseRefused,
              LimiterFails
<1>9. ASSUME NEW c \in Calls,
             \/ Endpoint(c) \/ HandleMessage(c) \/ SendResponse(c) \/ HandlerRaises(c)
             \/ CloseAfterError(c) \/ Answer(c) \/ CommitSession(c) \/ HandlerInDoubt(c)
      PROVE  fate' = fate
  BY <1>9 DEF Endpoint, HandleMessage, SendResponse, HandlerRaises, CloseAfterError,
              Answer, CommitSession, HandlerInDoubt
<1>10. CASE UNCHANGED vars
  BY <1>10 DEF vars
<1> QED BY <1>1, <1>2, <1>3, <1>4, <1>5, <1>6, <1>7, <1>8, <1>9, <1>10
        DEF Next, LifespanStep, Serve

\* Requests and messages, the worker's batches, the flush and the cancellation
\* together implement the audit log that AuditPipeline implements too: the
\* entry of a call is made once, and settled once, whatever ends the call.
THEOREM TrailIsAuditLog == Spec => Trail!Spec
<1>1. Init => Trail!Init
  BY DEF Init
<1> QED BY <1>1, TypeCorrect, TrailStep, PTL DEF Spec, Trail!Spec
=============================================================================
