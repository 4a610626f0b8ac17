------------------------------ MODULE Lifespan ------------------------------
(***************************************************************************)
(* The lifespan of the application (app/__init__.py): the validations of   *)
(* startup_validation.py, the wait for the database, the background tasks, *)
(* and their cancellation.                                                 *)
(***************************************************************************)
EXTENDS Naturals

CONSTANTS Tasks,      \* the background tasks
          MaxRetries  \* DB_INIT_MAX_RETRIES

VARIABLES phase,      \* the await lifespan is in
          retries,    \* failed attempts of wait_and_init_db
          tasks       \* tasks[t]: the await t is in

Startup == {"boot", "factory", "settings", "database", "redis", "verify", "wait"}
Shutdown == {"flush", "close", "gather"}

LifespanTypeOK ==
    /\ phase \in Startup \cup Shutdown \cup {"running", "failed", "done"}
    /\ retries \in 0 .. MaxRetries
    /\ tasks \in [Tasks -> {"none", "asleep", "running", "cancelling", "ended"}]

LifespanInit ==
    /\ phase = "boot"
    /\ retries = 0
    /\ tasks = [t \in Tasks |-> "none"]

Advance(from, to) == phase = from /\ phase' = to

\* A required setting is empty, or all are there.
ValidateSettings ==
    /\ Advance("settings", "database") \/ Advance("settings", "failed")
    /\ UNCHANGED <<retries, tasks>>

\* SELECT 1 and PING; any error of theirs ends the startup.
ValidateConnection(here, next) ==
    /\ Advance(here, next) \/ Advance(here, "failed")
    /\ UNCHANGED <<retries, tasks>>

\* verify_all_handlers_registered
Verify(complete) ==
    /\ Advance("verify", IF complete THEN "wait" ELSE "failed")
    /\ UNCHANGED <<retries, tasks>>

\* wait_and_init_db: the database answers; the tasks are created and
\* run up to their first await before the lifespan is resumed.
DatabaseReady ==
    /\ Advance("wait", "running")
    /\ tasks' = [t \in Tasks |-> "running"]
    /\ retries' = 0

\* Mutant: the attempts are counted one too far.
OneMoreRetry ==
    /\ retries' = retries + 1
    /\ Advance("wait", IF retries = MaxRetries THEN "failed" ELSE "wait")
    /\ UNCHANGED tasks

\* An OperationalError is retried after a sleep, DB_INIT_MAX_RETRIES times in
\* all; any other error ends the startup.
DatabaseNotReady ==
    /\ \/ /\ retries' = retries + 1
          /\ Advance("wait", IF retries + 1 = MaxRetries THEN "failed" ELSE "wait")
       \/ /\ Advance("wait", "failed")
          /\ UNCHANGED retries
    /\ UNCHANGED tasks

\* A task that has logged an error sleeps, and goes on.
TaskRuns(t) ==
    /\ tasks[t] = "asleep"
    /\ tasks' = [tasks EXCEPT ![t] = "running"]
    /\ UNCHANGED <<phase, retries>>

TaskFails(t) ==
    /\ tasks[t] = "running"
    /\ tasks' = [tasks EXCEPT ![t] = "asleep"]
    /\ UNCHANGED <<phase, retries>>

\* Mutant: a task that is asleep is left alone.
CancelRunning ==
    /\ Advance("close", "gather")
    /\ tasks' = [t \in Tasks |-> IF tasks[t] = "asleep" THEN "asleep" ELSE "cancelling"]
    /\ UNCHANGED retries

CancelTasks ==
    /\ Advance("close", "gather")
    /\ tasks' = [t \in Tasks |-> "cancelling"]
    /\ UNCHANGED retries

\* gather returns when the cancellation has reached every task, in whatever
\* order, at the await it is in.
Gather ==
    /\ Advance("gather", "done")
    /\ \A t \in Tasks : tasks[t] = "cancelling"
    /\ tasks' = [t \in Tasks |-> "ended"]
    /\ UNCHANGED retries
=============================================================================
