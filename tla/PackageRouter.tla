--------------------------- MODULE PackageRouter ---------------------------
(***************************************************************************)
(* The registries of the WebSocket router (routing.py) and how it answers. *)
(* Loading the handler modules and answering are synchronous.              *)
(***************************************************************************)
CONSTANTS PkgIDs,        \* the package ids with a meaning
          Unregistered,  \* PkgID.UNREGISTERED_HANDLER
          Guarded,       \* the ids registered with roles
          Validated,     \* the ids registered with a schema and a validator
          Users,
          Grants         \* Grants[u]: the ids u has the roles for

VARIABLES handlers, validators, permissions,
          defined,       \* the ids that the handler modules register
          imported       \* the handler modules are in sys.modules

RouterTypeOK ==
    /\ defined \in SUBSET PkgIDs /\ imported \in BOOLEAN
    /\ handlers \in SUBSET PkgIDs
    /\ validators \in SUBSET PkgIDs
    /\ permissions \in SUBSET PkgIDs

RouterInit ==
    /\ handlers = {} /\ validators = {} /\ permissions = {}
    /\ defined \in SUBSET PkgIDs
    /\ imported = FALSE

\* register: only ids with a schema and a validator are validated, and only
\* ids with roles are guarded; an id keeps what an earlier handler of it had.
Register(old, S) == [handlers |-> old.handlers \cup S,
                     validators |-> old.validators \cup (S \cap Validated),
                     permissions |-> old.permissions \cup (S \cap Guarded)]

\* A module that has been imported is executed again, decorators included.
Reload(old) == Register(old, defined)

\* load_handlers: each module is imported, or reloaded when it has been.
LoadHandlers(old) == IF imported THEN Reload(old) ELSE Register(old, defined)

Cleared == [handlers |-> {}, validators |-> {}, permissions |-> {}]

\* Mutant: the handlers are not cleared and their modules not executed again.
CollectOnce ==
    /\ IF imported THEN handlers' = handlers /\ permissions' = {} /\ validators' = {}
       ELSE /\ handlers' = defined
            /\ validators' = defined \cap Validated
            /\ permissions' = defined \cap Guarded
    /\ imported' = TRUE
    /\ UNCHANGED defined

\* collect_subrouters: the registries are cleared; importing or reloading the
\* consumers loads the handlers.
Collect ==
    LET new == LoadHandlers(Cleared)
    IN  /\ handlers' = new.handlers
        /\ validators' = new.validators
        /\ permissions' = new.permissions
        /\ imported' = TRUE
        /\ UNCHANGED defined

\* Mutant: a package id without a handler is found when it is asked for.
AnythingGoes == TRUE

AllRegistered == PkgIDs \subseteq handlers

Permitted(u, p) == p \in permissions => p \in Grants[u]

\* What a request comes to before its handler runs.
Dispatch(u, p, valid) ==
    IF p \notin handlers THEN "nohandler"
    ELSE IF ~Permitted(u, p) THEN "forbidden"
    ELSE IF p \in validators /\ ~valid THEN "invalid"
    ELSE "handler"
=============================================================================
