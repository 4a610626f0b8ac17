------------------------- MODULE ConnectionManager -------------------------
(***************************************************************************)
(* managers/websocket_connection_manager.py: the dict from session key to  *)
(* WebSocket that one server process keeps in memory.  A session key is    *)
(* the prefix "session:" followed by the user name, so the key is          *)
(* identified with the user.  None of the methods but broadcast awaits     *)
(* anything, so each is one step of the event loop.                        *)
(***************************************************************************)
CONSTANTS Users,    \* the users, one session key each
          Conns,    \* the WebSocket connections
          None      \* no connection

VARIABLE connections

RegistryTypeOK == connections \in [Users -> Conns \cup {None}]

RegistryInit == connections = [u \in Users |-> None]

\* connect() assigns unconditionally: it replaces another connection's entry.
Connect(u, c) == connections' = [connections EXCEPT ![u] = c]

\* disconnect() pops the key, whichever connection it maps to.
Disconnect(u) == connections' = [connections EXCEPT ![u] = None]

GetConnection(u) == connections[u]

\* Mutant: a snapshot of every key, registered or not.
SnapshotOfAllKeys == {<<u, connections[u]>> : u \in Users}

\* list(self.connections.items()): the pairs a broadcast sends to.
Snapshot == {p \in Users \X Conns : connections[p[1]] = p[2]}
=============================================================================
