------------------------- MODULE ConnectionLimiter -------------------------
(***************************************************************************)
(* ConnectionLimiter of utils/rate_limiter.py: one Redis set per user,     *)
(* ws_connections:<user>, of the ids of the connections that hold a slot.  *)
(* The commands add_connection and remove_connection issue are separate    *)
(* awaits, so each is an operator of its own; WsSession interleaves them.  *)
(***************************************************************************)
EXTENDS Naturals, FiniteSets

CONSTANTS Users, Conns,
          MaxConnections     \* WS_MAX_CONNECTIONS_PER_USER

VARIABLES slots,       \* the members of each user's Redis set
          slotsTTL     \* whether that key carries an expiry

LimiterTypeOK == /\ slots \in [Users -> SUBSET Conns]
                 /\ slotsTTL \in [Users -> BOOLEAN]

LimiterInit == /\ slots = [u \in Users |-> {}]
               /\ slotsTTL = [u \in Users |-> FALSE]

\* Mutant: a user at the limit is let in once more.
OverLimit(u) == Cardinality(slots[u]) > MaxConnections
\* connection_count >= self.max_connections
AtLimit(u) == Cardinality(slots[u]) >= MaxConnections

\* SADD: creates the key without an expiry when it does not exist.
Sadd(u, c) == /\ slots' = [slots EXCEPT ![u] = @ \cup {c}]
              /\ UNCHANGED slotsTTL

\* Mutant: add_connection without its EXPIRE.
SlotsNeverExpire(u) == UNCHANGED <<slots, slotsTTL>>

\* EXPIRE redis_key 3600: no effect on a key that does not exist.
ExpireSlots(u) == /\ slotsTTL' = [slotsTTL EXCEPT ![u] = slots[u] # {}]
                  /\ UNCHANGED slots

\* Mutant: DEL of the user's key in place of SREM of the member.
DeleteKey(u, c) == /\ slots' = [slots EXCEPT ![u] = {}]
                   /\ slotsTTL' = [slotsTTL EXCEPT ![u] = FALSE]

\* SREM: removing the last member deletes the key and with it the expiry.
Srem(u, c) == /\ slots' = [slots EXCEPT ![u] = @ \ {c}]
              /\ slotsTTL' = [slotsTTL EXCEPT ![u] = @ /\ slots[u] \ {c} # {}]

\* Redis deletes the whole set when its hour is over.
SlotsExpired(u) == /\ slotsTTL[u]
                   /\ slots' = [slots EXCEPT ![u] = {}]
                   /\ slotsTTL' = [slotsTTL EXCEPT ![u] = FALSE]
=============================================================================
