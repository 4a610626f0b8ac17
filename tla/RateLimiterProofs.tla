------------------------- MODULE RateLimiterProofs -------------------------
(***************************************************************************)
(* Proofs about RateLimiter for any requests, limit, burst, window, degree *)
(* of overlap and latency below the window.                                *)
(***************************************************************************)
EXTENDS RateLimiter, FiniteSetTheorems, TLAPS

-----------------------------------------------------------------------------
(* The inductive invariant.                                                *)

\* The calls under way are few and young.
FlightInv ==
    /\ IsFiniteSet(InFlight) /\ Cardinality(InFlight) <= Overlap
    /\ \A r \in Requests : at[r] <= now
    /\ \A r \in InFlight : now <= at[r] + Latency

\* The set holds times of requests that recorded theirs, none of which is too
\* old for a call that is about to count.
WindowInv ==
    /\ \A t \in window : t <= now /\ \E q \in Recorded : at[q] = t
    /\ \A r \in Requests : pc[r] = "zcard" => \A t \in window : at[r] < t + Window

\* r is safe from the expiry: the set outlives the window of r.
Outlived(r) == at[r] + Window < deadline

\* Without failed commands: what is in the set was let through, all that was
\* let through and is recent is in the set, and the set outlives it: either its
\* expiry is late enough, or the EXPIRE of a call is on the way whose own window
\* has not passed.
ExpiryInv ==
    faults = 0 =>
        /\ \A r \in Requests : pc[r] \notin {"waved", "barred"}
        /\ \A r \in Passing : at[r] + Window > now => at[r] \in window
        /\ deadline # NoExpiry =>
              /\ \A r \in Requests : pc[r] = "allowed" => at[r] + 2 * Window <= deadline
              /\ \A r \in Requests : pc[r] \in {"zcard", "zadd", "expire"} =>
                    \/ Outlived(r)
                    \/ \E g \in Requests : pc[g] = "expire" /\ Outlived(g)

\* The calls of a range that have passed the check but are not recorded yet.
Admitted(t) == {r \in Requests :
                   pc[r] = "zadd" /\ at[r] <= t /\ t + Latency < at[r] + Window}

LimitInv ==
    faults = 0 => \A t \in Nat :
        Cardinality(PassedUpTo(t)) + Cardinality(Admitted(t)) <= EffectiveLimit + Overlap - 1

IInv == /\ TypeOK /\ FlightInv /\ WindowInv /\ ExpiryInv /\ LimitInv
        /\ DenialJustified /\ SetExpires

-----------------------------------------------------------------------------

\* Every step preserves the types.
LEMMA TypeInductive == TypeOK /\ [Next]_vars => TypeOK'
<1> SUFFICES ASSUME TypeOK, [Next]_vars PROVE TypeOK'
  OBVIOUS
<1> USE TimeAssumption DEF TypeOK, Commands, Ended, Goto, NoExpiry
<1>0. ASSUME NEW r \in Requests, NoConnection(r) PROVE TypeOK'
  BY <1>0 DEF NoConnection
<1>1. ASSUME NEW r \in Requests, Start(r) PROVE TypeOK'
  BY <1>1 DEF Start
<1>2. ASSUME NEW r \in Requests, RemoveOld(r) PROVE TypeOK'
  BY <1>2 DEF RemoveOld, Zremrangebyscore
<1>3. ASSUME NEW r \in Requests, Count(r) PROVE TypeOK'
  BY <1>3 DEF Count
<1>4. ASSUME NEW r \in Requests, Record(r) PROVE TypeOK'
  BY <1>4 DEF Record, Zadd
<1>5. ASSUME NEW r \in Requests, Refresh(r) PROVE TypeOK'
  BY <1>5 DEF Refresh, Expire
<1>6. ASSUME NEW r \in Requests, RedisError(r) PROVE TypeOK'
  <2>1. \/ UNCHANGED <<window, deadline>>
        \/ Zremrangebyscore(r) \/ Zadd(r) \/ Expire(r)
    BY <1>6 DEF RedisError
  <2>2. UNCHANGED <<now, at>> /\ faults' = faults + 1
    BY <1>6 DEF RedisError
  <2>3. \A t \in window' : t \in window \/ t = at[r]
    BY <2>1 DEF Zremrangebyscore, Zadd, Expire
  <2>4. now + 2 * Window \in Nat
    OBVIOUS
  <2>5. deadline' \in Nat
    BY <2>1, <2>4 DEF Zremrangebyscore, Zadd, Expire
  <2>6. pc' \in [Requests -> {"idle"} \cup Commands \cup Ended]
    BY <1>6 DEF RedisError
  <2>7. window' \subseteq Nat
    BY <2>3
  <2> QED BY <2>2, <2>5, <2>6, <2>7
<1>7. CASE Tick
  <2>1. UNCHANGED <<pc, at, faults>> /\ now' = now + 1
    BY <1>7 DEF Tick
  <2>2. CASE window' = {} /\ deadline' = NoExpiry
    BY <2>1, <2>2
  <2>3. CASE UNCHANGED <<window, deadline>>
    BY <2>1, <2>3
  <2> QED BY <1>7, <2>2, <2>3 DEF Tick
<1>8. CASE UNCHANGED vars
  BY <1>8 DEF vars
<1> QED BY <1>0, <1>1, <1>2, <1>3, <1>4, <1>5, <1>6, <1>7, <1>8 DEF Next, Step

\* The calls under way stay few and young: Start waits for room, and Tick for
\* every call that has used up its time.
LEMMA FlightInductive == TypeOK /\ FlightInv /\ [Next]_vars => FlightInv'
<1> SUFFICES ASSUME TypeOK, FlightInv, [Next]_vars PROVE FlightInv'
  OBVIOUS
<1> USE OverlapAssumption, TimeAssumption DEF TypeOK, Commands, Ended, Goto
<1>1. ASSUME NEW r \in Requests, Start(r) PROVE FlightInv'
  <2>1. InFlight' = InFlight \cup {r} /\ r \notin InFlight
    BY <1>1 DEF Start, InFlight
  <2>2. /\ IsFiniteSet(InFlight')
        /\ Cardinality(InFlight') = Cardinality(InFlight) + 1
        /\ Cardinality(InFlight) \in Nat
    BY <2>1, FS_AddElement, FS_CardinalityType DEF FlightInv
  <2>3. Cardinality(InFlight') <= Overlap
    BY <1>1, <2>2 DEF Start
  <2>4. \A q \in Requests : at'[q] = (IF q = r THEN now ELSE at[q]) /\ now' = now
    BY <1>1 DEF Start
  <2>5. \A q \in Requests : at'[q] <= now'
    BY <2>4 DEF FlightInv
  <2>6. \A q \in InFlight' : q \in Requests /\ (q = r \/ q \in InFlight)
    BY <2>1 DEF InFlight
  <2>7. \A q \in InFlight' : now' <= at'[q] + Latency
    BY <2>4, <2>6 DEF FlightInv
  <2> QED BY <2>2, <2>3, <2>5, <2>7 DEF FlightInv
<1>2. CASE UNCHANGED at /\ now' = now /\ InFlight' \subseteq InFlight
  <2>1. IsFiniteSet(InFlight') /\ Cardinality(InFlight') <= Cardinality(InFlight)
    BY <1>2, FS_Subset DEF FlightInv
  <2>2. Cardinality(InFlight') <= Overlap
    BY <2>1, FS_CardinalityType DEF FlightInv
  <2> QED BY <1>2, <2>1, <2>2 DEF FlightInv
<1>3. CASE Tick
  <2>1. UNCHANGED <<at, pc>> /\ now' = now + 1 /\ InFlight' = InFlight
    BY <1>3 DEF Tick, InFlight
  <2>2. \A r \in Requests : at[r] \in Nat
    OBVIOUS
  <2>3. \A r \in InFlight : now < at[r] + Latency
    BY <1>3 DEF Tick
  <2> QED BY <2>1, <2>2, <2>3 DEF FlightInv, InFlight
<1>4. ASSUME NEW r \in Requests,
             NoConnection(r) \/ RemoveOld(r) \/ Count(r) \/ Record(r) \/ Refresh(r)
      PROVE UNCHANGED at /\ now' = now /\ InFlight' \subseteq InFlight
  BY <1>4 DEF NoConnection, RemoveOld, Count, Record, Refresh, InFlight
<1>5. ASSUME NEW r \in Requests, RedisError(r)
      PROVE UNCHANGED at /\ now' = now /\ InFlight' \subseteq InFlight
  BY <1>5 DEF RedisError, InFlight
<1>6. CASE UNCHANGED vars
  BY <1>6, <1>2 DEF vars, InFlight
<1> QED BY <1>1, <1>2, <1>3, <1>4, <1>5, <1>6 DEF Next, Step

\* The set keeps to the times of recorded requests, and what is added while a
\* call is about to count is young enough for it.
LEMMA WindowInductive ==
    TypeOK /\ FlightInv /\ WindowInv /\ [Next]_vars => WindowInv'
<1> SUFFICES ASSUME TypeOK, FlightInv, WindowInv, [Next]_vars PROVE WindowInv'
  OBVIOUS
<1> USE TimeAssumption DEF TypeOK, Commands, Ended, Goto
<1>1. ASSUME NEW r \in Requests, Start(r) PROVE WindowInv'
  <2>1. Recorded' = Recorded /\ r \notin Recorded
    BY <1>1 DEF Start, Recorded
  <2>2. \A q \in Recorded : at'[q] = at[q]
    BY <1>1, <2>1 DEF Start, Recorded
  <2>3. \A q \in Requests : pc'[q] = "zcard" => pc[q] = "zcard" /\ at'[q] = at[q]
    BY <1>1 DEF Start
  <2> QED BY <1>1, <2>1, <2>2, <2>3 DEF Start, WindowInv
<1>2. ASSUME NEW r \in Requests, RemoveOld(r) PROVE WindowInv'
  <2>1. Recorded' = Recorded
    BY <1>2 DEF RemoveOld, Recorded
  <2>2. UNCHANGED <<at, now>> /\ window' \subseteq window
    BY <1>2 DEF RemoveOld, Zremrangebyscore
  <2>3. \A q \in Requests : pc'[q] = "zcard" => pc[q] = "zcard" \/ q = r
    BY <1>2 DEF RemoveOld
  <2>4. \A t \in window' : at[r] < t + Window
    BY <1>2 DEF RemoveOld, Zremrangebyscore
  <2> QED BY <2>1, <2>2, <2>3, <2>4 DEF WindowInv
<1>3. CASE /\ UNCHANGED <<at, now>> /\ window' \subseteq window
           /\ Recorded \subseteq Recorded'
           /\ \A q \in Requests : pc'[q] = "zcard" => pc[q] = "zcard"
  BY <1>3 DEF WindowInv
<1>4. ASSUME NEW r \in Requests, NoConnection(r) \/ Count(r) \/ Refresh(r)
      PROVE  WindowInv'
  <2>1. Recorded \subseteq Recorded'
    BY <1>4 DEF NoConnection, Count, Refresh, Recorded
  <2>2. \A q \in Requests : pc'[q] = "zcard" => pc[q] = "zcard"
    BY <1>4 DEF NoConnection, Count, Refresh
  <2>3. UNCHANGED <<at, now, window>>
    BY <1>4 DEF NoConnection, Count, Refresh, Expire
  <2> QED BY <1>3, <2>1, <2>2, <2>3
<1>5. ASSUME NEW r \in Requests, pc[r] = "zadd", window' = window \cup {at[r]},
             UNCHANGED <<at, now>>, r \in Recorded', Recorded \subseteq Recorded',
             \A q \in Requests : pc'[q] = "zcard" => pc[q] = "zcard"
      PROVE WindowInv'
  <2>1. r \in InFlight
    BY <1>5 DEF InFlight
  <2>2. \A q \in Requests : at[q] \in Nat /\ at[q] <= now
    BY DEF FlightInv
  <2>3. now <= at[r] + Latency
    BY <2>1 DEF FlightInv
  <2>4. \A q \in Requests : at[q] < at[r] + Window
    BY <2>2, <2>3
  <2> QED BY <1>5, <2>2, <2>4 DEF WindowInv
<1>6. ASSUME NEW r \in Requests, Record(r) PROVE WindowInv'
  <2>1. r \in Recorded' /\ Recorded \subseteq Recorded'
    BY <1>6 DEF Record, Recorded
  <2>2. \A q \in Requests : pc'[q] = "zcard" => pc[q] = "zcard"
    BY <1>6 DEF Record
  <2> QED BY <1>5, <1>6, <2>1, <2>2 DEF Record, Zadd
<1>7. ASSUME NEW r \in Requests, RedisError(r) PROVE WindowInv'
  <2>1. r \in Recorded' /\ Recorded \subseteq Recorded'
    BY <1>7 DEF RedisError, Recorded, InFlight
  <2>2. \A q \in Requests : pc'[q] = "zcard" => pc[q] = "zcard"
    BY <1>7 DEF RedisError
  <2>3. UNCHANGED <<at, now>>
    BY <1>7 DEF RedisError
  <2>4. CASE pc[r] = "zadd" /\ Zadd(r)
    BY <1>5, <2>1, <2>2, <2>3, <2>4 DEF Zadd
  <2>5. CASE window' \subseteq window
    BY <1>3, <2>1, <2>2, <2>3, <2>5
  <2>6. \/ pc[r] = "zadd" /\ Zadd(r)
        \/ window' \subseteq window
    BY <1>7 DEF RedisError, Zremrangebyscore, Expire
  <2> QED BY <2>4, <2>5, <2>6
<1>8. CASE Tick
  <2>1. UNCHANGED <<at, pc>> /\ window' \subseteq window /\ now' = now + 1
    BY <1>8 DEF Tick
  <2> QED BY <2>1 DEF WindowInv, Recorded
<1>9. CASE UNCHANGED vars
  BY <1>9 DEF vars, WindowInv, Recorded
<1> QED BY <1>1, <1>2, <1>4, <1>6, <1>7, <1>8, <1>9 DEF Next, Step

\* No deletion of the set loses a recent request: RemoveOld takes only what is
\* old for every call, and when the expiry comes, each request let through is
\* out of its window, for a call whose EXPIRE were on its way would be late.
LEMMA ExpiryInductive ==
    TypeOK /\ FlightInv /\ WindowInv /\ ExpiryInv /\ [Next]_vars => ExpiryInv'
<1> SUFFICES ASSUME TypeOK, FlightInv, WindowInv, ExpiryInv, [Next]_vars, faults' = 0
             PROVE  ExpiryInv'
  BY DEF ExpiryInv
<1> USE TimeAssumption DEF TypeOK, Goto
<1>0. \A r \in Requests : at[r] \in Nat /\ at[r] <= now
  BY DEF FlightInv
<1>1. ASSUME NEW r \in Requests, Start(r) PROVE ExpiryInv'
  <2>1. /\ faults = 0 /\ UNCHANGED <<now, window, deadline>>
        /\ pc[r] = "idle" /\ pc'[r] = "zrem"
        /\ \A q \in Requests : q # r => pc'[q] = pc[q] /\ at'[q] = at[q]
    BY <1>1 DEF Start
  <2>2. Passing' = Passing /\ r \notin Passing
    BY <2>1 DEF Passing
  <2>3. \A q \in Requests : q # r => Outlived(q)' = Outlived(q)
    BY <2>1 DEF Outlived
  <2>4. \A q \in Requests : pc'[q] \notin {"waved", "barred"}
    BY <2>1 DEF ExpiryInv
  <2>5. \A q \in Passing' : at'[q] + Window > now' => at'[q] \in window'
    BY <2>1, <2>2 DEF ExpiryInv, Passing
  <2>6. \A q \in Requests : deadline' # NoExpiry /\ pc'[q] = "allowed"
                               => at'[q] + 2 * Window <= deadline'
    BY <2>1 DEF ExpiryInv
  <2>7. ASSUME NEW q \in Requests, deadline' # NoExpiry,
               pc'[q] \in {"zcard", "zadd", "expire"}
        PROVE  \/ Outlived(q)'
               \/ \E g \in Requests : pc'[g] = "expire" /\ Outlived(g)'
    BY <2>1, <2>3, <2>7 DEF ExpiryInv
  <2> QED BY <2>4, <2>5, <2>6, <2>7 DEF ExpiryInv
<1>2. ASSUME NEW r \in Requests, RemoveOld(r) PROVE ExpiryInv'
  <2>1. /\ faults = 0 /\ UNCHANGED <<now, at>>
        /\ pc[r] = "zrem" /\ pc'[r] = "zcard"
        /\ \A q \in Requests : q # r => pc'[q] = pc[q]
        /\ window' = {t \in window : t + Window > at[r]}
        /\ deadline' = IF window' = {} THEN NoExpiry ELSE deadline
    BY <1>2 DEF RemoveOld, Zremrangebyscore
  <2>2. \A q \in Requests : pc'[q] \notin {"waved", "barred"}
    BY <2>1 DEF ExpiryInv
  <2>3. \A q \in Passing' : at'[q] + Window > now' => at'[q] \in window'
    <3> SUFFICES ASSUME NEW q \in Passing', at[q] + Window > now PROVE at[q] \in window'
      BY <2>1
    <3>1. q \in Passing /\ q \in Requests
      BY <2>1 DEF Passing
    <3>2. at[q] \in window
      BY <2>1, <3>1 DEF ExpiryInv
    <3> QED BY <1>0, <2>1, <3>1, <3>2
  <2>4. ASSUME deadline' # NoExpiry
        PROVE  \A q \in Requests : pc'[q] = "allowed" => at'[q] + 2 * Window <= deadline'
    BY <2>1, <2>4 DEF ExpiryInv
  <2>5. ASSUME deadline' # NoExpiry, NEW q \in Requests, q # r,
               pc'[q] \in {"zcard", "zadd", "expire"}
        PROVE  \/ Outlived(q)'
               \/ \E g \in Requests : pc'[g] = "expire" /\ Outlived(g)'
    BY <2>1, <2>5 DEF ExpiryInv, Outlived
  <2>6. ASSUME deadline' # NoExpiry
        PROVE  \/ Outlived(r)'
               \/ \E g \in Requests : pc'[g] = "expire" /\ Outlived(g)'
    <3>1. deadline' = deadline /\ window' # {}
      BY <2>1, <2>6
    <3>2. PICK t \in window : at[r] < t + Window
      BY <2>1, <3>1
    <3>3. PICK p \in Recorded : at[p] = t
      BY DEF WindowInv
    <3>4. p \in Requests /\ (pc[p] = "allowed" \/ pc[p] = "expire")
      BY <2>1, <3>3 DEF Recorded, ExpiryInv
    <3>5. CASE pc[p] = "allowed"
      <4>1. at[p] + 2 * Window <= deadline
        BY <2>1, <2>6, <3>1, <3>4, <3>5 DEF ExpiryInv
      <4>2. at[r] + Window < deadline
        BY <1>0, <3>2, <3>3, <3>4, <4>1
      <4> QED BY <2>1, <3>1, <4>2 DEF Outlived
    <3>6. CASE pc[p] = "expire"
      <4>1. Outlived(p) \/ \E g \in Requests : pc[g] = "expire" /\ Outlived(g)
        BY <2>1, <2>6, <3>1, <3>4, <3>6 DEF ExpiryInv
      <4>2. PICK g \in Requests : pc[g] = "expire" /\ Outlived(g)
        BY <3>4, <3>6, <4>1
      <4> QED BY <2>1, <3>1, <4>2 DEF Outlived
    <3> QED BY <3>4, <3>5, <3>6
  <2> QED BY <2>2, <2>3, <2>4, <2>5, <2>6 DEF ExpiryInv
<1>3. ASSUME NEW r \in Requests, NoConnection(r) \/ Count(r) PROVE ExpiryInv'
  <2>1. /\ faults = 0 /\ UNCHANGED <<now, at, window, deadline>>
        /\ \/ pc[r] = "idle" /\ pc'[r] = "unchecked"
           \/ pc[r] = "zcard" /\ pc'[r] \in {"refused", "zadd"}
        /\ \A q \in Requests : q # r => pc'[q] = pc[q]
    BY <1>3 DEF NoConnection, Count
  <2>2. Passing' = Passing
    BY <2>1 DEF Passing
  <2> QED BY <2>1, <2>2 DEF ExpiryInv, Outlived
<1>4. ASSUME NEW r \in Requests, Record(r) PROVE ExpiryInv'
  <2>1. /\ faults = 0 /\ UNCHANGED <<now, at, deadline>>
        /\ pc[r] = "zadd" /\ pc'[r] = "expire" /\ window' = window \cup {at[r]}
        /\ \A q \in Requests : q # r => pc'[q] = pc[q]
    BY <1>4 DEF Record, Zadd
  <2>2. \A q \in Passing' : q = r \/ q \in Passing
    BY <2>1 DEF Passing
  <2>3. \A q \in Passing' : at'[q] + Window > now' => at'[q] \in window'
    BY <2>1, <2>2 DEF ExpiryInv
  <2>4. \A q \in Requests : /\ pc'[q] \in {"zcard", "zadd", "expire"}
                               => pc[q] \in {"zcard", "zadd", "expire"}
                            /\ pc'[q] \notin {"waved", "barred"}
                            /\ pc'[q] = "allowed" => pc[q] = "allowed"
                            /\ pc[q] = "expire" => pc'[q] = "expire"
    BY <2>1 DEF ExpiryInv
  <2> QED BY <2>1, <2>3, <2>4 DEF ExpiryInv, Outlived
<1>5. ASSUME NEW r \in Requests, Refresh(r) PROVE ExpiryInv'
  <2>1. /\ faults = 0 /\ UNCHANGED <<now, at, window>>
        /\ pc[r] = "expire" /\ pc'[r] = "allowed"
        /\ \A q \in Requests : q # r => pc'[q] = pc[q]
        /\ deadline' = IF window = {} THEN NoExpiry ELSE now + 2 * Window
    BY <1>5 DEF Refresh, Expire
  <2>2. Passing' = Passing
    BY <2>1 DEF Passing
  <2>3. \A q \in Requests : pc'[q] \notin {"waved", "barred"}
    BY <2>1 DEF ExpiryInv
  <2>4. ASSUME deadline' # NoExpiry, NEW q \in Requests
        PROVE  at'[q] + 2 * Window <= deadline' /\ Outlived(q)'
    BY <1>0, <2>1, <2>4 DEF Outlived
  <2> QED BY <2>1, <2>2, <2>3, <2>4 DEF ExpiryInv
<1>6. ASSUME NEW r \in Requests, RedisError(r) PROVE FALSE
  BY <1>6 DEF RedisError
<1>7. CASE Tick
  <2>1. /\ faults = 0 /\ UNCHANGED <<pc, at>> /\ now' = now + 1
        /\ IF deadline = now' THEN window' = {} /\ deadline' = NoExpiry
                              ELSE UNCHANGED <<window, deadline>>
    BY <1>7 DEF Tick
  <2>2. Passing' = Passing
    BY <2>1 DEF Passing
  <2>3. CASE deadline # now'
    BY <1>0, <2>1, <2>2, <2>3 DEF ExpiryInv, Outlived, Passing
  <2>4. CASE deadline = now'
    <3>1. deadline # NoExpiry /\ deadline' = NoExpiry
      BY <2>1, <2>4 DEF NoExpiry
    <3>2. \A g \in Requests : pc[g] = "expire" => now' <= at[g] + Latency
      BY <1>7, <1>0, <2>1 DEF Tick, InFlight, Commands
    <3>3. \A g \in Requests : pc[g] = "expire" => ~Outlived(g)
      BY <1>0, <2>4, <3>2 DEF Outlived
    <3>4. ASSUME NEW q \in Passing PROVE at[q] + Window <= now'
      <4>1. CASE pc[q] = "allowed"
        BY <1>0, <2>1, <2>4, <3>1, <4>1 DEF ExpiryInv, Passing
      <4>2. CASE pc[q] = "expire"
        BY <2>1, <3>1, <3>3, <4>2 DEF ExpiryInv, Passing
      <4> QED BY <4>1, <4>2 DEF Passing
    <3>5. \A q \in Passing : ~(at[q] + Window > now')
      BY <1>0, <2>1, <3>4 DEF Passing
    <3> QED BY <2>1, <2>2, <3>1, <3>5 DEF ExpiryInv
  <2> QED BY <2>3, <2>4
<1>8. CASE UNCHANGED vars
  BY <1>8 DEF vars, ExpiryInv, Outlived, Passing
<1> QED BY <1>1, <1>2, <1>3, <1>4, <1>5, <1>6, <1>7, <1>8 DEF Next, Step

-----------------------------------------------------------------------------

\* The sets of times the properties count are finite.
LEMMA TimesFinite ==
    ASSUME TypeOK, FlightInv
    PROVE  /\ IsFiniteSet(0 .. now) /\ EffectiveLimit \in Nat
           /\ \A t \in Nat : PassedUpTo(t) \subseteq 0 .. now
           /\ \A r \in Requests : CountedAgainst(r) \subseteq 0 .. now
<1>1. IsFiniteSet(0 .. now)
  BY FS_Interval DEF TypeOK
<1>2. \A r \in Requests : at[r] \in 0 .. now
  BY DEF TypeOK, FlightInv
<1>3. EffectiveLimit \in Nat
  BY LimitAssumption DEF EffectiveLimit
<1> QED BY <1>1, <1>2, <1>3 DEF PassedUpTo, CountedAgainst, Passing, Recorded

\* No interleaving lets more pass than the limit and the calls that overlap:
\* when a call passes the check, those let through in a range it belongs to are
\* in the set it counted, and those admitted are under way.
LEMMA LimitInductive ==
    TypeOK /\ FlightInv /\ FlightInv' /\ WindowInv /\ ExpiryInv /\ LimitInv /\ [Next]_vars
        => LimitInv'
<1> SUFFICES ASSUME TypeOK, FlightInv, FlightInv', WindowInv, ExpiryInv, LimitInv,
                    [Next]_vars, faults' = 0, NEW t \in Nat
             PROVE  Cardinality(PassedUpTo(t)') + Cardinality(Admitted(t)')
                        <= EffectiveLimit + Overlap - 1
  BY DEF LimitInv, EffectiveLimit
<1> DEFINE Goal == Cardinality(PassedUpTo(t)') + Cardinality(Admitted(t)')
                       <= EffectiveLimit + Overlap - 1
<1>0. \A r \in Requests : at[r] \in Nat /\ at[r] <= now
  BY DEF FlightInv, TypeOK
<1>1. CASE faults = 0 /\ PassedUpTo(t)' = PassedUpTo(t) /\ Admitted(t)' = Admitted(t)
  BY <1>1 DEF LimitInv
<1>2. ASSUME faults = 0, UNCHANGED at, Passing' = Passing,
             \A r \in Requests : pc'[r] = "zadd" <=> pc[r] = "zadd"
      PROVE  Goal
  <2>1. PassedUpTo(t)' = PassedUpTo(t) /\ Admitted(t)' = Admitted(t)
    BY <1>2 DEF PassedUpTo, Admitted
  <2> QED BY <1>1, <1>2, <2>1
<1>3. ASSUME NEW r \in Requests, Start(r) PROVE Goal
  <2>1. /\ faults = 0 /\ pc[r] = "idle" /\ pc'[r] = "zrem"
        /\ \A q \in Requests : q # r => pc'[q] = pc[q] /\ at'[q] = at[q]
    BY <1>3 DEF Start, Goto, TypeOK
  <2>2. Admitted(t)' = Admitted(t)
    BY <2>1 DEF Admitted
  <2>3. Passing' = Passing /\ \A q \in Passing : at'[q] = at[q]
    BY <2>1 DEF Passing
  <2>4. PassedUpTo(t)' = PassedUpTo(t)
    BY <2>3 DEF PassedUpTo
  <2> QED BY <1>1, <2>1, <2>2, <2>4
<1>4. ASSUME NEW r \in Requests, NoConnection(r) \/ RemoveOld(r) \/ Refresh(r)
      PROVE  Goal
  <2>1. faults = 0 /\ UNCHANGED at /\ Passing' = Passing
    BY <1>4 DEF NoConnection, RemoveOld, Refresh, Passing, Goto, TypeOK
  <2>2. \A q \in Requests : pc'[q] = "zadd" <=> pc[q] = "zadd"
    BY <1>4 DEF NoConnection, RemoveOld, Refresh, Goto, TypeOK
  <2> QED BY <1>2, <2>1, <2>2
<1>5. ASSUME NEW r \in Requests, Count(r) PROVE Goal
  <2>1. /\ faults = 0 /\ UNCHANGED <<now, at, window>> /\ pc[r] = "zcard"
        /\ \A q \in Requests : q # r => pc'[q] = pc[q]
    BY <1>5 DEF Count, Goto, TypeOK
  <2>2. Passing' = Passing /\ PassedUpTo(t)' = PassedUpTo(t)
    BY <1>5, <2>1 DEF Count, Goto, TypeOK, Passing, PassedUpTo
  <2>3. CASE pc'[r] = "refused" \/ ~(at[r] <= t /\ t + Latency < at[r] + Window)
    <3>1. Admitted(t)' = Admitted(t)
      BY <2>1, <2>3 DEF Admitted
    <3> QED BY <1>1, <2>1, <2>2, <3>1
  <2>4. CASE pc'[r] = "zadd" /\ at[r] <= t /\ t + Latency < at[r] + Window
    <3>1. Cardinality(window) < EffectiveLimit
      BY <1>5, <2>1, <2>4 DEF Count, Goto, TypeOK
    <3>2. IsFiniteSet(window) /\ Cardinality(window) \in Nat
      <4>1. window \subseteq 0 .. now
        BY DEF WindowInv, TypeOK
      <4> QED BY <4>1, TimesFinite, FS_Subset, FS_CardinalityType
    <3>3. PassedUpTo(t) \subseteq window
      <4> SUFFICES ASSUME NEW q \in Passing, at[q] <= t, t + Latency < at[q] + Window
                   PROVE  at[q] \in window
        BY DEF PassedUpTo
      <4>1. now <= at[r] + Latency
        BY <2>1 DEF FlightInv, InFlight, Commands
      <4>2. now < at[q] + Window /\ q \in Requests
        BY <1>0, <2>4, <4>1, TimeAssumption DEF Passing, TypeOK
      <4>3. at[q] + Window > now
        BY <1>0, <4>2, TimeAssumption DEF TypeOK
      <4> QED BY <2>1, <4>3 DEF ExpiryInv
    <3>4. Cardinality(PassedUpTo(t)') <= Cardinality(window)
      BY <2>2, <3>2, <3>3, FS_Subset
    <3>5. Admitted(t)' \subseteq InFlight'
      BY DEF Admitted, InFlight, Commands
    <3>6. Cardinality(Admitted(t)') <= Cardinality(InFlight') /\ IsFiniteSet(Admitted(t)')
      BY <3>5, FS_Subset DEF FlightInv
    <3>7. Cardinality(Admitted(t)') <= Overlap
      BY <3>6, FS_CardinalityType, OverlapAssumption DEF FlightInv
    <3>8. Cardinality(PassedUpTo(t)') \in Nat /\ Cardinality(Admitted(t)') \in Nat
      BY <2>2, <3>2, <3>3, <3>6, FS_Subset, FS_CardinalityType
    <3> QED BY <3>1, <3>2, <3>4, <3>7, <3>8, OverlapAssumption, TimesFinite
  <2>5. pc'[r] \in {"refused", "zadd"}
    BY <1>5 DEF Count, Goto, TypeOK
  <2> QED BY <2>3, <2>4, <2>5
<1>6. ASSUME NEW r \in Requests, Record(r) PROVE Goal
  <2>1. /\ faults = 0 /\ UNCHANGED at /\ pc[r] = "zadd" /\ pc'[r] = "expire"
        /\ \A q \in Requests : q # r => pc'[q] = pc[q]
    BY <1>6 DEF Record, Goto, TypeOK
  <2>2. Passing' = Passing \cup {r}
    BY <2>1 DEF Passing
  <2>3. CASE ~(at[r] <= t /\ t + Latency < at[r] + Window)
    <3>1. Admitted(t)' = Admitted(t)
      BY <2>1, <2>3 DEF Admitted
    <3>2. PassedUpTo(t)' = PassedUpTo(t)
      BY <2>1, <2>2, <2>3 DEF PassedUpTo
    <3> QED BY <1>1, <2>1, <3>1, <3>2
  <2>4. CASE at[r] <= t /\ t + Latency < at[r] + Window
    <3>1. Admitted(t)' = Admitted(t) \ {r} /\ r \in Admitted(t)
      BY <2>1, <2>4 DEF Admitted
    <3>2. PassedUpTo(t)' = PassedUpTo(t) \cup {at[r]}
      BY <2>1, <2>2, <2>4 DEF PassedUpTo
    <3>3. Admitted(t) \subseteq InFlight
      BY DEF Admitted, InFlight, Commands
    <3>4. IsFiniteSet(Admitted(t)) /\ IsFiniteSet(PassedUpTo(t))
      BY <3>3, FS_Subset, TimesFinite DEF FlightInv
    <3>5. Cardinality(Admitted(t)') = Cardinality(Admitted(t)) - 1
      BY <3>1, <3>4, FS_RemoveElement
    <3>6. Cardinality(PassedUpTo(t)') <= Cardinality(PassedUpTo(t)) + 1
          /\ Cardinality(PassedUpTo(t)') \in Nat
      <4>1. /\ IsFiniteSet(PassedUpTo(t)')
            /\ \/ Cardinality(PassedUpTo(t)') = Cardinality(PassedUpTo(t))
               \/ Cardinality(PassedUpTo(t)') = Cardinality(PassedUpTo(t)) + 1
        BY <3>2, <3>4, FS_AddElement
      <4>2. /\ Cardinality(PassedUpTo(t)) \in Nat
            /\ Cardinality(PassedUpTo(t)') \in Nat
        BY <3>4, <4>1, FS_CardinalityType
      <4> QED BY <4>1, <4>2
    <3>7. Cardinality(PassedUpTo(t)) + Cardinality(Admitted(t)) <= EffectiveLimit + Overlap - 1
      BY <2>1 DEF LimitInv
    <3> QED BY <3>4, <3>5, <3>6, <3>7, FS_CardinalityType, TimesFinite, OverlapAssumption
  <2> QED BY <2>3, <2>4
<1>7. ASSUME NEW r \in Requests, RedisError(r) PROVE FALSE
  BY <1>7 DEF RedisError, TypeOK
<1>8. CASE Tick \/ UNCHANGED vars
  <2>1. faults = 0 /\ UNCHANGED <<at, pc>>
    BY <1>8 DEF Tick, vars
  <2> QED BY <1>2, <2>1 DEF Passing
<1> QED BY <1>3, <1>4, <1>5, <1>6, <1>7, <1>8 DEF Next, Step

\* A refusal stays justified: what counted against the request still does, and
\* when it is refused all of the set counts against it.
LEMMA DenialInductive ==
    TypeOK /\ FlightInv /\ FlightInv' /\ WindowInv /\ TypeOK' /\ DenialJustified /\ [Next]_vars
        => DenialJustified'
<1> SUFFICES ASSUME TypeOK, FlightInv, TypeOK', FlightInv', WindowInv, DenialJustified,
                    [Next]_vars, NEW r \in Requests, pc'[r] = "refused"
             PROVE  Cardinality(CountedAgainst(r)') >= EffectiveLimit
  BY DEF DenialJustified, EffectiveLimit
<1>1. IsFiniteSet(CountedAgainst(r)') /\ EffectiveLimit \in Nat
  <2>1. IsFiniteSet(0 .. now') /\ CountedAgainst(r)' \subseteq 0 .. now'
    <3>1. IsFiniteSet(0 .. now')
      BY FS_Interval DEF TypeOK
    <3>2. \A q \in Requests : at'[q] \in 0 .. now'
      BY DEF TypeOK, FlightInv
    <3> QED BY <3>1, <3>2 DEF CountedAgainst, Recorded
  <2> QED BY <2>1, TimesFinite, FS_Subset
<1>2. ASSUME pc[r] = "refused", \A q \in Recorded : q \in Recorded' /\ at'[q] = at[q],
             at'[r] = at[r]
      PROVE  Cardinality(CountedAgainst(r)') >= EffectiveLimit
  <2>1. CountedAgainst(r) \subseteq CountedAgainst(r)'
    BY <1>2 DEF CountedAgainst
  <2>2. /\ Cardinality(CountedAgainst(r)) <= Cardinality(CountedAgainst(r)')
        /\ IsFiniteSet(CountedAgainst(r))
    BY <1>1, <2>1, FS_Subset
  <2>3. Cardinality(CountedAgainst(r)) >= EffectiveLimit
    BY <1>2 DEF DenialJustified
  <2> QED BY <1>1, <2>2, <2>3, FS_CardinalityType
<1>3. CASE pc[r] # "refused"
  <2>1. Count(r) /\ Cardinality(window) >= EffectiveLimit
    <3>1. ASSUME NEW q \in Requests, Step(q) PROVE q = r /\ Count(r)
      <4>1. \A p \in Requests : p # q => pc'[p] = pc[p]
        BY <3>1 DEF Step, NoConnection, Start, RemoveOld, Count, Record, Refresh,
                        RedisError, Goto, TypeOK
      <4>2. q = r
        BY <1>3, <4>1
      <4> QED BY <3>1, <4>2 DEF Step, NoConnection, Start, RemoveOld, Record, Refresh,
                        RedisError, Goto, TypeOK
    <3>2. ~Tick /\ ~UNCHANGED vars
      BY <1>3 DEF Tick, vars
    <3>3. Count(r)
      BY <3>1, <3>2 DEF Next
    <3> QED BY <3>3 DEF Count, Goto, TypeOK
  <2>2. UNCHANGED <<at, window>> /\ pc[r] = "zcard" /\ Recorded \subseteq Recorded'
    BY <2>1 DEF Count, Goto, TypeOK, Recorded
  <2>3. window \subseteq CountedAgainst(r)'
    <3> SUFFICES ASSUME NEW t \in window PROVE t \in CountedAgainst(r)'
      OBVIOUS
    <3>1. PICK q \in Recorded : at[q] = t
      BY DEF WindowInv
    <3>2. at[r] < at[q] + Window
      BY <2>2, <3>1 DEF WindowInv
    <3> QED BY <2>2, <3>1, <3>2 DEF CountedAgainst
  <2>4. Cardinality(window) <= Cardinality(CountedAgainst(r)') /\ IsFiniteSet(window)
    BY <1>1, <2>3, FS_Subset
  <2> QED BY <1>1, <2>1, <2>4, FS_CardinalityType
<1>4. CASE pc[r] = "refused"
  <2>1. ASSUME NEW q \in Requests, Step(q)
        PROVE  \A p \in Recorded : p \in Recorded' /\ at'[p] = at[p]
    <3>1. /\ \A p \in Requests : p # q => pc'[p] = pc[p] /\ at'[p] = at[p]
          /\ q \in Recorded => q \in Recorded' /\ at'[q] = at[q]
      <4>1. CASE Start(q)
        BY <4>1 DEF Start, Goto, TypeOK, Recorded
      <4>2. CASE NoConnection(q) \/ RemoveOld(q) \/ Count(q) \/ Record(q) \/ Refresh(q)
        BY <4>2 DEF NoConnection, RemoveOld, Count, Record, Refresh, Goto, TypeOK, Recorded
      <4>3. CASE RedisError(q)
        BY <4>3 DEF RedisError, TypeOK, Recorded
      <4> QED BY <2>1, <4>1, <4>2, <4>3 DEF Step
    <3> QED BY <3>1 DEF Recorded
  <2>2. ASSUME NEW q \in Requests, Step(q) PROVE at'[r] = at[r]
    BY <1>4, <2>2 DEF Step, NoConnection, Start, RemoveOld, Count, Record, Refresh,
                        RedisError, Goto, TypeOK
  <2>3. CASE Tick \/ UNCHANGED vars
    <3>1. UNCHANGED <<at, pc>>
      BY <2>3 DEF Tick, vars
    <3> QED BY <1>2, <1>4, <3>1 DEF Recorded
  <2> QED BY <1>2, <1>4, <2>1, <2>2, <2>3 DEF Next
<1> QED BY <1>3, <1>4

\* The set that got its first member gets an expiry: the EXPIRE of the call that
\* added it finds it there.
LEMMA SetExpiresInductive == TypeOK /\ SetExpires /\ [Next]_vars => SetExpires'
<1> SUFFICES ASSUME TypeOK, SetExpires, [Next]_vars,
                    faults' = 0, window' # {}, deadline' = NoExpiry
             PROVE  \E r \in Requests : pc'[r] = "expire"
  BY DEF SetExpires
<1> USE DEF TypeOK, Goto
<1>1. CASE /\ faults = 0 /\ window # {} /\ deadline = NoExpiry
           /\ \A r \in Requests : pc[r] = "expire" => pc'[r] = "expire"
  BY <1>1 DEF SetExpires
<1>2. ASSUME NEW r \in Requests, NoConnection(r) \/ Start(r) \/ Count(r)
      PROVE \E q \in Requests : pc'[q] = "expire"
  <2>1. UNCHANGED <<faults, window, deadline>>
    BY <1>2 DEF NoConnection, Start, Count
  <2>2. \A q \in Requests : pc[q] = "expire" => pc'[q] = "expire"
    BY <1>2 DEF NoConnection, Start, Count
  <2> QED BY <1>1, <2>1, <2>2
<1>3. ASSUME NEW r \in Requests, RemoveOld(r)
      PROVE \E q \in Requests : pc'[q] = "expire"
  <2>1. faults = 0 /\ deadline = NoExpiry /\ window # {}
    BY <1>3 DEF RemoveOld, Zremrangebyscore
  <2>2. \A q \in Requests : pc[q] = "expire" => pc'[q] = "expire"
    BY <1>3 DEF RemoveOld
  <2> QED BY <1>1, <2>1, <2>2
<1>4. ASSUME NEW r \in Requests, Record(r) PROVE pc'[r] = "expire"
  BY <1>4 DEF Record
<1>5. ASSUME NEW r \in Requests, Refresh(r) PROVE FALSE
  <2>1. now + 2 * Window # 0
    BY TimeAssumption
  <2> QED BY <1>5, <2>1 DEF Refresh, Expire, NoExpiry
<1>6. ASSUME NEW r \in Requests, RedisError(r) PROVE FALSE
  BY <1>6 DEF RedisError
<1>7. CASE Tick \/ UNCHANGED vars
  <2>1. faults = 0 /\ UNCHANGED <<window, deadline, pc>>
    BY <1>7 DEF Tick, vars
  <2> QED BY <1>1, <2>1
<1> QED BY <1>2, <1>3, <1>4, <1>5, <1>6, <1>7 DEF Next, Step

-----------------------------------------------------------------------------

\* No call has started: nothing is counted.
LEMMA InitInv == Init => IInv
<1> SUFFICES ASSUME Init PROVE IInv
  OBVIOUS
<1>1. TypeOK
  BY TimeAssumption DEF Init, TypeOK, NoExpiry
<1>2. InFlight = {} /\ Passing = {} /\ \A t \in Nat : Admitted(t) = {}
  BY DEF Init, InFlight, Commands, Passing, Admitted
<1>3. IsFiniteSet(InFlight) /\ Cardinality(InFlight) = 0
  BY <1>2, FS_EmptySet
<1>4. FlightInv
  BY <1>2, <1>3, OverlapAssumption DEF Init, FlightInv
<1>5. WindowInv /\ ExpiryInv /\ DenialJustified /\ SetExpires
  BY <1>2 DEF Init, WindowInv, ExpiryInv, DenialJustified, SetExpires, NoExpiry
<1>6. LimitInv
  <2>1. \A t \in Nat : PassedUpTo(t) = {}
    BY <1>2 DEF PassedUpTo
  <2>2. EffectiveLimit \in Nat
    BY LimitAssumption DEF EffectiveLimit
  <2>3. \A t \in Nat : Cardinality(PassedUpTo(t)) = 0 /\ Cardinality(Admitted(t)) = 0
    BY <1>2, <2>1, FS_EmptySet
  <2> QED BY <2>2, <2>3, OverlapAssumption DEF LimitInv
<1> QED BY <1>1, <1>4, <1>5, <1>6 DEF IInv

\* The invariant holds of every behaviour.
THEOREM Invariance == Spec => []IInv
<1>1. IInv /\ [Next]_vars => IInv'
  <2> SUFFICES ASSUME IInv, [Next]_vars PROVE IInv'
    OBVIOUS
  <2>1. TypeOK' /\ FlightInv'
    BY TypeInductive, FlightInductive DEF IInv
  <2>2. WindowInv' /\ ExpiryInv'
    BY WindowInductive, ExpiryInductive DEF IInv
  <2>3. LimitInv' /\ DenialJustified' /\ SetExpires'
    BY <2>1, LimitInductive, DenialInductive, SetExpiresInductive DEF IInv
  <2> QED BY <2>1, <2>2, <2>3 DEF IInv
<1> QED BY InitInv, <1>1, PTL DEF Spec

\* The variables keep their types.
THEOREM TypeCorrect == Spec => []TypeOK
BY Invariance, PTL DEF IInv

\* Whatever the interleaving of the commands and the expiry of the set, the
\* requests let through within a window exceed the limit by less than the calls
\* that overlap.
THEOREM LimitHolds == Spec => []WithinLimit
<1>1. IInv => WithinLimit
  <2> SUFFICES ASSUME IInv, faults = 0, NEW t \in 0 .. now
               PROVE  Cardinality(PassedUpTo(t)) <= EffectiveLimit + Overlap - 1
    BY DEF WithinLimit
  <2>1. t \in Nat /\ TypeOK /\ FlightInv
    BY DEF IInv, TypeOK
  <2>2. Cardinality(PassedUpTo(t)) + Cardinality(Admitted(t)) <= EffectiveLimit + Overlap - 1
    BY <2>1 DEF IInv, LimitInv
  <2>3. Admitted(t) \subseteq InFlight
    BY DEF Admitted, InFlight, Commands
  <2>4. Cardinality(Admitted(t)) \in Nat
    BY <2>1, <2>3, FS_Subset, FS_CardinalityType DEF FlightInv
  <2>5. Cardinality(PassedUpTo(t)) \in Nat
    BY <2>1, TimesFinite, FS_Subset, FS_CardinalityType
  <2> QED BY <2>1, <2>2, <2>4, <2>5, TimesFinite, OverlapAssumption
<1> QED BY Invariance, <1>1, PTL

\* No request is refused on account of requests too old or refused themselves.
THEOREM DenialsJustified == Spec => []DenialJustified
BY Invariance, PTL DEF IInv

\* Without failed commands the key of an idle user goes away.
THEOREM SetsExpire == Spec => []SetExpires
BY Invariance, PTL DEF IInv
=============================================================================
