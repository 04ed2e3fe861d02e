------------------------------ MODULE LeaseProofs ------------------------------
(* Theorems about the leases that stand for load on a slot.  About ActiveLoad, *)
(* where tunnels hold and renew them: for every number of tunnels and slots    *)
(* and for every policy whose lease outlasts the heartbeats that may be lost.  *)
(* About HttpRequest, whose attempts take and give them back: for any number   *)
(* of attempts.  The two share no variable and no constant.                    *)
EXTENDS ActiveLoad, HttpRequest, FiniteSetTheorems, TLAPS

----------------------------------------------------------------------------
(* Every action but Tick changes the lease and the state of one tunnel.      *)

TunnelStates ==
    [pc : {"idle", "selecting", "attempting", "live", "removing", "ended", "abandoned"},
     loads : [Slots -> Nat], since : Nat, beatDue : Nat, beat : Nat, lost : Nat]

Step(t) ==
    \/ CountLoads(t) \/ ClaimFails(t)
    \/ \E preferred \in Slots \cup {NoSlot}, pressured \in SUBSET Slots :
          Register(t, preferred, pressured)
    \/ Track(t) \/ TrackUnrefreshed(t) \/ BeatStarts(t) \/ BeatStored(t) \/ BeatCancelled(t)
    \/ Ends(t) \/ Removed(t) \/ RemovalRejected(t) \/ Abandons(t)
    \/ Expires(t) \/ Forgotten(t)

Becomes(t, l, r) ==
    /\ lease' = [lease EXCEPT ![t] = l]
    /\ tunnel' = [tunnel EXCEPT ![t] = r]
    /\ now' = now

\* The lease l and the tunnel state r that a step of t may lead to: it claims
\* nothing yet, claims a slot, is tracked, starts or finishes a heartbeat, ends, is
\* removed or not, or its lease expires.
Unclaimed(t, l, r) ==
    /\ l = lease[t] /\ r.pc \in {"idle", "selecting"} /\ r.beat = 0
    /\ l.slot = NoSlot \/ tunnel[t].pc = "selecting"
Claimed(t, l, r) ==
    /\ tunnel[t].pc = "selecting" /\ l.slot # NoSlot /\ l.expiresAt = now + TTL
    /\ r.pc = "attempting" /\ r.since = now /\ r.beat = 0
\* What a heartbeat that was stored, or lost, leaves.
Beaten(t, l, r, expiry, missed) ==
    \/ /\ r.lost = 0 /\ l.slot = lease[t].slot
       /\ l.slot # NoSlot => l.expiresAt = expiry
    \/ r.lost = missed + 1 /\ missed < MaxLost /\ l = lease[t]
Connects(t, l, r) ==
    /\ tunnel[t].pc = "attempting" /\ r.pc = "live"
    /\ r.beatDue = now + HeartbeatEvery /\ r.beat = 0
    /\ Beaten(t, l, r, now + TTL, 0)
StartsBeat(t, l, r) ==
    /\ l = lease[t] /\ tunnel[t].pc = "live" /\ r.pc = "live"
    /\ tunnel[t].beat = 0 /\ now >= tunnel[t].beatDue
    /\ r.beat = now + TTL /\ r.beatDue = now + HeartbeatEvery /\ r.lost = tunnel[t].lost
EndsBeat(t, l, r) ==
    /\ tunnel[t].beat > 0 /\ r.pc = tunnel[t].pc /\ r.beat = 0
    /\ r.beatDue = tunnel[t].beatDue /\ r.since = tunnel[t].since
    /\ Beaten(t, l, r, tunnel[t].beat, tunnel[t].lost)
Stops(t, l, r) ==
    /\ l = lease[t] /\ tunnel[t].pc \in {"attempting", "live"} /\ r.pc = "removing"
    /\ r.since = now /\ r.beat = tunnel[t].beat
Deleted(t, l, r) ==
    l = NoLease /\ tunnel[t].pc = "removing" /\ r.pc = "ended" /\ r.beat = tunnel[t].beat
Leaks(t, l, r) ==
    /\ l = lease[t] /\ r.pc = "abandoned"
    /\ \/ tunnel[t].pc = "removing" /\ r.since = tunnel[t].since /\ r.beat = tunnel[t].beat
       \/ /\ tunnel[t].pc \in {"selecting", "attempting", "live", "removing"}
          /\ r.since = now /\ r.beat = 0
Lapses(t, l, r) ==
    l = NoLease /\ r = tunnel[t] /\ lease[t].expiresAt <= now

Outcome(t, l, r) ==
    \/ Unclaimed(t, l, r) \/ Claimed(t, l, r) \/ Connects(t, l, r)
    \/ StartsBeat(t, l, r) \/ EndsBeat(t, l, r)
    \/ Stops(t, l, r) \/ Deleted(t, l, r) \/ Leaks(t, l, r) \/ Lapses(t, l, r)

LEMMA IdleType == Idle \in TunnelStates
BY DEF Idle, TunnelStates

LEMMA NoLeaseType == NoLease \in Leases /\ NoLease.slot = NoSlot
BY DEF NoLease, Leases

LEMMA LoadType == ASSUME NEW s PROVE Load(s) \in Nat
<1>1. IsFiniteSet({t \in Tunnels : Counted(t, s)})
  BY FS_Subset, LoadConstants
<1> QED
  BY <1>1, FS_CardinalityType DEF Load

LEMMA StepOutcome ==
    ASSUME TypeOK, NEW t \in Tunnels, Step(t)
    PROVE  \E l \in Leases, r \in TunnelStates : Becomes(t, l, r) /\ Outcome(t, l, r)
<1> DEFINE s == tunnel[t]
<1>1. /\ s \in TunnelStates /\ lease[t] \in Leases /\ now \in Nat
      /\ lease = [lease EXCEPT ![t] = lease[t]]
      /\ tunnel = [tunnel EXCEPT ![t] = tunnel[t]]
  BY DEF TypeOK, TunnelStates
<1>2. CASE CountLoads(t)
  <2> DEFINE r == [Idle EXCEPT !.pc = "selecting", !.loads = [q \in Slots |-> Load(q)]]
  <2>1. r \in TunnelStates /\ r.pc = "selecting" /\ r.beat = 0
    BY LoadType DEF Idle, TunnelStates
  <2>2. Becomes(t, lease[t], r) /\ lease[t].slot = NoSlot
    BY <1>1, <1>2 DEF CountLoads, Becomes, Exists
  <2> HIDE DEF r
  <2> QED
    BY <1>1, <2>1, <2>2 DEF Outcome, Unclaimed
<1>3. CASE ClaimFails(t)
  BY <1>1, <1>3, IdleType DEF ClaimFails, Becomes, Outcome, Unclaimed, Idle
<1>4. ASSUME NEW preferred \in Slots \cup {NoSlot}, NEW pressured \in SUBSET Slots,
             Register(t, preferred, pressured)
      PROVE  \E l \in Leases, r \in TunnelStates : Becomes(t, l, r) /\ Outcome(t, l, r)
  <2> DEFINE r == [Idle EXCEPT !.pc = "attempting", !.since = now]
  <2>1. r \in TunnelStates /\ r.pc = "attempting" /\ r.since = now /\ r.beat = 0
    BY <1>1 DEF Idle, TunnelStates
  <2>2. PICK q \in Slots : lease' = [lease EXCEPT ![t] = [slot |-> q, expiresAt |-> now + TTL]]
    BY <1>4 DEF Register
  <2> DEFINE l == [slot |-> q, expiresAt |-> now + TTL]
  <2>3. l \in Leases /\ l.slot # NoSlot /\ l.expiresAt = now + TTL
    BY <1>1, LoadConstants DEF Leases
  <2>4. Becomes(t, l, r) /\ s.pc = "selecting"
    BY <1>4, <2>2 DEF Register, Becomes
  <2> HIDE DEF l, r
  <2> QED
    BY <2>1, <2>3, <2>4 DEF Outcome, Claimed
\* A stored heartbeat.
<1>5. ASSUME NEW e \in Nat, StoreHeartbeat(t, e)
      PROVE  \E l \in Leases :
                /\ lease' = [lease EXCEPT ![t] = l]
                /\ l.slot = lease[t].slot
                /\ l.slot # NoSlot => l.expiresAt = e
                /\ l.slot = NoSlot => l = lease[t]
  <2>1. CASE Exists(t)
    <3> DEFINE l == [lease[t] EXCEPT !.expiresAt = e]
    <3>1. l \in Leases /\ l.slot = lease[t].slot /\ l.expiresAt = e
      BY <1>1, <1>5 DEF Leases
    <3>2. lease' = [lease EXCEPT ![t] = l]
      BY <1>5, <2>1 DEF StoreHeartbeat
    <3> QED
      BY <2>1, <3>1, <3>2 DEF Exists
  <2>2. CASE ~Exists(t)
    BY <1>1, <1>5, <2>2 DEF StoreHeartbeat, Exists
  <2> QED
    BY <2>1, <2>2
<1>6. ASSUME NEW n \in Nat, Connected(t, n)
      PROVE  \E r \in TunnelStates :
                /\ tunnel' = [tunnel EXCEPT ![t] = r]
                /\ r.pc = "live" /\ r.beatDue = now + HeartbeatEvery /\ r.beat = 0 /\ r.lost = n
  <2> DEFINE r == [Idle EXCEPT !.pc = "live", !.beatDue = now + HeartbeatEvery, !.lost = n]
  <2>1. now + HeartbeatEvery \in Nat
    BY <1>1, LoadConstants
  <2>2. r \in TunnelStates /\ r.pc = "live" /\ r.beatDue = now + HeartbeatEvery
          /\ r.beat = 0 /\ r.lost = n
    BY <2>1 DEF Idle, TunnelStates
  <2>3. tunnel' = [tunnel EXCEPT ![t] = r]
    BY <1>6 DEF Connected
  <2> HIDE DEF r
  <2> QED
    BY <2>2, <2>3
<1>7. CASE Track(t)
  <2>1. now + TTL \in Nat /\ 0 \in Nat
    BY <1>1, LoadConstants
  <2> QED
    BY <1>5, <1>6, <1>7, <2>1 DEF Track, Becomes, Outcome, Connects, Beaten
<1>8. CASE TrackUnrefreshed(t)
  BY <1>1, <1>6, <1>8 DEF TrackUnrefreshed, Becomes, Outcome, Connects, Beaten
<1>9. CASE BeatStarts(t)
  <2> DEFINE r == [s EXCEPT !.beat = now + TTL, !.beatDue = now + HeartbeatEvery]
  <2>1. now + TTL \in Nat /\ now + HeartbeatEvery \in Nat
    BY <1>1, LoadConstants
  <2>2. r \in TunnelStates /\ r.pc = s.pc /\ r.beat = now + TTL
          /\ r.beatDue = now + HeartbeatEvery /\ r.lost = s.lost
    BY <1>1, <2>1 DEF TunnelStates
  <2>3. Becomes(t, lease[t], r) /\ s.pc = "live" /\ s.beat = 0 /\ now >= s.beatDue
    BY <1>1, <1>9 DEF BeatStarts, Becomes
  <2> HIDE DEF r
  <2> QED
    BY <1>1, <2>2, <2>3 DEF Outcome, StartsBeat
<1>10. CASE BeatStored(t)
  <2> DEFINE r == [s EXCEPT !.beat = 0, !.lost = 0]
  <2>1. r \in TunnelStates /\ r.pc = s.pc /\ r.beat = 0 /\ r.lost = 0
          /\ r.beatDue = s.beatDue /\ r.since = s.since
    BY <1>1 DEF TunnelStates
  <2>2. tunnel' = [tunnel EXCEPT ![t] = r] /\ now' = now /\ s.beat > 0 /\ s.beat \in Nat
    BY <1>1, <1>10 DEF BeatStored, TunnelStates
  <2>3. StoreHeartbeat(t, s.beat)
    BY <1>10 DEF BeatStored
  <2>4. PICK l \in Leases : /\ lease' = [lease EXCEPT ![t] = l]
                            /\ l.slot = lease[t].slot
                            /\ l.slot # NoSlot => l.expiresAt = s.beat
    BY <1>5, <2>2, <2>3
  <2> HIDE DEF r
  <2>5. Becomes(t, l, r) /\ EndsBeat(t, l, r)
    BY <2>1, <2>2, <2>4 DEF Becomes, EndsBeat, Beaten
  <2> QED
    BY <2>1, <2>5 DEF Outcome
<1>11. CASE BeatCancelled(t)
  <2> DEFINE r == [s EXCEPT !.beat = 0, !.lost = @ + 1]
  <2>0. s.lost + 1 \in Nat
    BY <1>1 DEF TunnelStates
  <2>1. r \in TunnelStates /\ r.pc = s.pc /\ r.beat = 0 /\ r.lost = s.lost + 1
          /\ r.beatDue = s.beatDue /\ r.since = s.since
    BY <1>1, <2>0 DEF TunnelStates
  <2>2. Becomes(t, lease[t], r) /\ s.beat > 0 /\ s.lost < MaxLost
    BY <1>1, <1>11 DEF BeatCancelled, Becomes
  <2> HIDE DEF r
  <2> QED
    BY <1>1, <2>1, <2>2 DEF Outcome, EndsBeat, Beaten
<1>12. CASE Ends(t)
  <2> DEFINE r == [Idle EXCEPT !.pc = "removing", !.since = now, !.beat = s.beat]
  <2>1. r \in TunnelStates /\ r.pc = "removing" /\ r.since = now /\ r.beat = s.beat
    BY <1>1 DEF Idle, TunnelStates
  <2>2. Becomes(t, lease[t], r) /\ s.pc \in {"attempting", "live"}
    BY <1>1, <1>12 DEF Ends, Becomes
  <2> HIDE DEF r
  <2> QED
    BY <1>1, <2>1, <2>2 DEF Outcome, Stops
<1>13. CASE Removed(t)
  <2> DEFINE r == [s EXCEPT !.pc = "ended"]
  <2>1. r \in TunnelStates /\ r.pc = "ended" /\ r.beat = s.beat
    BY <1>1 DEF TunnelStates
  <2>2. Becomes(t, NoLease, r) /\ s.pc = "removing"
    BY <1>1, <1>13 DEF Removed, Becomes
  <2> HIDE DEF r
  <2> QED
    BY <2>1, <2>2, NoLeaseType DEF Outcome, Deleted
<1>14. CASE RemovalRejected(t)
  <2> DEFINE r == [s EXCEPT !.pc = "abandoned"]
  <2>1. r \in TunnelStates /\ r.pc = "abandoned" /\ r.beat = s.beat /\ r.since = s.since
    BY <1>1 DEF TunnelStates
  <2>2. Becomes(t, lease[t], r) /\ s.pc = "removing"
    BY <1>1, <1>14 DEF RemovalRejected, Becomes
  <2> HIDE DEF r
  <2> QED
    BY <1>1, <2>1, <2>2 DEF Outcome, Leaks
<1>15. CASE Abandons(t)
  <2> DEFINE r == [Idle EXCEPT !.pc = "abandoned", !.since = now]
  <2>1. r \in TunnelStates /\ r.pc = "abandoned" /\ r.since = now /\ r.beat = 0
    BY <1>1 DEF Idle, TunnelStates
  <2>2. Becomes(t, lease[t], r) /\ s.pc \in {"selecting", "attempting", "live", "removing"}
    BY <1>1, <1>15 DEF Abandons, Becomes
  <2> HIDE DEF r
  <2> QED
    BY <1>1, <2>1, <2>2 DEF Outcome, Leaks
<1>16. CASE Expires(t)
  BY <1>1, <1>16, NoLeaseType DEF Expires, Becomes, Outcome, Lapses
<1>17. CASE Forgotten(t)
  <2>1. Idle.pc = "idle" /\ Idle.beat = 0
    BY DEF Idle
  <2> QED
    BY <1>1, <1>17, <2>1, IdleType DEF Forgotten, Becomes, Outcome, Unclaimed, Exists
<1> QED
  BY <1>2, <1>3, <1>4, <1>7, <1>8, <1>9, <1>10, <1>11, <1>12, <1>13, <1>14, <1>15, <1>16, <1>17
     DEF Step

LEMMA NextSteps == [Next]_vars => (\E t \in Tunnels : Step(t)) \/ Tick \/ UNCHANGED vars
BY DEF Next, Step

LEMMA TypeInit == Init => TypeOK
BY IdleType, NoLeaseType DEF Init, TypeOK, TunnelStates

LEMMA TypeStep == TypeOK /\ [Next]_vars => TypeOK'
<1> SUFFICES ASSUME TypeOK, [Next]_vars PROVE TypeOK'
  OBVIOUS
<1>1. ASSUME NEW t \in Tunnels, Step(t) PROVE TypeOK'
  <2>1. PICK l \in Leases, r \in TunnelStates : Becomes(t, l, r)
    BY <1>1, StepOutcome
  <2> QED
    BY <2>1 DEF Becomes, TypeOK, TunnelStates
<1>2. CASE Tick
  BY <1>2 DEF Tick, TypeOK
<1>3. CASE UNCHANGED vars
  BY <1>3 DEF vars, TypeOK
<1> QED
  BY <1>1, <1>2, <1>3, NextSteps

\* Leases and tunnels keep their shapes.
THEOREM LoadTypes == Spec => []TypeOK
BY TypeInit, TypeStep, PTL DEF Spec

----------------------------------------------------------------------------
(* A leaked lease is bounded.                                                *)

\* No lease, and no heartbeat in flight, reaches further than one TTL past the
\* last moment its tunnel was alive; a removed lease is gone.
Bounded(l, r, time) ==
    /\ r.pc \in {"idle", "selecting"} => l.slot = NoSlot /\ r.beat = 0
    /\ r.pc \in {"attempting", "live"} =>
          (l.slot # NoSlot => l.expiresAt <= time + TTL) /\ r.beat <= time + TTL
    /\ r.pc \in {"removing", "abandoned"} =>
          (l.slot # NoSlot => l.expiresAt <= r.since + TTL) /\ r.beat <= r.since + TTL /\ r.since <= time
    /\ r.pc = "ended" => l.slot = NoSlot

LeakInv == TypeOK /\ \A t \in Tunnels : Bounded(lease[t], tunnel[t], now)

LEMMA LeakInit == Init => LeakInv
<1> SUFFICES ASSUME Init PROVE LeakInv
  OBVIOUS
<1>1. \A t \in Tunnels : lease[t] = NoLease /\ tunnel[t] = Idle
  BY DEF Init
<1>2. Idle.pc = "idle" /\ Idle.beat = 0
  BY DEF Idle
<1> QED
  BY <1>1, <1>2, NoLeaseType, TypeInit DEF LeakInv, Bounded

\* One step of a tunnel keeps its own bound.
LEMMA OutcomeBounded ==
    ASSUME TypeOK, NEW t \in Tunnels, Bounded(lease[t], tunnel[t], now),
           NEW l \in Leases, NEW r \in TunnelStates, Outcome(t, l, r)
    PROVE  Bounded(l, r, now)
<1>1. /\ now \in Nat /\ TTL \in Nat
      /\ tunnel[t] \in TunnelStates
      /\ tunnel[t].beat \in Nat /\ tunnel[t].since \in Nat /\ r.beat \in Nat /\ r.since \in Nat
      /\ lease[t].expiresAt \in Nat /\ l.expiresAt \in Nat
      /\ tunnel[t].pc \in {"idle", "selecting", "attempting", "live", "removing", "ended", "abandoned"}
  BY LoadConstants DEF TypeOK, TunnelStates, Leases
<1>2. Idle.pc = "idle" /\ Idle.beat = 0
  BY DEF Idle
<1>3. CASE Unclaimed(t, l, r)
  BY <1>1, <1>3 DEF Unclaimed, Bounded
<1>4. CASE Claimed(t, l, r)
  BY <1>1, <1>4 DEF Claimed, Bounded
<1>5. CASE Connects(t, l, r)
  BY <1>1, <1>5 DEF Connects, Beaten, Bounded
<1>6. CASE StartsBeat(t, l, r)
  BY <1>1, <1>6 DEF StartsBeat, Bounded
<1>7. CASE EndsBeat(t, l, r)
  BY <1>1, <1>7 DEF EndsBeat, Beaten, Bounded
<1>8. CASE Stops(t, l, r)
  BY <1>1, <1>8 DEF Stops, Bounded
<1>9. CASE Deleted(t, l, r)
  BY <1>1, <1>9, NoLeaseType DEF Deleted, Bounded
<1>10. CASE Leaks(t, l, r)
  BY <1>1, <1>10 DEF Leaks, Bounded
<1>11. CASE Lapses(t, l, r)
  BY <1>1, <1>11, NoLeaseType DEF Lapses, Bounded
<1> QED
  BY <1>3, <1>4, <1>5, <1>6, <1>7, <1>8, <1>9, <1>10, <1>11 DEF Outcome

LEMMA LeakStep == LeakInv /\ [Next]_vars => LeakInv'
<1> SUFFICES ASSUME LeakInv, [Next]_vars PROVE LeakInv'
  OBVIOUS
<1>0. TypeOK /\ TypeOK'
  BY TypeStep DEF LeakInv
<1>1. ASSUME NEW t \in Tunnels, Step(t) PROVE LeakInv'
  <2>1. PICK l \in Leases, r \in TunnelStates : Becomes(t, l, r) /\ Outcome(t, l, r)
    BY <1>0, <1>1, StepOutcome
  <2>2. Bounded(l, r, now)
    BY <1>0, <2>1, OutcomeBounded DEF LeakInv
  <2>3. \A u \in Tunnels : /\ lease'[u] = IF u = t THEN l ELSE lease[u]
                           /\ tunnel'[u] = IF u = t THEN r ELSE tunnel[u]
    BY <1>0, <2>1 DEF Becomes, TypeOK
  <2>4. now' = now
    BY <2>1 DEF Becomes
  <2>5. \A u \in Tunnels : Bounded(lease'[u], tunnel'[u], now')
    BY <2>2, <2>3, <2>4 DEF LeakInv
  <2> QED
    BY <1>0, <2>5 DEF LeakInv, Bounded
<1>2. CASE Tick
  <2>1. now' = now + 1 /\ lease' = lease /\ tunnel' = tunnel
    BY <1>2 DEF Tick
  <2>2. ASSUME NEW u \in Tunnels PROVE Bounded(lease'[u], tunnel'[u], now')
    <3>1. Bounded(lease[u], tunnel[u], now)
      BY DEF LeakInv
    <3>2. now \in Nat /\ TTL \in Nat /\ lease[u].expiresAt \in Nat
         /\ tunnel[u].beat \in Nat /\ tunnel[u].since \in Nat
      BY <1>0, LoadConstants DEF TypeOK, Leases
    <3> QED
      BY <2>1, <3>1, <3>2 DEF Bounded
  <2> QED
    BY <1>0, <2>2 DEF LeakInv, Bounded
<1>3. CASE UNCHANGED vars
  BY <1>0, <1>3 DEF vars, LeakInv, Bounded
<1> QED
  BY <1>1, <1>2, <1>3, NextSteps

LEMMA AlwaysBounded == Spec => []LeakInv
BY LeakInit, LeakStep, PTL DEF Spec

\* A lease leaked by a crash, by an attempt that never released it or by a
\* rejected removal is counted for at most one TTL more.
THEOREM LeakIsBounded == Spec => []LeakBounded
<1>1. LeakInv => LeakBounded
  BY DEF LeakInv, Bounded, LeakBounded, Exists
<1> QED
  BY <1>1, AlwaysBounded, PTL

\* A heartbeat in flight does not bring a removed lease back.
THEOREM RemovalIsFinal == Spec => []RemovedStaysRemoved
<1>1. LeakInv => RemovedStaysRemoved
  BY DEF LeakInv, Bounded, RemovedStaysRemoved, Exists
<1> QED
  BY <1>1, AlwaysBounded, PTL

----------------------------------------------------------------------------
(* A live tunnel's lease has not expired.                                    *)

\* The longest time between two heartbeats of a tunnel.
Period == HeartbeatEvery + PollDelay

\* The policy: a lease outlasts an attempt and the heartbeats that may be lost.
LeaseOutlasts ==
    /\ AttemptTimeout < TTL
    /\ (MaxLost + 1) * Period + PollDelay < TTL
    /\ AttemptTimeout <= Period

\* A claim expires one TTL after it was made.  Every lost heartbeat moves the
\* stored expiry of a live tunnel back by at most one Period from the expiry that
\* the last heartbeat due should have stored.
HeldAttempt(l, r, time) ==
    /\ l.slot # NoSlot /\ r.beat = 0
    /\ time <= r.since + AttemptTimeout /\ l.expiresAt = r.since + TTL
HeldLive(l, r, time) ==
    /\ l.slot # NoSlot /\ r.lost <= MaxLost
    /\ r.beat = 0 => /\ time <= r.beatDue + PollDelay
                     /\ l.expiresAt + r.lost * Period + HeartbeatEvery >= r.beatDue + TTL
    /\ r.beat > 0 => /\ r.beatDue + TTL = r.beat + HeartbeatEvery
                     /\ time + TTL <= r.beat + PollDelay
                     /\ l.expiresAt + (r.lost + 1) * Period >= r.beat
Held(l, r, time) ==
    /\ r.pc = "attempting" => HeldAttempt(l, r, time)
    /\ r.pc = "live" => HeldLive(l, r, time)

HeldInv == TypeOK /\ \A t \in Tunnels : Held(lease[t], tunnel[t], now)

LEMMA Products ==
    /\ Period \in Nat
    /\ \A n \in Nat : n * Period \in Nat /\ (n + 1) * Period = n * Period + Period
    /\ \A n \in Nat : n <= MaxLost => n * Period <= MaxLost * Period
BY LoadConstants DEF Period

\* A held lease has not expired.
LEMMA HeldLasts ==
    ASSUME LeaseOutlasts, NEW l \in Leases, NEW r \in TunnelStates, NEW time \in Nat,
           Held(l, r, time), r.pc \in {"attempting", "live"}
    PROVE  l.slot # NoSlot /\ l.expiresAt > time
<1>1. /\ l.expiresAt \in Nat /\ r.since \in Nat /\ r.beatDue \in Nat /\ r.beat \in Nat
      /\ r.lost \in Nat /\ TTL \in Nat /\ AttemptTimeout \in Nat
      /\ HeartbeatEvery \in Nat /\ PollDelay \in Nat /\ MaxLost \in Nat
  BY LoadConstants DEF Leases, TunnelStates
<1>2. CASE r.pc = "attempting"
  BY <1>1, <1>2 DEF Held, HeldAttempt, LeaseOutlasts
<1>3. CASE r.pc = "live"
  <2>1. HeldLive(l, r, time)
    BY <1>3 DEF Held
  <2> DEFINE P == r.lost * Period
             M == MaxLost * Period
  <2>2. /\ Period \in Nat /\ P \in Nat /\ M \in Nat /\ P <= M
        /\ (r.lost + 1) * Period = P + Period /\ M + Period + PollDelay < TTL
    BY <1>1, <2>1, Products DEF HeldLive, LeaseOutlasts
  <2>3. Period = HeartbeatEvery + PollDelay
    BY DEF Period
  <2>4. CASE r.beat = 0
    <3>1. l.slot # NoSlot /\ time <= r.beatDue + PollDelay
            /\ l.expiresAt + P + HeartbeatEvery >= r.beatDue + TTL
      BY <2>1, <2>4 DEF HeldLive
    <3> HIDE DEF P, M
    <3> QED
      BY <1>1, <2>2, <2>3, <3>1
  <2>5. CASE r.beat > 0
    <3>1. l.slot # NoSlot /\ time + TTL <= r.beat + PollDelay
            /\ l.expiresAt + P + Period >= r.beat
      BY <1>1, <2>1, <2>2, <2>5 DEF HeldLive
    <3> HIDE DEF P, M
    <3> QED
      BY <1>1, <2>2, <2>3, <3>1
  <2> QED
    BY <1>1, <2>4, <2>5
<1> QED
  BY <1>2, <1>3

LEMMA HeldInit == Init => HeldInv
<1> SUFFICES ASSUME Init PROVE HeldInv
  OBVIOUS
<1>1. \A t \in Tunnels : tunnel[t].pc = "idle"
  BY DEF Init, Idle
<1> QED
  BY <1>1, TypeInit DEF HeldInv, Held

\* One step of a tunnel keeps its lease held.
LEMMA OutcomeHeld ==
    ASSUME LeaseOutlasts, TypeOK, NEW t \in Tunnels, Held(lease[t], tunnel[t], now),
           NEW l \in Leases, NEW r \in TunnelStates, Outcome(t, l, r)
    PROVE  Held(l, r, now)
<1> DEFINE s == tunnel[t]
<1>1. /\ now \in Nat /\ TTL \in Nat /\ AttemptTimeout \in Nat /\ MaxLost \in Nat
      /\ HeartbeatEvery \in Nat /\ PollDelay \in Nat
      /\ s \in TunnelStates /\ lease[t] \in Leases
      /\ s.beat \in Nat /\ s.since \in Nat /\ s.beatDue \in Nat /\ s.lost \in Nat
      /\ r.beat \in Nat /\ r.since \in Nat /\ r.beatDue \in Nat /\ r.lost \in Nat
      /\ lease[t].expiresAt \in Nat /\ l.expiresAt \in Nat
      /\ Period \in Nat /\ Period = HeartbeatEvery + PollDelay
      /\ 0 * Period = 0 /\ 1 * Period = Period
      /\ (s.lost + 1) * Period = s.lost * Period + Period /\ s.lost * Period \in Nat
  BY LoadConstants, Products DEF TypeOK, TunnelStates, Leases, Period
<1>2. AttemptTimeout <= Period
  BY DEF LeaseOutlasts
<1>3. CASE r.pc \notin {"attempting", "live"}
  BY <1>3 DEF Held
<1>4. CASE Claimed(t, l, r)
  BY <1>1, <1>4 DEF Claimed, Held, HeldAttempt
<1>5. CASE Connects(t, l, r)
  <2>1. HeldAttempt(lease[t], s, now) /\ r.pc = "live" /\ r.beat = 0
          /\ r.beatDue = now + HeartbeatEvery /\ Beaten(t, l, r, now + TTL, 0)
    BY <1>5 DEF Connects, Held
  <2>2. CASE r.lost = 0 /\ l.slot = lease[t].slot /\ (l.slot # NoSlot => l.expiresAt = now + TTL)
    <3>1. l.slot # NoSlot /\ l.expiresAt = now + TTL
      BY <2>1, <2>2 DEF HeldAttempt
    <3>2. r.lost * Period = 0
      BY <1>1, <2>2
    <3> QED
      BY <1>1, <2>1, <2>2, <3>1, <3>2 DEF Held, HeldLive
  <2>3. CASE r.lost = 1 /\ 0 < MaxLost /\ l = lease[t]
    <3>1. r.lost * Period = Period
      BY <1>1, <2>3
    <3> QED
      BY <1>1, <1>2, <2>1, <2>3, <3>1 DEF Held, HeldLive, HeldAttempt
  <2> QED
    BY <2>1, <2>2, <2>3 DEF Beaten
<1>6. CASE StartsBeat(t, l, r)
  <2>1. HeldLive(lease[t], s, now) /\ l = lease[t] /\ s.beat = 0 /\ now >= s.beatDue
          /\ r.pc = "live" /\ r.beat = now + TTL /\ r.beatDue = now + HeartbeatEvery
          /\ r.lost = s.lost
    BY <1>6 DEF StartsBeat, Held
  <2>2. /\ l.slot # NoSlot /\ s.lost <= MaxLost /\ now <= s.beatDue + PollDelay
        /\ l.expiresAt + s.lost * Period + HeartbeatEvery >= s.beatDue + TTL
    BY <2>1 DEF HeldLive
  <2>3. l.expiresAt + (s.lost + 1) * Period >= r.beat
    <3> DEFINE P == s.lost * Period
    <3>1. P \in Nat /\ (s.lost + 1) * Period = P + Period
            /\ l.expiresAt + P + HeartbeatEvery >= s.beatDue + TTL
      BY <1>1, <2>2
    <3> HIDE DEF P
    <3> QED
      BY <1>1, <2>1, <2>2, <3>1
  <2>4. (r.lost + 1) * Period = (s.lost + 1) * Period
    BY <2>1
  <2>5. r.beat > 0 /\ r.beatDue + TTL = r.beat + HeartbeatEvery /\ now + TTL <= r.beat + PollDelay
    BY <1>1, <2>1, LoadConstants
  <2> QED
    BY <1>1, <2>1, <2>2, <2>3, <2>4, <2>5 DEF Held, HeldLive
<1>7. CASE EndsBeat(t, l, r) /\ r.pc = "live"
  <2>1. HeldLive(lease[t], s, now) /\ s.beat > 0 /\ r.beat = 0 /\ r.beatDue = s.beatDue
          /\ Beaten(t, l, r, s.beat, s.lost)
    BY <1>7 DEF EndsBeat, Held
  <2>2. /\ lease[t].slot # NoSlot /\ s.lost <= MaxLost
        /\ s.beatDue + TTL = s.beat + HeartbeatEvery /\ now + TTL <= s.beat + PollDelay
        /\ lease[t].expiresAt + (s.lost + 1) * Period >= s.beat
    BY <1>1, <2>1 DEF HeldLive
  <2>3. now <= r.beatDue + PollDelay
    BY <1>1, <2>1, <2>2
  <2>4. CASE r.lost = 0 /\ l.slot = lease[t].slot /\ (l.slot # NoSlot => l.expiresAt = s.beat)
    <3>1. r.lost * Period = 0
      BY <1>1, <2>4
    <3> QED
      BY <1>1, <1>7, <2>1, <2>2, <2>3, <2>4, <3>1 DEF Held, HeldLive
  <2>5. CASE r.lost = s.lost + 1 /\ s.lost < MaxLost /\ l = lease[t]
    <3> DEFINE P == r.lost * Period
    <3>1. P \in Nat /\ l.expiresAt + P >= s.beat
      BY <1>1, <2>2, <2>5
    <3> HIDE DEF P
    <3>2. l.expiresAt + P + HeartbeatEvery >= r.beatDue + TTL
      BY <1>1, <2>1, <2>2, <3>1
    <3>3. l.expiresAt + r.lost * Period + HeartbeatEvery >= r.beatDue + TTL
      BY <3>2 DEF P
    <3> QED
      BY <1>1, <1>7, <2>1, <2>2, <2>3, <2>5, <3>3 DEF Held, HeldLive
  <2> QED
    BY <2>1, <2>4, <2>5 DEF Beaten
<1>8. CASE EndsBeat(t, l, r) /\ r.pc = "attempting"
  BY <1>1, <1>8 DEF EndsBeat, Held, HeldAttempt
<1>9. CASE Lapses(t, l, r) /\ r.pc \in {"attempting", "live"}
  <2>1. s.pc \in {"attempting", "live"} /\ lease[t].expiresAt <= now
    BY <1>9 DEF Lapses
  <2>2. lease[t].expiresAt > now
    BY <1>1, <2>1, HeldLasts
  <2> QED
    BY <1>1, <2>1, <2>2
<1> QED
  BY <1>3, <1>4, <1>5, <1>6, <1>7, <1>8, <1>9
     DEF Outcome, Unclaimed, Stops, Deleted, Leaks

LEMMA HeldStep == ASSUME LeaseOutlasts PROVE HeldInv /\ [Next]_vars => HeldInv'
<1> SUFFICES ASSUME HeldInv, [Next]_vars PROVE HeldInv'
  OBVIOUS
<1>0. TypeOK /\ TypeOK'
  BY TypeStep DEF HeldInv
<1>1. ASSUME NEW t \in Tunnels, Step(t) PROVE HeldInv'
  <2>1. PICK l \in Leases, r \in TunnelStates : Becomes(t, l, r) /\ Outcome(t, l, r)
    BY <1>0, <1>1, StepOutcome
  <2>2. Held(l, r, now)
    BY <1>0, <2>1, OutcomeHeld DEF HeldInv
  <2>3. \A u \in Tunnels : /\ lease'[u] = IF u = t THEN l ELSE lease[u]
                           /\ tunnel'[u] = IF u = t THEN r ELSE tunnel[u]
    BY <1>0, <2>1 DEF Becomes, TypeOK
  <2>4. now' = now
    BY <2>1 DEF Becomes
  <2>5. \A u \in Tunnels : Held(lease'[u], tunnel'[u], now')
    BY <2>2, <2>3, <2>4 DEF HeldInv
  <2> QED
    BY <1>0, <2>5 DEF HeldInv, Held, HeldAttempt, HeldLive
<1>2. CASE Tick
  <2>1. now' = now + 1 /\ lease' = lease /\ tunnel' = tunnel
    BY <1>2 DEF Tick
  <2>2. ASSUME NEW u \in Tunnels PROVE Held(lease'[u], tunnel'[u], now')
    <3>1. Held(lease[u], tunnel[u], now)
      BY DEF HeldInv
    <3>2. /\ now \in Nat /\ TTL \in Nat /\ PollDelay \in Nat /\ AttemptTimeout \in Nat
          /\ tunnel[u].since \in Nat /\ tunnel[u].beatDue \in Nat /\ tunnel[u].beat \in Nat
      BY <1>0, LoadConstants DEF TypeOK
    <3>3. CASE tunnel[u].pc = "attempting"
      BY <1>2, <2>1, <3>1, <3>2, <3>3 DEF Tick, Held, HeldAttempt
    <3>4. CASE tunnel[u].pc = "live"
      BY <1>2, <2>1, <3>1, <3>2, <3>4 DEF Tick, Held, HeldLive
    <3> QED
      BY <2>1, <3>3, <3>4 DEF Held
  <2> QED
    BY <1>0, <2>2 DEF HeldInv, Held, HeldAttempt, HeldLive
<1>3. CASE UNCHANGED vars
  BY <1>0, <1>3 DEF vars, HeldInv, Held, HeldAttempt, HeldLive
<1> QED
  BY <1>1, <1>2, <1>3, NextSteps

\* When the lease outlasts an attempt and the heartbeats that may be lost, every
\* attempt and every established tunnel is counted in the load of its slot.
THEOREM TunnelsCounted == ASSUME LeaseOutlasts PROVE Spec => []EstablishedCounted
<1>1. HeldInv => EstablishedCounted
  <2> SUFFICES ASSUME HeldInv, NEW t \in Tunnels, tunnel[t].pc \in {"attempting", "live"}
               PROVE  lease[t].slot # NoSlot /\ lease[t].expiresAt > now
    BY DEF EstablishedCounted, Exists
  <2>1. lease[t] \in Leases /\ tunnel[t] \in TunnelStates /\ now \in Nat
    BY DEF HeldInv, TypeOK, TunnelStates
  <2> QED
    BY <2>1, HeldLasts DEF HeldInv
<1> QED
  BY <1>1, HeldInit, HeldStep, PTL DEF Spec

----------------------------------------------------------------------------
(* HttpRequest.                                                              *)

Responses == {"none", "streaming", "finished", "refused", "destroyed"}

----------------------------------------------------------------------------
(* HttpRequest: types.                                                       *)

\* A request that has just been read has its type.
LEMMA RequestTypeInit == RequestInit => RequestTypeOK
<1> SUFFICES ASSUME RequestInit PROVE RequestTypeOK
  OBVIOUS
<1>1. attempt \in Attempts
  BY RequestConstants DEF RequestInit, Attempts
<1>2. QED
  BY <1>1 DEF RequestInit, RequestTypeOK, Before, Reasons

\* removeActiveTunnel and its rejection keep the leases' type.
LEMMA RemoveLeaseType ==
    ASSUME RequestTypeOK, RemoveLease
    PROVE  leased' \in [Attempts -> BOOLEAN] /\ lost' \subseteq Attempts
<1>1. CASE leased' = [leased EXCEPT ![attempt] = FALSE] /\ UNCHANGED lost
  BY <1>1 DEF RequestTypeOK
<1>2. CASE lost' = lost \cup {attempt} /\ UNCHANGED leased
  BY <1>2 DEF RequestTypeOK
<1>3. QED
  BY <1>1, <1>2 DEF RemoveLease

\* recordUsage keeps the records' type.
LEMMA RecordType == ASSUME RequestTypeOK, Record PROVE records' \in [Attempts -> Nat]
BY DEF RequestTypeOK, Record

\* finishAttempt keeps the type of the books.
LEMMA FinishType ==
    ASSUME RequestTypeOK, FinishAttempt
    PROVE  /\ leased' \in [Attempts -> BOOLEAN] /\ lost' \subseteq Attempts
           /\ records' \in [Attempts -> Nat] /\ finished' \in BOOLEAN
BY RemoveLeaseType, RecordType DEF RequestTypeOK, FinishAttempt, StopTracking, books

\* #sendError keeps the type of the response.
LEMMA SendErrorType ==
    ASSUME RequestTypeOK, SendError PROVE response' \in Responses /\ heads' \in Nat
BY DEF RequestTypeOK, SendError, Responses

\* The catch block of an attempt keeps the types.
LEMMA FailType ==
    ASSUME RequestTypeOK, NEW reason \in Reasons, Fail(reason), UNCHANGED books
    PROVE  RequestTypeOK'
BY DEF RequestTypeOK, Fail, answer, exchange, books, Before, Establishing

\* The outer catch block keeps the types.
LEMMA RefuseType ==
    ASSUME RequestTypeOK, Refuse, UNCHANGED <<up, exchange, books>>
    PROVE  RequestTypeOK'
BY SendErrorType DEF RequestTypeOK, Refuse, Goto, Responses, exchange, books

\* The end of the task keeps the types.
LEMMA DiesType == ASSUME RequestTypeOK, TaskDies PROVE RequestTypeOK'
BY DEF RequestTypeOK, TaskDies, exchange

\* The error listeners of an exchange keep the types.
LEMMA ExchangeType == ASSUME RequestTypeOK, ExchangeFails PROVE RequestTypeOK'
<1>1. response' \in Responses /\ heads' \in Nat
  BY SendErrorType DEF ExchangeFails, answer, RequestTypeOK, Responses
<1>2. QED
  BY <1>1, FinishType DEF ExchangeFails, RequestTypeOK, handler, budget, exchange, Responses

\* A caller that is cancelled, and the exchange that may end with it, keep the types.
LEMMA CancelType ==
    ASSUME RequestTypeOK, Cancel, response' = "destroyed", UNCHANGED <<heads, handler, exchange>>,
           \/ up' = [up EXCEPT ![attempt] = "closed"] /\ FinishAttempt
           \/ UNCHANGED <<up, books>>
    PROVE  RequestTypeOK'
<1>1. /\ leased' \in [Attempts -> BOOLEAN] /\ lost' \subseteq Attempts
      /\ records' \in [Attempts -> Nat] /\ finished' \in BOOLEAN
  BY FinishType DEF RequestTypeOK, books
<1>2. QED
  BY <1>1 DEF RequestTypeOK, Cancel, handler, exchange

\* Every action keeps the types.
LEMMA RequestTypeStep == RequestTypeOK /\ [RequestNext]_requestVars => RequestTypeOK'
<1> SUFFICES ASSUME RequestTypeOK, [RequestNext]_requestVars PROVE RequestTypeOK'
  OBVIOUS
<1> USE DEF handler, budget, answer, exchange, books
<1>1. CASE Authenticated
  BY <1>1, RefuseType DEF Authenticated, Goto, BeginBudget, RequestTypeOK, Before
<1>2. CASE Refused
  BY <1>2, RefuseType DEF Refused
<1>3. CASE Validated
  BY <1>3 DEF Validated, Goto, RequestTypeOK, Before, Establishing
<1>4. CASE ResolveOk
  BY <1>4 DEF ResolveOk, Goto, RequestTypeOK, Before, Establishing
<1>5. CASE AbortObserved
  BY <1>5, RefuseType, FailType, DiesType DEF AbortObserved, Reasons
<1>6. CASE Admitted
  BY <1>6 DEF Admitted, Goto, RequestTypeOK, Before, Establishing
<1>7. CASE Commit
  BY <1>7 DEF Commit, Goto, RequestTypeOK
<1>8. CASE Settle
  <2>1. leased' \in [Attempts -> BOOLEAN] /\ lost' \subseteq Attempts
    BY <1>8, RemoveLeaseType DEF Settle, Release, RequestTypeOK
  <2>2. records' \in [Attempts -> Nat]
    BY <1>8, RecordType DEF Settle, RequestTypeOK
  <2>3. CASE Retry /\ ~late
    <3>1. attempt + 1 \in Attempts
      BY <2>3, RequestConstants DEF RequestTypeOK, Attempts, Retry
    <3>2. QED
      BY <1>8, <2>1, <2>2, <2>3, <3>1 DEF Settle, BeginBudget, RequestTypeOK, Before, Establishing
  <2>4. CASE ~(Retry /\ ~late)
    BY <1>8, <2>1, <2>2, <2>4, SendErrorType DEF Settle, Goto, RequestTypeOK, Responses
  <2>5. QED
    BY <2>3, <2>4
<1>9. CASE \E reason \in Reasons, left \in BOOLEAN : ResolveFails(reason, left)
  BY <1>9 DEF ResolveFails, Fail, RequestTypeOK, Before, Establishing
<1>10. CASE \E reason \in Reasons : ConnectFails(reason)
  BY <1>10, FailType DEF ConnectFails
<1>11. CASE \E reason \in Reasons : AdmissionFails(reason)
  BY <1>11, FailType DEF AdmissionFails
<1>12. CASE \E reason \in Reasons : TrackFails(reason)
  BY <1>12, FailType, DiesType DEF TrackFails
<1>13. CASE ConnectOk
  BY <1>13 DEF ConnectOk, Goto, RequestTypeOK, Before, Establishing
<1>14. CASE HeadArrives
  BY <1>14 DEF HeadArrives, RequestTypeOK
<1>15. CASE HeadRejected
  BY <1>15, FinishType, SendErrorType DEF HeadRejected, RequestTypeOK, Responses
<1>16. CASE UpstreamErrors
  BY <1>16, DiesType, ExchangeType DEF UpstreamErrors
<1>17. CASE StreamIdle
  BY <1>17, ExchangeType DEF StreamIdle
<1>18. CASE ProviderEnds
  BY <1>18 DEF ProviderEnds, RequestTypeOK
<1>19. CASE ResponseFinishes
  BY <1>19, FinishType DEF ResponseFinishes, RequestTypeOK
<1>20. CASE CallerLeaves
  BY <1>20, CancelType DEF CallerLeaves
<1>21. CASE Terminated
  BY <1>21, CancelType DEF Terminated
<1>22. CASE BudgetExpires
  BY <1>22 DEF BudgetExpires, RequestTypeOK
<1>23. CASE DeadlinePasses
  BY <1>23 DEF DeadlinePasses, RequestTypeOK
<1>24. CASE AnswerIsDiscarded
  BY <1>24 DEF AnswerIsDiscarded, RequestTypeOK
<1>25. CASE UNCHANGED requestVars
  BY <1>25 DEF requestVars, RequestTypeOK
<1>26. QED
  BY <1>1, <1>2, <1>3, <1>4, <1>5, <1>6, <1>7, <1>8, <1>9, <1>10, <1>11, <1>12, <1>13,
     <1>14, <1>15, <1>16, <1>17, <1>18, <1>19, <1>20, <1>21, <1>22, <1>23, <1>24, <1>25
     DEF RequestNext, Handler, Provider

\* The state of #handleRequest, its streams and the books of its attempts keep their
\* shapes: in particular no attempt is begun beyond maxAttempts.
THEOREM RequestTypes == RequestSpec => []RequestTypeOK
BY RequestTypeInit, RequestTypeStep, PTL DEF RequestSpec

----------------------------------------------------------------------------
(* HttpRequest: accounting, commitment and leases.                           *)

\* Which attempts may hold a lease or a socket at each await.
LeasesKnown ==
    /\ \A a \in Attempts : a > attempt => ~leased[a] /\ up[a] = "none"
    /\ pc \in {"authenticating", "validating", "resolving"} => ~leased[attempt] /\ up[attempt] = "none"
    /\ pc = "connecting" => up[attempt] = "connecting"
    /\ pc = "failing" /\ up[attempt] = "none" /\ leased[attempt] => attempt \in lost

\* A request is sent by its last attempt only.
SentLast == pc \in Before \cup {"over"} => sent = {}

\* Nothing is answered before the upstream request exists.  As long as the provider may
\* still answer, no head is out; a head that was written shows in the response.
HeadPending ==
    /\ pc \in Before \ {"tracking", "failing"} => ~answering
    /\ response = "none" => heads = 0
    /\ /\ pc \in (Before \ {"failing"}) \cup {"committed"}
       /\ up[attempt] # "closed" /\ ~answering
       => response \in {"none", "destroyed"}

RequestInv ==
    /\ RequestTypeOK /\ LeasesKnown /\ SentLast /\ HeadPending
    /\ ExactlyOneRecord /\ CommitIsFinal /\ RequestLeasesSettled

\* The invariant holds of a request that has just been read.
LEMMA RequestInvInit == RequestInit => RequestInv
BY RequestTypeInit, RequestConstants DEF RequestInit, RequestInv, LeasesKnown, SentLast, HeadPending,
   ExactlyOneRecord, CommitIsFinal, RequestLeasesSettled, Attempts

\* Every action keeps the invariant.
LEMMA RequestInvStep == RequestInv /\ [RequestNext]_requestVars => RequestInv'
<1> SUFFICES ASSUME RequestInv, [RequestNext]_requestVars PROVE (LeasesKnown /\ SentLast /\ HeadPending
    /\ ExactlyOneRecord /\ CommitIsFinal /\ RequestLeasesSettled)'
  BY RequestTypeStep DEF RequestInv
<1>0. RequestTypeOK' /\ Attempts \subseteq Nat
  BY RequestTypeStep, RequestConstants DEF RequestInv, Attempts
<1> USE <1>0 DEF handler, budget, answer, exchange, books, RequestInv, LeasesKnown, SentLast,
     HeadPending, ExactlyOneRecord, CommitIsFinal, RequestLeasesSettled, RequestTypeOK, Before, Establishing
<1>1. CASE Authenticated
  BY <1>1 DEF Authenticated, Goto, Refuse, SendError
<1>2. CASE Refused
  BY <1>2 DEF Refused, Goto, Refuse, SendError
<1>3. CASE Validated
  BY <1>3 DEF Validated, Goto
<1>4. CASE ResolveOk
  BY <1>4 DEF ResolveOk, Goto
<1>5. CASE AbortObserved
  BY <1>5 DEF AbortObserved, Goto, Refuse, SendError, Fail, TaskDies
<1>6. CASE Admitted
  BY <1>6 DEF Admitted, Goto
<1>7. CASE Commit
  BY <1>7 DEF Commit, Goto
<1>8. CASE Settle
  <2>1. CASE Retry /\ ~late
    BY <1>8, <2>1 DEF Settle, Release, RemoveLease, Record, Retry
  <2>2. CASE ~(Retry /\ ~late)
    BY <1>8, <2>2 DEF Settle, Release, RemoveLease, Record, Goto, SendError
  <2>3. QED
    BY <2>1, <2>2
<1>9. CASE \E reason \in Reasons, left \in BOOLEAN : ResolveFails(reason, left)
  BY <1>9 DEF ResolveFails, Fail
<1>10. CASE \E reason \in Reasons : ConnectFails(reason)
  BY <1>10 DEF ConnectFails, Fail
<1>11. CASE \E reason \in Reasons : AdmissionFails(reason)
  BY <1>11 DEF AdmissionFails, Fail
<1>12. CASE \E reason \in Reasons : TrackFails(reason)
  BY <1>12 DEF TrackFails, Fail, TaskDies
<1>13. CASE ConnectOk
  BY <1>13 DEF ConnectOk, Goto
<1>14. CASE HeadArrives
  BY <1>14 DEF HeadArrives, Answerable
<1>15. CASE HeadRejected
  BY <1>15 DEF HeadRejected, Answerable, FinishAttempt, StopTracking, RemoveLease, Record, SendError
<1>16. CASE UpstreamErrors
  BY <1>16 DEF UpstreamErrors, TaskDies, ExchangeFails, FinishAttempt, StopTracking, RemoveLease,
     Record, SendError
<1>17. CASE StreamIdle
  BY <1>17 DEF StreamIdle, ExchangeFails, FinishAttempt, StopTracking, RemoveLease, Record, SendError
<1>18. CASE ProviderEnds
  BY <1>18 DEF ProviderEnds
<1>19. CASE ResponseFinishes
  BY <1>19 DEF ResponseFinishes, FinishAttempt, StopTracking, RemoveLease, Record
<1>20. CASE CallerLeaves
  BY <1>20 DEF CallerLeaves, Cancel, FinishAttempt, StopTracking, RemoveLease, Record
<1>21. CASE Terminated
  BY <1>21 DEF Terminated, Cancel, FinishAttempt, StopTracking, RemoveLease, Record
<1>22. CASE BudgetExpires
  BY <1>22 DEF BudgetExpires
<1>23. CASE DeadlinePasses
  BY <1>23 DEF DeadlinePasses
<1>24. CASE AnswerIsDiscarded
  BY <1>24 DEF AnswerIsDiscarded
<1>25. CASE UNCHANGED requestVars
  BY <1>25 DEF requestVars
<1>26. QED
  BY <1>1, <1>2, <1>3, <1>4, <1>5, <1>6, <1>7, <1>8, <1>9, <1>10, <1>11, <1>12, <1>13,
     <1>14, <1>15, <1>16, <1>17, <1>18, <1>19, <1>20, <1>21, <1>22, <1>23, <1>24, <1>25
     DEF RequestNext, Handler, Provider

\* The invariant holds in every behaviour.
LEMMA AlwaysRequestInv == RequestSpec => []RequestInv
BY RequestInvInit, RequestInvStep, PTL DEF RequestSpec

\* Every attempt is recorded exactly once, whichever of the catch block and the four
\* listeners that call finishAttempt comes first and however many follow.
THEOREM RequestsRecordedOnce == RequestSpec => []ExactlyOneRecord
<1>1. RequestInv => ExactlyOneRecord
  BY DEF RequestInv
<1>2. QED
  BY <1>1, AlwaysRequestInv, PTL

\* The caller gets at most one response head, and a request that was piped to a provider
\* is not sent to another one.
THEOREM RequestCommitIsFinal == RequestSpec => []CommitIsFinal
<1>1. RequestInv => CommitIsFinal
  BY DEF RequestInv
<1>2. QED
  BY <1>1, AlwaysRequestInv, PTL

\* An attempt has one outcome, for the books and for its caller.
THEOREM RequestOneOutcome == RequestSpec => []OneAnswer
BY RequestsRecordedOnce, RequestCommitIsFinal, PTL DEF OneAnswer

\* The lease of every attempt is given back by releaseCandidate or by stopTracking,
\* except in the cases LeasesSettled names.
THEOREM NoRequestLeaseForgotten == RequestSpec => []RequestLeasesSettled
<1>1. RequestInv => RequestLeasesSettled
  BY DEF RequestInv
<1>2. QED
  BY <1>1, AlwaysRequestInv, PTL
=============================================================================
