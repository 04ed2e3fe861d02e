----------------------------- MODULE ActiveLoad -----------------------------
(***************************************************************************)
(* The load leases of one provider's slots.                                *)
(*                                                                         *)
(* A proxy task claims a slot for an upstream attempt by counting the      *)
(* unexpired leases of every candidate slot and registering a lease for    *)
(* the one it selects (route-service.ts, claimActiveTunnelSlot).  An       *)
(* established tunnel keeps its lease alive by heartbeats of the task's    *)
(* poll (active-connection-tracker.ts); a failed attempt and a closed      *)
(* tunnel remove it (dynamo-runtime-state-repository.ts), and the TTL      *)
(* recovers what crashes and rejected removals leave behind.               *)
(*                                                                         *)
(* A tunnel's item and its leases are written in one transaction, so the   *)
(* lease of the slot stands for all of them.                               *)
(***************************************************************************)
EXTENDS Integers, FiniteSets

CONSTANTS
    Tunnels,         \* attempts and tunnels, over all proxy tasks
    Slots,           \* the candidate slots: integers, ordered as their ids are
    NoSlot,          \* slot of a lease that does not exist
    SoftLimit,       \* softConnectionsPerSlot
    TTL,             \* ACTIVE_CONNECTION_TTL_MS
    HeartbeatEvery,  \* a tunnel is due for a heartbeat this long after the last
    PollDelay,       \* bound: the poll sends a heartbeat and it is applied within this
                     \* time after it is due
    AttemptTimeout,  \* establishment budget of an attempt, from its claim to track()
    MaxLost,         \* bound: heartbeats lost in a row
    MaxTime          \* bound on the clock

ASSUME LoadConstants ==
    /\ IsFiniteSet(Tunnels)
    /\ Slots \subseteq Int /\ NoSlot \notin Slots
    /\ SoftLimit \in Nat
    /\ TTL \in Nat \ {0}
    /\ HeartbeatEvery \in Nat /\ PollDelay \in Nat /\ AttemptTimeout \in Nat
    /\ MaxLost \in Nat
    /\ MaxTime \in Nat

VARIABLES
    now,      \* the wall clock
    lease,    \* lease[t]: the stored lease of tunnel t
    tunnel    \* tunnel[t]: what the task does with it

vars == <<now, lease, tunnel>>

NoLease == [slot |-> NoSlot, expiresAt |-> 0]
Leases == [slot : Slots \cup {NoSlot}, expiresAt : Nat]

\* pc: where the attempt is.  loads: the counts it read.  since: when it claimed
\* the slot, or when it ended.  beatDue: nextHeartbeatAt.  beat: the expiry a
\* heartbeat in flight will store, 0 when none is.  lost: heartbeats lost in a row.
Idle == [pc |-> "idle", loads |-> [s \in Slots |-> 0], since |-> 0,
         beatDue |-> 0, beat |-> 0, lost |-> 0]

Exists(t) == lease[t].slot # NoSlot

\* #countActiveLoad: the leases of a slot that have not expired.
Counted(t, s) == lease[t].slot = s /\ lease[t].expiresAt > now
Load(s) == Cardinality({t \in Tunnels : Counted(t, s)})

Init ==
    /\ now = 0
    /\ lease = [t \in Tunnels |-> NoLease]
    /\ tunnel = [t \in Tunnels |-> Idle]

----------------------------------------------------------------------------
(* Claiming a slot.                                                          *)

\* A new attempt (with a fresh tunnel id) reads the load of every slot ...
CountLoads(t) ==
    /\ tunnel[t].pc = "idle" /\ ~Exists(t)
    /\ tunnel' = [tunnel EXCEPT ![t] = [Idle EXCEPT !.pc = "selecting",
                                                    !.loads = [s \in Slots |-> Load(s)]]]
    /\ UNCHANGED <<now, lease>>

\* ... selects the slot its session prefers, else the least loaded one that is
\* not saturated, else the least loaded one; ids break ties ...  A slot is also
\* saturated when recent traffic put it under pressure.
Unsaturated(loads, pressured) == {s \in Slots \ pressured : loads[s] < SoftLimit}
Eligible(loads, pressured) ==
    IF Unsaturated(loads, pressured) = {} THEN Slots ELSE Unsaturated(loads, pressured)
LeastLoaded(loads, pressured, s) ==
    /\ s \in Eligible(loads, pressured)
    /\ \A r \in Eligible(loads, pressured) :
          loads[s] < loads[r] \/ (loads[s] = loads[r] /\ s <= r)
Selected(loads, preferred, pressured, s) ==
    IF preferred \in Slots THEN s = preferred ELSE LeastLoaded(loads, pressured, s)

\* Mutant of Register: the first lease lasts until the first heartbeat and a TTL.
RegisterLonger(t, preferred, pressured) ==
    /\ tunnel[t].pc = "selecting"
    /\ \E s \in Slots :
          /\ Selected(tunnel[t].loads, preferred, pressured, s)
          /\ lease' = [lease EXCEPT ![t] = [slot |-> s, expiresAt |-> now + HeartbeatEvery + TTL]]
    /\ tunnel' = [tunnel EXCEPT ![t] = [Idle EXCEPT !.pc = "attempting", !.since = now]]
    /\ UNCHANGED now

\* ... and registers its lease, without looking at the loads again.
Register(t, preferred, pressured) ==
    /\ tunnel[t].pc = "selecting"
    /\ \E s \in Slots :
          /\ Selected(tunnel[t].loads, preferred, pressured, s)
          /\ lease' = [lease EXCEPT ![t] = [slot |-> s, expiresAt |-> now + TTL]]
    /\ tunnel' = [tunnel EXCEPT ![t] = [Idle EXCEPT !.pc = "attempting", !.since = now]]
    /\ UNCHANGED now

\* The counting or the registering request is rejected: nothing was claimed.
ClaimFails(t) ==
    /\ tunnel[t].pc = "selecting"
    /\ tunnel' = [tunnel EXCEPT ![t] = Idle]
    /\ UNCHANGED <<now, lease>>

----------------------------------------------------------------------------
(* The life of a tunnel.                                                     *)

\* A heartbeat replaces the expiry, if the item and the lease still exist.
StoreHeartbeat(t, expiry) ==
    lease' = IF Exists(t) THEN [lease EXCEPT ![t].expiresAt = expiry] ELSE lease

Connected(t, lost) ==
    tunnel' = [tunnel EXCEPT ![t] = [Idle EXCEPT !.pc = "live", !.beatDue = now + HeartbeatEvery,
                                                 !.lost = lost]]

\* The upstream tunnel is open: track() refreshes the claim and lists the tunnel
\* among the task's connections.
Track(t) ==
    /\ tunnel[t].pc = "attempting"
    /\ StoreHeartbeat(t, now + TTL)
    /\ Connected(t, 0)
    /\ UNCHANGED now

\* track() does not notice that its refresh was cancelled, as below.
TrackUnrefreshed(t) ==
    /\ tunnel[t].pc = "attempting"
    /\ MaxLost > 0
    /\ Connected(t, 1)
    /\ UNCHANGED <<now, lease>>

\* Mutant of BeatStarts: the next heartbeat is due when the lease expires.
BeatStartsLate(t) ==
    /\ tunnel[t].pc = "live" /\ tunnel[t].beat = 0
    /\ now >= tunnel[t].beatDue
    /\ tunnel' = [tunnel EXCEPT ![t].beat = now + TTL, ![t].beatDue = now + TTL]
    /\ UNCHANGED <<now, lease>>

\* The poll finds a heartbeat due: it computes the next expiry, reads the item ...
BeatStarts(t) ==
    /\ tunnel[t].pc = "live" /\ tunnel[t].beat = 0
    /\ now >= tunnel[t].beatDue
    /\ tunnel' = [tunnel EXCEPT ![t].beat = now + TTL, ![t].beatDue = now + HeartbeatEvery]
    /\ UNCHANGED <<now, lease>>

\* ... and writes both expiries, if the item still exists.
BeatStored(t) ==
    /\ tunnel[t].beat > 0
    /\ StoreHeartbeat(t, tunnel[t].beat)
    /\ tunnel' = [tunnel EXCEPT ![t].beat = 0, ![t].lost = 0]
    /\ UNCHANGED now

\* A cancelled transaction is ignored, whatever cancelled it.
BeatCancelled(t) ==
    /\ tunnel[t].beat > 0
    /\ tunnel[t].lost < MaxLost
    /\ tunnel' = [tunnel EXCEPT ![t].beat = 0, ![t].lost = @ + 1]
    /\ UNCHANGED <<now, lease>>

\* Any other rejection of a heartbeat makes the poll terminate the connections;
\* a tunnel also ends when a socket closes.  The attempt of a tunnel that is not
\* open yet fails.  Either way the removal is sent.
Ends(t) ==
    /\ tunnel[t].pc \in {"attempting", "live"}
    /\ tunnel' = [tunnel EXCEPT ![t] = [Idle EXCEPT !.pc = "removing", !.since = now,
                                                    !.beat = tunnel[t].beat]]
    /\ UNCHANGED <<now, lease>>

\* removeActiveTunnel deletes the lease ...
Removed(t) ==
    /\ tunnel[t].pc = "removing"
    /\ lease' = [lease EXCEPT ![t] = NoLease]
    /\ tunnel' = [tunnel EXCEPT ![t].pc = "ended"]
    /\ UNCHANGED now

\* ... or is rejected, which every caller ignores.
RemovalRejected(t) ==
    /\ tunnel[t].pc = "removing"
    /\ tunnel' = [tunnel EXCEPT ![t].pc = "abandoned"]
    /\ UNCHANGED <<now, lease>>

\* resolve() throws after the claim without releasing it (an undeclared upstream
\* protocol, a rejected circuit claim), or the task dies with a request in flight
\* that is not sent any more.
Abandons(t) ==
    /\ tunnel[t].pc \in {"selecting", "attempting", "live", "removing"}
    /\ tunnel' = [tunnel EXCEPT ![t] = [Idle EXCEPT !.pc = "abandoned", !.since = now]]
    /\ UNCHANGED <<now, lease>>

\* DynamoDB deletes an expired item, sooner or later.
Expires(t) ==
    /\ Exists(t) /\ lease[t].expiresAt <= now
    /\ lease' = [lease EXCEPT ![t] = NoLease]
    /\ UNCHANGED <<now, tunnel>>

\* The id of an ended tunnel is never used again; its name here is, once nothing
\* of it is left.
Forgotten(t) ==
    /\ tunnel[t].pc \in {"ended", "abandoned"} /\ ~Exists(t) /\ tunnel[t].beat = 0
    /\ tunnel' = [tunnel EXCEPT ![t] = Idle]
    /\ UNCHANGED <<now, lease>>

\* Time passes; the deadlines that hold for the poll and for an attempt.
Tick ==
    /\ now < MaxTime
    /\ \A t \in Tunnels :
          /\ tunnel[t].pc = "attempting" => now < tunnel[t].since + AttemptTimeout
          /\ tunnel[t].pc = "live" /\ tunnel[t].beat = 0 => now < tunnel[t].beatDue + PollDelay
          /\ tunnel[t].pc = "live" /\ tunnel[t].beat > 0
               => now < tunnel[t].beat - TTL + PollDelay
    /\ now' = now + 1
    /\ UNCHANGED <<lease, tunnel>>

Next ==
    \/ \E t \in Tunnels :
          \/ CountLoads(t) \/ ClaimFails(t)
          \/ \E preferred \in Slots \cup {NoSlot}, pressured \in SUBSET Slots :
                Register(t, preferred, pressured)
          \/ Track(t) \/ TrackUnrefreshed(t) \/ BeatStarts(t) \/ BeatStored(t) \/ BeatCancelled(t)
          \/ Ends(t) \/ Removed(t) \/ RemovalRejected(t) \/ Abandons(t)
          \/ Expires(t) \/ Forgotten(t)
    \/ Tick

Spec == Init /\ [][Next]_vars

----------------------------------------------------------------------------
(* Properties.                                                               *)

\* Type invariant: leases and tunnels keep their shapes.
TypeOK ==
    /\ now \in Nat
    /\ lease \in [Tunnels -> Leases]
    /\ tunnel \in [Tunnels ->
          [pc : {"idle", "selecting", "attempting", "live", "removing", "ended", "abandoned"},
           loads : [Slots -> Nat], since : Nat, beatDue : Nat, beat : Nat, lost : Nat]]

\* Load is never undercounted: every established tunnel, and every attempt that
\* claimed a slot, holds a lease that has not expired, however its heartbeats
\* are delayed and as long as no more than MaxLost of them in a row are lost.
EstablishedCounted ==
    \A t \in Tunnels :
        tunnel[t].pc \in {"attempting", "live"} => Exists(t) /\ lease[t].expiresAt > now

\* A removed lease stays removed: a heartbeat that was in flight when the tunnel
\* closed does not bring its load back.
RemovedStaysRemoved ==
    \A t \in Tunnels : tunnel[t].pc = "ended" => ~Exists(t)

\* A leaked lease is counted for at most one TTL after its tunnel ended, whatever
\* heartbeat was in flight then and whether or not the removal was rejected.
LeakBounded ==
    \A t \in Tunnels :
        tunnel[t].pc \in {"removing", "ended", "abandoned"} /\ Exists(t)
          => lease[t].expiresAt <= tunnel[t].since + TTL
============================================================================
