--------------------------- MODULE SessionBinding ---------------------------
(***************************************************************************)
(* Managed sessions and the endpoints they are bound to.                   *)
(*                                                                         *)
(* Every connection of a session resolves an upstream endpoint             *)
(* (route-service.ts, resolve): it reads the session, decides whether its  *)
(* binding is to be preferred or the preferred class of providers probed   *)
(* again, tries the ranked providers, claims load on a slot, and writes    *)
(* the binding back if no one has since.  A refused attempt is retried by  *)
(* the operation (tunnel-operation.ts) with what it learned, and a closed  *)
(* connection leaves its time in the session                               *)
(* (active-connection-tracker.ts).  The two adapters are                   *)
(* providers/proxidize.ts, whose inventory of slots is cached, and         *)
(* providers/bright-data.ts, a gateway whose endpoint is the session       *)
(* identity it is asked for.                                               *)
(***************************************************************************)
EXTENDS ProviderRanking

CONSTANTS
    Ops,             \* client operations, over all proxy tasks
    Mobile,          \* the provider with an inventory of slots
    Gateway,         \* the provider without one
    Slots,           \* its slots
    SlotInfo,        \* SlotInfo[s]: where a slot is and its carrier
    Profiles,        \* Profiles[i]: the i-th version of the route profile
    Recent,          \* usage records of the evidence window
    Modes,           \* session modes operations are authenticated with
    CallBudgets,     \* attempts an operation may make: 1, or maxAttempts of its policy
    InitialSessions, \* sessions as earlier connections may have left them
    Stabilization,   \* preferredClassStabilizationMs
    Quiescence,      \* sessionQuiescenceMs
    CacheTTL,        \* cacheTtlMs
    RebindRetries,   \* times a call starts over after losing a rebind
    MaxTime,         \* bound on the clock
    MaxChanges       \* bound on what happens around the operations

\* A stored session, and what it is bound to: an identity of the gateway is a hash.
IsBinding(b) ==
    \/ b = Undefined
    \/ /\ b \in [provider : {Mobile, Gateway}, endpoint : {b.endpoint}, profile : {b.profile}]
       /\ b.provider = Gateway => b.endpoint[1] = "hash"
IsSession(s) ==
    /\ s \in [status : {"open", "closed"}, version : Nat, bound : {s.bound},
              healthySince : {s.healthySince}, disconnectedAt : {s.disconnectedAt}]
    /\ IsBinding(s.bound)
    /\ s.healthySince # Undefined => s.healthySince \in Int

ASSUME SessionConstants ==
    /\ IsFiniteSet(Ops)
    /\ Mobile # Gateway /\ {Mobile, Gateway} \subseteq Providers /\ Undefined \notin Providers
    /\ PerProvider \in Nat /\ PerOperation \in Nat \ {0} /\ Stabilization \in Nat
    /\ \A s \in InitialSessions : IsSession(s)

VARIABLES
    session,     \* the stored logical session
    op,          \* op[o]: the operation, and the call of resolve() it is in
    claim,       \* claim[o]: the stored active tunnel of the operation
    cache,       \* the adapter's cached inventory, and when it expires
    world,       \* the providers, the circuits and the profile
    now

vars == <<session, op, claim, cache, world, now>>

DesiredClass == preferredProviderClass("managed")
ClassOf(binding) == Descriptor[binding.provider].providerClass

\* An endpoint id is what distinguishes it to the program: a slot, or a session
\* identity of the gateway, which is the hash of what it was derived from.
Slot(s) == <<"slot", s>>
SessionHandle == <<"session">>
rebindAffinitySeed(version, route) == <<"rebind", version + 1, route>>
sessionId(o, index, mode, handle) ==
    IF mode = "managed" THEN IF handle[1] = "hash" THEN handle ELSE <<"hash", handle, index>>
                        ELSE <<"hash", <<"operation", o>>, index>>

profileBindingFingerprint(i) ==
    <<Profiles[i].providerOverride, Profiles[i].allowedProtocols, Profiles[i].targeting>>

\* createResolutionState, and the call it is in: the session it read, the providers
\* left to try, the slot claimed and the endpoint resolved.  lost and stored are
\* history: the call saw its binding unavailable; its save took effect.
NoOp == [pc |-> "idle", mode |-> Undefined, route |-> 1, calls |-> 0,
         attempts |-> [p \in Providers |-> 0], excluded |-> {}, previous |-> Undefined,
         preferred |-> Undefined, handle |-> Undefined, failback |-> FALSE, retries |-> 0,
         read |-> Undefined, queue |-> <<>>, slot |-> Undefined, endpoint |-> Undefined,
         lost |-> FALSE, stored |-> FALSE]
NoEndpoint(rec) == [rec EXCEPT !.queue = <<>>, !.slot = Undefined, !.endpoint = Undefined]
Finished(rec, pc) == [NoOp EXCEPT !.pc = pc, !.mode = rec.mode]

\* Saturation of a slot and of the gateway at a load, from the recent records: as
\* the ranking counts pressure, by the provider it is attributed to, and as the
\* claim does, by the provider of the record.
PressureOn(p) == {r \in Recent : r.capacityPressure
                    /\ (IF r.pressureProvider # Undefined THEN r.pressureProvider ELSE r.provider) = p}
OfSlot(records, s) == {r \in records : r.slot = s}
RecordsOf(p) == {r \in Recent : r.provider = p}
Evidence ==
    LET mobile(s) == OfSlot(RecordsOf(Mobile), s)
        loads == 0 .. Cardinality(Ops)
    IN  [rank |-> [s \in Slots |-> [n \in loads |->
             scoreCandidate(Mobile, mobile(s), n, TRUE, OfSlot(PressureOn(Mobile), s)).saturated]],
         claim |-> [s \in Slots |-> [n \in loads |->
             scoreCandidate(Mobile, mobile(s), n, TRUE, mobile(s)).saturated]],
         gateway |-> [n \in loads |->
             scoreCandidate(Gateway, RecordsOf(Gateway), n, FALSE, PressureOn(Gateway)).saturated]]

NoClaim == [provider |-> Undefined, endpoint |-> Undefined]

Init ==
    /\ session \in InitialSessions
    /\ op = [o \in Ops |-> NoOp]
    /\ claim = [o \in Ops |-> NoClaim]
    /\ cache = [slots |-> [s \in Slots |-> "healthy"], expiresAt |-> 0]
    /\ world = [slots |-> [s \in Slots |-> "healthy"], api |-> TRUE, gateway |-> TRUE,
                circuits |-> {}, route |-> 1, saturation |-> Evidence, changes |-> 0]
    /\ now = 0

----------------------------------------------------------------------------
(* The store.                                                                *)

\* saveLogicalSession writes only an open session that no one wrote with a new
\* version since it was read.
Saves(expected) == session.status = "open" /\ session.version = expected
saveLogicalSession(updated, expected) ==
    session' = IF Saves(expected) THEN updated ELSE session

\* #countActiveLoad: the active tunnels of a slot, a provider, a session.
SlotLoad(s) == Cardinality({o \in Ops : claim[o] = [provider |-> Mobile, endpoint |-> Slot(s)]})
ProviderLoad(p) == Cardinality({o \in Ops : claim[o].provider = p})
SessionLoad == Cardinality({o \in Ops : claim[o].provider # Undefined /\ op[o].mode = "managed"})

Unclaimed(o) == claim' = [claim EXCEPT ![o] = NoClaim]

----------------------------------------------------------------------------
(* providers/proxidize.ts and providers/bright-data.ts                       *)

\* listEndpoints: the cache, or the provider's answer, which renews it.  A slot
\* the provider no longer lists is "gone"; one in another place has "moved".
Listing(refresh) == IF ~refresh /\ now < cache.expiresAt THEN cache.slots ELSE world.slots
ListFails(refresh) == (refresh \/ now >= cache.expiresAt) /\ ~world.api
Listed(refresh) ==
    cache' = IF (refresh \/ now >= cache.expiresAt) /\ world.api
             THEN [slots |-> world.slots, expiresAt |-> now + CacheTTL] ELSE cache
HealthyIn(listing) == {s \in Slots : listing[s] \in {"healthy", "moved"}}

matches(s, status, route) ==
    \A key \in {"country", "region", "city", "carrier"} :
        LET target == route.targeting[key]
        IN  target # Undefined => target = SlotInfo[s][key] /\ ~(key = "city" /\ status = "moved")

\* health(): the adapters catch every failure of the provider.
MobileHealth ==
    LET present == {s \in Slots : world.slots[s] # "gone"}
    IN  IF ~world.api \/ HealthyIn(world.slots) = {} THEN "unhealthy"
        ELSE IF HealthyIn(world.slots) = present THEN "healthy"
        ELSE "degraded"
health(p) == IF p = Mobile THEN MobileHealth
             ELSE IF world.gateway THEN "healthy" ELSE "unhealthy"

----------------------------------------------------------------------------
(* Candidates.                                                               *)

\* Healthy, not refused to this operation, matching its profile, circuit closed.
Candidates(o, listing) ==
    {s \in HealthyIn(listing) : /\ Slot(s) \notin op[o].excluded
                                /\ matches(s, listing[s], Profiles[op[o].route])
                                /\ s \notin world.circuits}
SlotEntries(slots, saturation) ==
    {[id |-> s, load |-> SlotLoad(s), saturated |-> saturation[s][SlotLoad(s)]] : s \in slots}

Compatible(o, p) ==
    LET route == Profiles[op[o].route]
    IN  providerCompatible(p, route, route.protocol, route.port, op[o].mode) /\ Allowed(p, route)

Entry(p, load, saturated) ==
    [id |-> p, class |-> Descriptor[p].providerClass, load |-> load, saturated |-> saturated]
Scored(o) ==
    LET slots == SlotEntries(Candidates(o, Listing(FALSE)), world.saturation.rank)
        best == LeastLoaded(slots)
    IN  {Entry(Mobile, best.load, best.saturated) : p \in {p \in {Mobile} : Compatible(o, p) /\ slots # {}}}
        \cup {Entry(Gateway, ProviderLoad(p), world.saturation.gateway[ProviderLoad(p)]) :
                p \in {p \in {Gateway} : Compatible(o, p) /\ Gateway \notin world.circuits}}

\* What a call may observe of the binding it read: it is not to be had, or the
\* operation has made its attempts with that provider.
BoundTo(o, p) ==
    op[o].mode = "managed" /\ op[o].read.bound # Undefined /\ op[o].read.bound.provider = p
BoundLost(o, listing) ==
    \/ op[o].pc = "rank" /\ \E p \in Providers : BoundTo(o, p) /\ op[o].attempts[p] >= PerProvider
    \/ BoundTo(o, Gateway) /\ (~world.gateway \/ Gateway \in world.circuits)
    \/ /\ BoundTo(o, Mobile)
       /\ ~world.api \/ op[o].read.bound.endpoint \notin {Slot(s) : s \in Candidates(o, listing)}
Observed(o, listing) == op[o].lost \/ BoundLost(o, listing)

----------------------------------------------------------------------------
(* The operation around the calls (tunnel-operation.ts).                     *)

Begin(o) ==
    /\ op[o].pc = "idle"
    /\ \E mode \in Modes, budget \in CallBudgets :
          op' = [op EXCEPT ![o] = [NoOp EXCEPT !.pc = "start", !.mode = mode,
                                               !.route = world.route, !.calls = budget]]
    /\ UNCHANGED <<session, claim, cache, world, now>>

\* A call that throws, or an attempt that fails: the claim is given up and the
\* operation tries again while it may.
Fails(o, rec) ==
    /\ Unclaimed(o)
    /\ op' = [op EXCEPT ![o] = IF rec.calls > 1
                               THEN [NoEndpoint(rec) EXCEPT !.pc = "start", !.calls = @ - 1]
                               ELSE Finished(rec, "failed")]

\* An AuthenticationError is not retried.
Refused(o) == Unclaimed(o) /\ op' = [op EXCEPT ![o] = Finished(@, "failed")]

\* No provider is left; one the profile names is not tried again.
Exhausted(o, rec) ==
    IF Profiles[rec.route].providerOverride # Undefined THEN Refused(o) ELSE Fails(o, rec)

----------------------------------------------------------------------------
(* resolve(): the session.                                                   *)

BindingCompatible(o, s) ==
    /\ s.bound # Undefined
    /\ Compatible(o, s.bound.provider)
    /\ s.bound.profile = profileBindingFingerprint(op[o].route)
    /\ s.bound.endpoint \notin op[o].excluded

\* What the call prefers, once it knows the session and whether to keep its binding.
Preferring(rec, s, compatible, prefer) ==
    LET bound == s.bound
        kept == [rec EXCEPT !.pc = "rank", !.read = s, !.lost = FALSE,
                            !.handle = IF bound = Undefined THEN SessionHandle ELSE bound.endpoint]
    IN  IF prefer /\ bound # Undefined
        THEN [kept EXCEPT !.previous = bound.provider,
                          !.preferred = IF bound.provider = Mobile THEN bound.endpoint ELSE Undefined]
        ELSE IF bound # Undefined /\ ~compatible
        THEN [kept EXCEPT !.previous = bound.provider, !.preferred = Undefined,
                          !.handle = rebindAffinitySeed(s.version, rec.route)]
        ELSE kept

ReadSession(o) ==
    /\ op[o].pc = "start"
    /\ LET compatible == BindingCompatible(o, session)
           degraded == /\ compatible /\ ClassOf(session.bound) # DesiredClass
                       /\ Profiles[op[o].route].providerOverride = Undefined
       IN  CASE op[o].mode = "stateless" ->
                    op' = [op EXCEPT ![o].pc = "rank"] /\ UNCHANGED claim
             [] op[o].mode = "managed" /\ session.status # "open" -> Refused(o)
             [] op[o].mode = "managed" /\ session.status = "open" /\ degraded ->
                    op' = [op EXCEPT ![o] = [@ EXCEPT !.pc = "window", !.read = session]]
                    /\ UNCHANGED claim
             [] OTHER ->
                    /\ op' = [op EXCEPT ![o] = Preferring(@, session, compatible, compatible)]
                    /\ UNCHANGED claim
    /\ UNCHANGED <<session, cache, world, now>>

\* The preferred class is observed healthy or not; the window of its health is
\* opened, closed, or found long enough for a probe of the preferred class.
Mature(s) == now - s.healthySince >= Stabilization
Quiescent(s) == s.disconnectedAt = Undefined \/ now - s.disconnectedAt >= Quiescence

\* Mutant of MayFailBack: a session that is in use is moved as well.
MayFailBackInUse(s) == Mature(s) /\ Quiescent(s)

MayFailBack(s) == Mature(s) /\ SessionLoad = 0 /\ Quiescent(s)

ObserveClass(o) ==
    /\ op[o].pc = "window"
    /\ LET s == op[o].read
           healthy == Compatible(o, Mobile) /\ health(Mobile) = "healthy"
           since == IF healthy THEN now ELSE Undefined
           moves == (s.healthySince # Undefined) # healthy
           updated == [s EXCEPT !.healthySince = since, !.version = @ + 1]
           failback == healthy /\ s.healthySince # Undefined /\ MayFailBack(s)
           read == IF moves /\ Saves(s.version) THEN updated ELSE s
           decided == Preferring(op[o], read, TRUE, ~failback)
       IN  /\ IF moves THEN saveLogicalSession(updated, s.version) ELSE UNCHANGED session
           /\ op' = [op EXCEPT ![o] = [decided EXCEPT !.failback = @ \/ failback]]
    /\ IF Compatible(o, Mobile) THEN Listed(TRUE) ELSE UNCHANGED cache
    /\ UNCHANGED <<claim, world, now>>

----------------------------------------------------------------------------
(* resolve(): the providers.                                                 *)

Rank(o) ==
    /\ op[o].pc = "rank"
    /\ LET ranked == rankProviders(Scored(o), op[o].mode, op[o].previous, op[o].attempts)
           queue == [i \in 1 .. Min({Len(ranked), PerOperation}) |-> ranked[i].id]
           seen == [op[o] EXCEPT !.lost = Observed(o, Listing(FALSE))]
       IN  IF Compatible(o, Mobile) /\ ListFails(FALSE) THEN Fails(o, seen)
           ELSE IF ranked = <<>> THEN Exhausted(o, seen)
           ELSE /\ op' = [op EXCEPT ![o] = [seen EXCEPT !.pc = "try", !.queue = queue]]
                /\ UNCHANGED claim
    /\ IF Compatible(o, Mobile) THEN Listed(FALSE) ELSE UNCHANGED cache
    /\ UNCHANGED <<session, world, now>>

\* A provider that has had its attempts, or is unhealthy, is passed over.
Skips(o, p) == op[o].attempts[p] >= PerProvider \/ health(p) = "unhealthy"
Pass(o) ==
    /\ op[o].pc = "try" /\ Skips(o, Head(op[o].queue))
    /\ LET p == Head(op[o].queue)
           tried == [op[o] EXCEPT !.queue = Tail(@), !.attempts[p] = PerProvider,
                                  !.lost = @ \/ BoundTo(o, p)]
       IN  /\ IF tried.queue = <<>> THEN Exhausted(o, tried)
              ELSE op' = [op EXCEPT ![o] = tried] /\ UNCHANGED claim
           /\ IF p = Mobile /\ op[o].attempts[p] < PerProvider THEN Listed(TRUE) ELSE UNCHANGED cache
    /\ UNCHANGED <<session, world, now>>

\* The attempt's time runs out while a provider's health is awaited.
Abort(o) ==
    /\ op[o].pc = "try" /\ op[o].attempts[Head(op[o].queue)] < PerProvider
    /\ Fails(o, op[o])
    /\ UNCHANGED <<session, cache, world, now>>

\* Mutant of SelectSlot: a session's own slot is passed over when it is saturated.
SelectSlotUnsaturated(o, slots) ==
    LET mine == {s \in slots : Slot(s) = op[o].preferred /\ ~world.saturation.claim[s][SlotLoad(s)]}
    IN  IF mine # {} THEN CHOOSE s \in mine : TRUE
        ELSE LeastLoaded(SlotEntries(slots, world.saturation.claim)).id

\* The slot the session prefers, saturated or not; else the least loaded.
SelectSlot(o, slots) ==
    LET mine == {s \in slots : Slot(s) = op[o].preferred}
    IN  IF mine # {} THEN CHOOSE s \in mine : TRUE
        ELSE LeastLoaded(SlotEntries(slots, world.saturation.claim)).id

\* #selectProviderCandidate: health() has just renewed the cache, the load is
\* counted and claimed in one transaction.
ClaimSlot(o) ==
    /\ op[o].pc = "try" /\ Head(op[o].queue) = Mobile /\ ~Skips(o, Mobile)
    /\ Listed(TRUE)
    /\ LET slots == Candidates(o, world.slots)
           tried == [op[o] EXCEPT !.attempts[Mobile] = @ + 1, !.lost = Observed(o, world.slots)]
           s == SelectSlot(o, slots)
       IN  IF slots = {} THEN Fails(o, tried)
           ELSE /\ claim' = [claim EXCEPT ![o] = [provider |-> Mobile, endpoint |-> Slot(s)]]
                /\ op' = [op EXCEPT ![o] = [tried EXCEPT !.pc = "resolve", !.slot = s]]
    /\ UNCHANGED <<session, world, now>>

\* The adapter's resolve: the slot that was claimed or, when the provider no longer
\* lists it, another; then the check of a city the service must verify itself.
ResolveSlot(o) ==
    /\ op[o].pc = "resolve" /\ Head(op[o].queue) = Mobile
    /\ Listed(FALSE)
    /\ LET listing == Listing(FALSE)
           route == Profiles[op[o].route]
           others == {s \in HealthyIn(listing) : /\ Slot(s) \notin op[o].excluded
                                                 /\ matches(s, listing[s], route)}
           assigned == listing[op[o].slot] # "gone"
           s == IF assigned THEN op[o].slot ELSE CHOOSE s \in others : TRUE
           verified == ~(/\ route.targeting["city"] # Undefined /\ listing[s] = "moved"
                         /\ Descriptor[Mobile].capabilities.exactCity = "verifiable")
           seen == [op[o] EXCEPT !.lost = Observed(o, listing)]
       IN  IF \/ ListFails(FALSE)
              \/ ~assigned /\ others = {}
              \/ assigned /\ s \notin HealthyIn(listing)
           THEN Fails(o, seen)
           ELSE IF ~verified
           THEN Fails(o, [seen EXCEPT !.excluded = @ \cup {Slot(s)}, !.previous = Mobile])
           ELSE /\ op' = [op EXCEPT ![o] = [seen EXCEPT !.pc = "circuit", !.endpoint = Slot(s)]]
                /\ UNCHANGED claim
    /\ UNCHANGED <<session, world, now>>

\* The gateway's endpoint is the session identity derived from the handle.
ResolveGateway(o) ==
    /\ op[o].pc = "try" /\ Head(op[o].queue) = Gateway /\ ~Skips(o, Gateway)
    /\ op' = [op EXCEPT ![o] =
          [op[o] EXCEPT !.pc = "circuit", !.attempts[Gateway] = @ + 1,
                        !.endpoint = sessionId(o, op[o].attempts[Gateway], op[o].mode, op[o].handle)]]
    /\ UNCHANGED <<session, claim, cache, world, now>>

\* claimCapacityCircuit; the gateway's load is registered once it is admitted.
ClaimCircuit(o) ==
    /\ op[o].pc = "circuit"
    /\ LET p == Head(op[o].queue)
           key == IF p = Mobile THEN op[o].slot ELSE Gateway
       IN  IF key \in world.circuits
           THEN Fails(o, [op[o] EXCEPT !.excluded = @ \cup {op[o].endpoint},
                                       !.lost = Observed(o, Listing(FALSE))])
           ELSE /\ op' = [op EXCEPT ![o] =
                      [op[o] EXCEPT !.pc = IF op[o].mode = "managed" THEN "bind" ELSE "open",
                                    !.previous = IF op[o].mode = "managed" THEN @ ELSE p]]
                /\ claim' = IF p = Mobile THEN claim
                            ELSE [claim EXCEPT ![o] = [provider |-> p, endpoint |-> op[o].endpoint]]
    /\ UNCHANGED <<session, cache, world, now>>

----------------------------------------------------------------------------
(* resolve(): the binding.                                                   *)

Resolved(o) == [provider |-> Head(op[o].queue), endpoint |-> op[o].endpoint,
                profile |-> profileBindingFingerprint(op[o].route)]
SameBinding(o) == op[o].read.bound = Resolved(o)

Answers(o) == op' = [op EXCEPT ![o] = [@ EXCEPT !.pc = "open", !.previous = Head(op[o].queue),
                                                !.stored = Saves(op[o].read.version)]]

\* The binding it read is used again; a save that comes too late is let go.
Reuse(o) ==
    /\ op[o].pc = "bind" /\ SameBinding(o)
    /\ LET s == op[o].read
           restart == op[o].failback /\ ClassOf(s.bound) # DesiredClass
       IN  saveLogicalSession([s EXCEPT !.version = @ + 1,
                                        !.healthySince = IF restart THEN Undefined ELSE @], s.version)
    /\ Answers(o)
    /\ UNCHANGED <<claim, cache, world, now>>

\* Mutant of LosesRebind: a binding that lost the race is answered all the same.
LosesRebindNever(o) == FALSE

\* Another connection wrote the session first.
LosesRebind(o) == ~Saves(op[o].read.version)

\* Another binding replaces the one it read, or the call starts over with the
\* binding that won, at most RebindRetries times.
Rebind(o) ==
    /\ op[o].pc = "bind" /\ ~SameBinding(o)
    /\ LET s == op[o].read
           class == Descriptor[Head(op[o].queue)].providerClass
           again == [op[o] EXCEPT !.retries = @ + 1, !.previous = Undefined, !.preferred = Undefined]
       IN  IF ~LosesRebind(o)
           THEN /\ saveLogicalSession(
                      [s EXCEPT !.version = @ + 1, !.bound = Resolved(o),
                                !.healthySince = IF class = DesiredClass THEN Undefined ELSE @],
                      s.version)
                /\ Answers(o) /\ UNCHANGED claim
           ELSE /\ UNCHANGED session
                /\ IF op[o].retries >= RebindRetries THEN Fails(o, op[o])
                   ELSE /\ op' = [op EXCEPT ![o] = [NoEndpoint(again) EXCEPT !.pc = "start"]]
                        /\ Unclaimed(o)
    /\ UNCHANGED <<cache, world, now>>

----------------------------------------------------------------------------
(* The connection.                                                           *)

\* The upstream refuses or fails before the commitment: its endpoint is excluded.
OpenFails(o) ==
    /\ op[o].pc = "open"
    /\ Fails(o, [op[o] EXCEPT !.excluded = @ \cup {op[o].endpoint}])
    /\ UNCHANGED <<session, cache, world, now>>

\* The upstream answers; the session is checked once more before it is tracked.
Opens(o) ==
    /\ op[o].pc = "open"
    /\ IF op[o].mode = "managed" /\ session.status # "open" THEN Refused(o)
       ELSE op' = [op EXCEPT ![o].pc = "connected"] /\ UNCHANGED claim
    /\ UNCHANGED <<session, cache, world, now>>

\* stopTracking: the active tunnel is removed and, for a session, the time of the
\* disconnect is written with the version that was read: it does not make one.
Disconnect(o) ==
    /\ op[o].pc = "connected"
    /\ Unclaimed(o)
    /\ op' = [op EXCEPT ![o] = IF @.mode = "managed"
                               THEN [Finished(@, "closing") EXCEPT !.read = session]
                               ELSE Finished(@, "done")]
    /\ UNCHANGED <<session, cache, world, now>>

RecordDisconnect(o) ==
    /\ op[o].pc = "closing"
    /\ saveLogicalSession([op[o].read EXCEPT !.disconnectedAt = now], op[o].read.version)
    /\ op' = [op EXCEPT ![o] = Finished(@, "done")]
    /\ UNCHANGED <<claim, cache, world, now>>

----------------------------------------------------------------------------
(* Around them.                                                              *)

Tick ==
    /\ now < MaxTime /\ now' = now + 1
    /\ UNCHANGED <<session, op, claim, cache, world>>

Changes == world.changes < MaxChanges

\* A slot, the control API, the gateway or a circuit changes.
Change ==
    /\ Changes
    /\ \/ \E s \in Slots, status \in {"healthy", "unhealthy", "gone", "moved"} :
             /\ world.slots[s] # status
             /\ world' = [world EXCEPT !.slots[s] = status, !.changes = @ + 1]
       \/ world' = [world EXCEPT !.api = ~@, !.changes = @ + 1]
       \/ world' = [world EXCEPT !.gateway = ~@, !.changes = @ + 1]
       \/ \E k \in Slots \cup {Gateway} :
             world' = [world EXCEPT !.circuits = IF k \in @ THEN @ \ {k} ELSE @ \cup {k},
                                    !.changes = @ + 1]
    /\ UNCHANGED <<session, op, claim, cache, now>>

\* RouteAdministration.update: operations authenticated later have the new profile.
UpdateProfile ==
    /\ Changes /\ world.route < Len(Profiles)
    /\ selectCompatibleProvider(Profiles[world.route + 1], Undefined, Undefined) # Undefined
    /\ world' = [world EXCEPT !.route = @ + 1, !.changes = @ + 1]
    /\ UNCHANGED <<session, op, claim, cache, now>>

\* closeLogicalSession; its read and its put are two requests in KillSwitch.
CloseSession ==
    /\ Changes /\ session.status = "open"
    /\ session' = [session EXCEPT !.status = "closed"]
    /\ world' = [world EXCEPT !.changes = @ + 1]
    /\ UNCHANGED <<op, claim, cache, now>>

Next ==
    \/ \E o \in Ops : \/ Begin(o) \/ ReadSession(o) \/ ObserveClass(o) \/ Rank(o) \/ Pass(o) \/ Abort(o)
                      \/ ClaimSlot(o) \/ ResolveSlot(o) \/ ResolveGateway(o) \/ ClaimCircuit(o)
                      \/ Reuse(o) \/ Rebind(o) \/ OpenFails(o) \/ Opens(o)
                      \/ Disconnect(o) \/ RecordDisconnect(o)
    \/ Tick \/ Change \/ UpdateProfile \/ CloseSession

Spec == Init /\ [][Next]_vars
----------------------------------------------------------------------------
(* What sessions promise.                                                    *)

Rebinds(o) == op[o].pc = "bind" /\ op'[o] # op[o] /\ session'.bound # session.bound

\* Concurrent connections converge: an endpoint is answered to a client of the
\* session only as the session's stored binding, or as the binding the call read,
\* when another connection has replaced it since; never one that lost the race to
\* be stored (saveLogicalSession's result in resolve).
AnswersAreBound ==
    [][\A o \in Ops : op[o].pc = "bind" /\ op'[o].pc = "open" =>
          \/ session'.bound = Resolved(o)
          \/ SameBinding(o) /\ session.version # op[o].read.version]_vars

\* Sessions are sticky: a binding that is still eligible for the profile is only
\* replaced by a call that saw it unavailable, or that probes the preferred class;
\* not for load, saturation, a lost race or another operation's trouble.
StickyBinding ==
    [][\A o \in Ops : Rebinds(o) =>
          \/ ~BindingCompatible(o, session)
          \/ op[o].lost \/ op[o].failback]_vars

\* A degraded session goes back to its preferred class only once that class has
\* been seen healthy for the stabilization period, and never under a connection
\* whose use of the binding was stored: it either shows in the load the decision
\* read, or its save makes the failback's come too late (resolve's order of claim
\* and save).
FailbackIsQuiet ==
    [][\A o \in Ops : Rebinds(o) /\ BindingCompatible(o, session) /\ ~op[o].lost =>
          /\ session.healthySince # Undefined /\ Mature(session)
          /\ ~\E q \in Ops : op[q].pc = "connected" /\ op[q].stored]_vars

----------------------------------------------------------------------------
(* What the ranking promises.  It depends on nothing the operations do, and   *)
(* is evaluated before the first of them begins.                             *)

Unstarted == \A o \in Ops : op[o] = NoOp

CONSTANTS
    RankedIds,       \* bound: the identifiers the ranking is checked over
    RankedLoads,     \* bound: their loads
    ScoredRecords    \* bound: the attempts the scoring is checked over

ASSUME RankingConstants ==
    /\ IsFiniteSet(RankedIds) /\ Undefined \notin RankedIds /\ RankedLoads \subseteq Nat
    /\ \A i \in RankedIds : Order[i] \in Nat

Classes == {"device_backed", "residential"}
Rankings ==
    UNION {[ids -> [class : Classes, load : RankedLoads, saturated : BOOLEAN]] : ids \in SUBSET RankedIds}
Entries(f) == {[id |-> i, class |-> f[i].class, load |-> f[i].load, saturated |-> f[i].saturated]
                : i \in DOMAIN f}

\* Which tier an operation belongs in, in the words of the users' guide: managed
\* sessions stay with device-backed providers through soft saturation; stateless
\* traffic stays with residential ones unless all are at their soft limit and a
\* device-backed one is not.
ApplicableTier(entries, mode) ==
    LET preferred == {e \in entries : e.class = preferredProviderClass(mode)}
        others == {e \in entries \ preferred : ~e.saturated}
    IN  IF preferred = {} THEN entries
        ELSE IF mode = "stateless" /\ others # {} /\ \A e \in preferred : e.saturated THEN others
        ELSE preferred

\* Whatever the loads, the first provider tried is the least loaded of the
\* applicable tier, a saturated one only when the tier has no other, ids breaking
\* ties; and every provider that was scored stays an option, once.  The sorts of
\* rankProviders, which are written out per case, add up to this policy.
PlacementFollowsPolicy ==
    Unstarted => \A f \in Rankings, mode \in {"managed", "stateless"} :
        LET entries == Entries(f)
            order == rankProviders(entries, mode, Undefined, [i \in RankedIds |-> 0])
            tier == ApplicableTier(entries, mode)
            open == {e \in tier : ~e.saturated}
            pool == IF open # {} THEN open ELSE tier
        IN  /\ Len(order) = Cardinality(entries) /\ ToSet(order) = entries
            /\ entries # {} => /\ order[1] \in pool
                               /\ \A e \in pool : ~KeyLess(ByLoadThenId(e), ByLoadThenId(order[1]))

\* A score is a weighted share of 100 that one more connection never raises, and
\* a candidate stays saturated as its load grows: the evidence, however stale or
\* one-sided, cannot make a fuller slot look better (scoreCandidate).
LoadNeverImproves ==
    Unstarted => \A records \in SUBSET ScoredRecords, p \in Providers, load \in RankedLoads, slot \in BOOLEAN :
        LET less == scoreCandidate(p, records, load, slot, records)
            more == scoreCandidate(p, records, load + 1, slot, records)
        IN  /\ \A c \in {less.components, more.components} : \A k \in DOMAIN c :
                  ~Below(c[k], Whole(0)) /\ ~Below(Whole(1), c[k])
            /\ ~Below(less.score, more.score)
            /\ less.saturated => more.saturated
=============================================================================
