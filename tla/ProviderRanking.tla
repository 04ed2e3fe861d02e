--------------------------- MODULE ProviderRanking ---------------------------
(***************************************************************************)
(* How an operation chooses among the providers: which of them satisfy a   *)
(* route profile (provider-selection.ts), what recent attempts say of a    *)
(* candidate (routing-policy.ts), and the order in which providers are     *)
(* tried (routing-candidate-ranker.ts).                                    *)
(*                                                                         *)
(* Identifiers are strings; Order stands for localeCompare.  Scores are    *)
(* exact fractions.  The constraint an operation met and the score itself  *)
(* only go to usage records and telemetry: the order is made of load and   *)
(* saturation.                                                             *)
(***************************************************************************)
EXTENDS Integers, Sequences, FiniteSets, SequencesExt, Fractions

CONSTANTS
    Undefined,
    Descriptor,        \* Descriptor[p]: the descriptor of a configured provider
    Order,             \* position of provider and slot ids in the collation
    SoftConnections,   \* softConnectionsPerSlot
    PlannedMbps,       \* plannedMbpsPerSlot
    PrioritizedGb,     \* prioritizedGbPerSlotPerBillingPeriod
    HalfLife,          \* evidenceHalfLifeMs
    Freshness,         \* evidenceFreshnessMs
    ReferenceWait,     \* performanceReferenceMs
    ReferenceCost,     \* referenceCostUsd
    Weights,           \* ROUTING_POLICY.weights, in percent
    PerProvider,       \* candidatesPerProvider
    PerOperation       \* providersPerOperation

Providers == DOMAIN Descriptor
TargetingKeys == {"country", "region", "city", "postalCode", "asn", "carrier"}

----------------------------------------------------------------------------
(* provider-selection.ts                                                     *)

preferredProviderClass(mode) == IF mode = "managed" THEN "device_backed" ELSE "residential"

\* A profile is satisfied by a provider whose network is safe to trust with the
\* destination, that speaks the client's protocol, offers the session mode, and
\* reaches the port and every place the profile targets.  protocol, port and mode
\* are Undefined when a profile is validated without an operation.
providerCompatible(p, route, protocol, port, mode) ==
    LET can == Descriptor[p].capabilities
        safety == IF protocol = "socks5" THEN can.destinationSafety.socks5
                                         ELSE can.destinationSafety.http
        targets(key) == route.targeting[key] # Undefined
    IN  /\ safety = "provider_trusted" => can.providerNetworkScope = "external_public_only"
        /\ IF protocol # Undefined THEN protocol \in can.clientProtocols
                                   ELSE route.allowedProtocols \cap can.clientProtocols # {}
        /\ mode = "managed" => can.sessions
        /\ targets("city") => can.exactCity # "unsupported"
        /\ CASE mode = "managed" -> "manual" \in can.rotation
             [] mode = "stateless" -> "per_request" \in can.rotation
                                      \/ Descriptor[p].providerClass = "device_backed"
             [] OTHER -> {"manual", "per_request"} \cap can.rotation # {}
        /\ port # Undefined => can.targetPorts = Undefined \/ port \in can.targetPorts
        /\ targets("country") => can.countries = Undefined
                                 \/ route.targeting.country \in can.countries
        /\ \A key \in TargetingKeys : targets(key) => key \in can.geography

Allowed(p, route) == route.providerOverride \in {Undefined, p}

\* The provider the control plane validates a profile with: of the preferred
\* class, then the current one, then the cheapest.
selectCompatibleProvider(route, current, mode) ==
    LET compatible == {p \in Providers : providerCompatible(p, route, Undefined, Undefined, mode)
                                         /\ Allowed(p, route)}
        tier(p) == IF mode = Undefined
                      \/ Descriptor[p].providerClass = preferredProviderClass(mode) THEN 0 ELSE 1
        before(p, q) == \/ tier(p) < tier(q)
                        \/ /\ tier(p) = tier(q)
                           /\ \/ p = current
                              \/ q # current /\ Descriptor[p].costRank <= Descriptor[q].costRank
    IN  IF compatible = {} THEN Undefined
        ELSE CHOOSE p \in compatible : \A q \in compatible : before(p, q)

----------------------------------------------------------------------------
(* routing-policy.ts.  A record of an attempt says how old it is and where it *)
(* completed in time, what it moved, how long it was connected and waited.    *)

Half == Frac(1, 2)
Reduced(a) == LET g == Max({k \in 1 .. a.d : a.d % k = 0 /\ a.n % k = 0})
              IN  Frac(a.n \div g, a.d \div g)

\* Mutant of unit: only capped above.
unitCapped(a) == IF Below(Whole(1), a) THEN Whole(1) ELSE Reduced(a)

unit(a) ==
    CASE Below(a, Whole(0)) -> Whole(0)
      [] Below(Whole(1), a) -> Whole(1)
      [] OTHER -> Reduced(a)
Greatest(a, b) == IF Below(a, b) THEN b ELSE a
SumOf(f(_), S) == MapThenSumSet(f, S)

\* 0.5 ** (age / half-life), for ages that are whole half-lives.
Weight(r) == Frac(1, 2 ^ (r.age \div HalfLife))
Mixed(measured, fresh) == Plus(Times(Half, Minus(Whole(1), fresh)), Times(measured, fresh))

FreshnessOf(attempts) ==
    IF attempts = {} THEN Whole(0)
    ELSE unit(Minus(Whole(1), Frac(Min({r.age : r \in attempts}), Freshness)))

\* The 95th percentile of the establishment waits.
Percentile95(waits) ==
    LET sorted == SortSeq(waits, <)
        position == -((-95 * Len(waits)) \div 100)
    IN  sorted[IF position < Len(waits) THEN position ELSE Len(waits)]

\* Attempts next to each other in time that left by different endpoints, where both are
\* known.  Attempts that completed together keep the order they were read in, whichever it is.
IdentityChanges(attempts) ==
    LET chronological == SetToSortSeq(attempts, LAMBDA q, r : q.age > r.age)
        endpoint(i) == chronological[i].endpointId
    IN  Cardinality({i \in 2 .. Len(chronological) :
            Undefined \notin {endpoint(i - 1), endpoint(i)} /\ endpoint(i - 1) # endpoint(i)})

historicalRoutingEvidence(records) ==
    LET attempts == {r \in records : r.outcome # "http_error"}
        n == Cardinality(attempts)
        fresh == FreshnessOf(attempts)
        weight == SumFrac(Weight, attempts)
        good == SumFrac(Weight, {r \in attempts : r.outcome = "success"})
        waited == {r \in attempts : r.wait # Undefined}
        waits == FoldSet(LAMBDA r, s : Append(s, r.wait), <<>>, waited)
        bytes == SumOf(LAMBDA r : r.bytes, attempts)
        connected == SumOf(LAMBDA r : r.connected, attempts)
        disturbed == Cardinality({r \in attempts : r.failover}) + IdentityChanges(attempts)
    IN  [reliability |-> Mixed(IF n = 0 THEN Half ELSE Over(good, weight), fresh),
         performance |-> IF waited = {} THEN Half
                         ELSE unit(Minus(Whole(1), Frac(Percentile95(waits), ReferenceWait))),
         observedMbps |-> IF connected = 0 THEN Whole(0) ELSE Frac(bytes, connected),
         projectedGb |-> Whole(bytes),
         expectedBytes |-> IF n = 0 THEN Whole(0) ELSE Frac(bytes, n),
         expectedConnection |-> IF n = 0 THEN Whole(0) ELSE Frac(connected, n),
         stability |-> Mixed(IF n = 0 THEN Half
                             ELSE unit(Minus(Whole(1), Frac(disturbed, n))), fresh)]

\* The share of a limit in use; a limit of zero is used up.  No limit applies to a
\* provider without slots (the code divides by MAX_SAFE_INTEGER).
Share(used, limit) ==
    CASE limit = Undefined -> Whole(0)
      [] limit = 0 -> Whole(1)
      [] OTHER -> Over(used, Whole(limit))

\* headroom is 1 - utilization ** 2: it reaches zero with the first limit in use.
scoreRoutingCandidate(c) ==
    LET utilization == Greatest(Share(Whole(c.load), c.softConnections),
                                Greatest(Share(c.observedMbps, c.plannedMbps),
                                         Share(c.projectedGb, c.prioritizedGb)))
        components ==
            [reliability |-> unit(c.reliability),
             headroom |-> unit(Minus(Whole(1), Times(utilization, utilization))),
             performance |-> unit(c.performance),
             costEfficiency |-> unit(Over(ReferenceCost, Plus(ReferenceCost, c.cost))),
             stability |-> unit(c.stability)]
    IN  [components |-> components,
         score |-> SumFrac(LAMBDA k : Times(Whole(Weights[k]), components[k]), DOMAIN Weights),
         saturated |-> ~Below(utilization, Whole(1))]

\* RoutingCandidateRanker.scoreCandidate.  A candidate that recently put an
\* operation under capacity pressure counts as saturated too.
scoreCandidate(p, records, load, slotCapacity, pressureRecords) ==
    LET evidence == historicalRoutingEvidence(records)
        pricing == Descriptor[p].pricing
        limit(l) == IF slotCapacity THEN l ELSE Undefined
        score == scoreRoutingCandidate(
            [reliability |-> evidence.reliability, performance |-> evidence.performance,
             stability |-> evidence.stability, observedMbps |-> evidence.observedMbps,
             load |-> load, softConnections |-> limit(SoftConnections),
             plannedMbps |-> limit(PlannedMbps), prioritizedGb |-> limit(PrioritizedGb),
             projectedGb |-> IF slotCapacity THEN evidence.projectedGb ELSE Whole(0),
             cost |-> Times(Whole(pricing.amountUsd),
                            IF pricing.model = "per_gib" THEN evidence.expectedBytes
                                                         ELSE evidence.expectedConnection)])
    IN  [score EXCEPT !.saturated = @ \/ \E r \in pressureRecords : r.capacityPressure
                                                                   /\ r.age <= Freshness]

----------------------------------------------------------------------------
(* routing-candidate-ranker.ts                                               *)

Bit(b) == IF b THEN 1 ELSE 0
KeyLess(a, b) == \E i \in 1 .. Len(a) : a[i] < b[i] /\ \A j \in 1 .. (i - 1) : a[j] = b[j]
SortedBy(S, key(_)) ==
    CHOOSE s \in [1 .. Cardinality(S) -> S] :
        \A i, j \in DOMAIN s : i < j => s[i] # s[j] /\ ~KeyLess(key(s[j]), key(s[i]))

\* An entry: an identifier with its load and whether it is saturated.
ByLoadThenId(e) == <<e.load, Order[e.id]>>
BySaturation(e) == <<Bit(e.saturated), e.load, Order[e.id]>>

\* Among slots, or among providers: the least loaded of those not saturated, or
\* of all when every one is.
LeastLoaded(entries) ==
    LET unsaturated == {e \in entries : ~e.saturated}
    IN  SortedBy(IF unsaturated # {} THEN unsaturated ELSE entries, ByLoadThenId)[1]

\* Mutant of Promotes: the residential tier is given up at its first saturated member.
PromotesEarly(mode, preferred, fallback) ==
    /\ mode = "stateless"
    /\ \E e \in preferred : e.saturated
    /\ \E e \in fallback : ~e.saturated

\* Residential soft capacity promotes a fallback only when none of it is left.
Promotes(mode, preferred, fallback) ==
    /\ mode = "stateless" /\ preferred # {}
    /\ \A e \in preferred : e.saturated
    /\ \E e \in fallback : ~e.saturated

\* The order in which the providers are tried: the one the operation or its
\* session used before, while it has attempts left; else the preferred class,
\* overflowing as above.
rankProviders(scored, mode, previous, attempts) ==
    LET used == {e \in scored : e.id = previous}
        isPreferred(e) == e.class = preferredProviderClass(mode)
        preferred == {e \in scored : isPreferred(e)}
        fallback == scored \ preferred
        free == {e \in fallback : ~e.saturated}
        primary == IF preferred # {} THEN preferred ELSE scored
        first == LeastLoaded(primary)
    IN  IF used # {} /\ \A e \in used : attempts[e.id] < PerProvider
        THEN SortedBy(used, ByLoadThenId) \o SortedBy(scored \ used, ByLoadThenId)
        ELSE IF Promotes(mode, preferred, fallback)
        THEN SortedBy(free, ByLoadThenId) \o SortedBy(preferred, ByLoadThenId)
             \o SortedBy(fallback \ free, ByLoadThenId)
        ELSE IF scored = {} THEN <<>>
        ELSE <<first>> \o SortedBy(primary \ {first}, BySaturation)
             \o SortedBy(scored \ primary, BySaturation)

=============================================================================
