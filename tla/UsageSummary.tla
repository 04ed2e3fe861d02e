---------------------------- MODULE UsageSummary ----------------------------
(***************************************************************************)
(* The usage ledger's records and what usage-accounting-core.ts computes   *)
(* from them: the rollups of a range of time, whole or by customer, with   *)
(* their capacity metrics and costs.                                       *)
(*                                                                         *)
(* Instants are integers and every interval is a fixed number of them (the *)
(* calendar's months are left out).  A slot's price is per instant and a   *)
(* gateway's is per byte: the program's constant divisors (a GiB, a slot   *)
(* month) are the units.  The gauges of the instant a rollup is computed   *)
(* (currentSlotOccupancy, activeConnections), the forecast and the pricing *)
(* versions are left out: nothing here depends on them.  Windows keep the  *)
(* id of the record they are of, so that two equal windows count twice.    *)
(***************************************************************************)
EXTENDS Fractions, Sequences, FiniteSets, SequencesExt, TLC

CONSTANTS
    Unallocated,     \* the synthetic customer
    Providers,
    Unresolved,      \* provider of an attempt that failed before it had one
    Undefined,       \* value of an optional field that is absent
    IntervalLength,  \* instants in an "hour" and in a "day"
    SoftConnections, \* softConnectionsPerSlot
    PlannedBytes     \* bytes a slot is planned to carry in an instant

Intervals == DOMAIN IntervalLength

\* A set in some order, and in the order of less.
InSequence(S) == FoldSet(LAMBDA x, rest : <<x>> \o rest, <<>>, S)
Sorted(S, less(_, _)) == SortSeq(InSequence(S), less)

UsageOutcomes == {"success", "http_error", "retry", "failure"}

\* What the accounting reads of a record of the ledger; connection is the window
\* of its upstream connection, pressure the provider that was short of capacity.
UsageRecord(r) ==
    /\ r.kind \in {"attempt", "capacity"} /\ r.outcome \in UsageOutcomes
    /\ r.provider \in Providers \cup {Unresolved} /\ r.failover \in BOOLEAN
    /\ r.bytes \in Nat /\ r.establishmentWaitMs \in Nat /\ r.priceUsd \in Nat
    /\ r.latencyMs # Undefined => r.latencyMs \in Nat
    /\ r.connection # Undefined => r.connection.start <= r.connection.end
    /\ r.pressure \in Providers \cup {Undefined}
    /\ r.capacityConstraint \in {"slot_exhaustion", "geography", "carrier", "hard_limit",
                                 "capacity_circuit", Undefined}
    /\ r.pricingModel \in {"per_gib", "per_device_month", Undefined}
    /\ r.capacityState \in {"healthy_idle", "unhealthy", Undefined}
    /\ r.startedAt <= r.completedAt

\* An attempt as the gateways account for it: latency, failover and the window of
\* its connection follow from the route, the resolution and the endpoint.
attemptUsageRecord(route, state, input) ==
    LET up == input.upstream
    IN [kind |-> "attempt", id |-> input.attemptId,
        logicalOperationId |-> input.operationId,
        customerId |-> route.customerId, jobId |-> route.jobId,
        country |-> route.country,
        provider |-> input.provider, outcome |-> input.outcome,
        failover |-> /\ input.provider # Unresolved
                     /\ state.primaryProvider \notin {Undefined, input.provider},
        bytes |-> input.bytes,
        latencyMs |-> Max({0, input.completedAt - input.attemptStartedAt}),
        proxySlotId |-> up.proxySlotId,
        connection |-> IF up.upstreamConnectionStartedAt = Undefined THEN Undefined
                       ELSE [start |-> up.upstreamConnectionStartedAt,
                             end |-> input.completedAt],
        pressure |-> up.capacityPressureProvider,
        capacityConstraint |-> state.capacityConstraint,
        establishmentWaitMs |-> state.establishmentWaitMs,
        startedAt |-> input.attemptStartedAt, completedAt |-> input.completedAt]

\* RouteService.recordUsage adds the price of the provider that served it.
Priced(record, pricing) ==
    record @@ [pricingModel |-> IF record.provider \in Providers
                                THEN pricing[record.provider].model ELSE Undefined,
               priceUsd |-> IF record.provider \in Providers
                            THEN pricing[record.provider].amountUsd ELSE 0,
               capacityState |-> Undefined]

\* What the decoders accept of what the source publishes.
decodeProviderCostTotal(t) ==
    t.provider \in Providers /\ t.amountUsd \in Nat /\ t.periodStartedAt < t.periodEndsAt
decodeProvisionedProxySlotCapacity(c) ==
    /\ c.provider \in Providers /\ c.priceUsd \in Nat
    /\ c.health \in {"healthy", "unhealthy", Undefined}
    /\ c.periodStartedAt < c.periodEndsAt

\* A period for which a slot is paid, as a record of the ledger.
provisionedProxySlotCapacityRecord(c) ==
    [kind |-> "capacity", id |-> c.id, logicalOperationId |-> c.id,
     customerId |-> Unallocated, jobId |-> Undefined, country |-> c.country,
     provider |-> c.provider, outcome |-> "success", failover |-> FALSE, bytes |-> 0,
     latencyMs |-> Undefined, proxySlotId |-> c.proxySlotId, connection |-> Undefined,
     pressure |-> Undefined, capacityConstraint |-> Undefined, establishmentWaitMs |-> 0,
     startedAt |-> c.periodStartedAt, completedAt |-> c.periodEndsAt,
     pricingModel |-> "per_device_month", priceUsd |-> c.priceUsd,
     capacityState |-> IF c.health = "unhealthy" THEN "unhealthy" ELSE "healthy_idle"]

----------------------------------------------------------------------------
(* Periods, groups and filters.                                              *)

periodStart(t, interval) == (t \div IntervalLength[interval]) * IntervalLength[interval]
nextPeriod(start, interval) == start + IntervalLength[interval]

\* The value a record is grouped by; "all" stands for no grouping.
groupValue(r, groupBy) ==
    CASE groupBy = "all" -> "all"
      [] groupBy = "job" -> IF r.jobId = Undefined THEN Unallocated ELSE r.jobId
      [] groupBy = "country" -> IF r.country = Undefined THEN "Unknown" ELSE r.country
      [] groupBy = "customer" -> r.customerId
      [] groupBy = "provider" -> r.provider
      [] OTHER -> r.outcome

\* The query's filter is a function on the fields it restricts.
matches(r, filter) == \A field \in DOMAIN filter : r[field] = filter[field]

----------------------------------------------------------------------------
(* Windows of time.                                                          *)

WindowOf(r) ==
    IF r.kind = "capacity" THEN [start |-> r.startedAt, end |-> r.completedAt] ELSE r.connection

\* Overlap with a period, with the record's id; the empty set when there is none.
clippedWindow(r, start, end) ==
    LET w == WindowOf(r)
    IN IF w = Undefined THEN {}
       ELSE LET clipped == [id |-> r.id, start |-> Max({start, w.start}), end |-> Min({end, w.end})]
            IN IF clipped.end > clipped.start THEN {clipped} ELSE {}

Windows(records, start, end) == UNION {clippedWindow(r, start, end) : r \in records}

\* Mutant of Merged: a window inside the previous one cuts it short.
MergedShort(acc, w) == [acc EXCEPT !.end = w.end]

\* A window that starts before the current stretch ends, or as it ends, extends it.
Merged(acc, w) == [acc EXCEPT !.end = Max({@, w.end})]

\* One pass over the windows in the order they start.
unionDuration(windows) ==
    LET next(acc, w) ==
            IF w.start > acc.end
            THEN [sum |-> acc.sum + acc.end - acc.start, start |-> w.start, end |-> w.end]
            ELSE Merged(acc, w)
        last == FoldLeft(next, [sum |-> 0, start |-> 0, end |-> 0],
                         Sorted(windows, LAMBDA a, b : a.start < b.start))
    IN last.sum + last.end - last.start

\* Starts and ends in time order; at one instant the ends come first.
Events(windows) ==
    LET starts == {[at |-> w.start, delta |-> 1, id |-> w.id] : w \in windows}
        ends == {[at |-> w.end, delta |-> -1, id |-> w.id] : w \in windows}
    IN Sorted(starts \cup ends,
                    LAMBDA a, b : a.at < b.at \/ (a.at = b.at /\ a.delta < b.delta))

peakConcurrency(windows) ==
    LET step(acc, e) == [current |-> acc.current + e.delta,
                         peak |-> Max({acc.peak, acc.current + e.delta})]
    IN FoldLeft(step, [current |-> 0, peak |-> 0], Events(windows)).peak

\* The least concurrency the period stays at or below for percent of its length.
concurrencyPercentile(windows, start, end, percent) ==
    LET zero == [v \in 0 .. Cardinality(windows) |-> 0]
        step(acc, e) ==
            [spent |-> [acc.spent EXCEPT ![acc.current] = @ + e.at - acc.at],
             current |-> acc.current + e.delta, at |-> e.at]
        last == FoldLeft(step, [spent |-> zero, current |-> 0, at |-> start], Events(windows))
        spent == [last.spent EXCEPT ![last.current] = @ + end - last.at]
    IN Min({v \in DOMAIN spent :
              /\ spent[v] > 0
              /\ 100 * SumFunctionOnSet(spent, 0 .. v) >= percent * (end - start)})

----------------------------------------------------------------------------
(* What a period's records say of the slots.                                 *)

SlotRecords(records, slot) == {r \in records : r.proxySlotId = slot}
SlotsOf(records) == {r.proxySlotId : r \in records} \ {Undefined}
AttemptRecords(records) == {r \in records : r.kind = "attempt"}
Capacity(records) == {r \in records : r.kind = "capacity"}
Bytes(records) == MapThenSumSet(LAMBDA r : r.bytes, records)

\* One slot: its connections, and the time it was provisioned.
SlotMetrics(records, slot, start, end) ==
    LET own == SlotRecords(records, slot)
        connections == Windows(AttemptRecords(own), start, end)
        unhealthy == Windows({r \in Capacity(own) : r.capacityState = "unhealthy"}, start, end)
        healthy == Windows({r \in Capacity(own) : r.capacityState # "unhealthy"}, start, end)
        occupied == {w \in {[id |-> <<c.id, h.id>>, start |-> Max({c.start, h.start}),
                             end |-> Min({c.end, h.end})] : c \in connections, h \in healthy} :
                        w.end > w.start}
    IN [active |-> MapThenSumSet(LAMBDA w : w.end - w.start, connections),
        occupied |-> unionDuration(connections),
        provisioned |-> unionDuration(healthy \cup unhealthy),
        unhealthy |-> unionDuration(unhealthy),
        healthyIdle |-> Max({0, unionDuration(healthy) - unionDuration(occupied)}),
        connections |-> connections]

\* The constraint a rollup names: geography before carrier before exhaustion.
MainConstraint(records) ==
    LET seen == {r.capacityConstraint : r \in records}
    IN CASE "geography" \in seen -> "geography"
         [] "geography" \notin seen /\ "carrier" \in seen -> "carrier"
         [] "geography" \notin seen /\ "carrier" \notin seen
            /\ "slot_exhaustion" \in seen -> "slot_exhaustion"
         [] OTHER -> Undefined

\* A period's metrics, from those of each slot.
CapacityOf(records, slot, start, end) ==
    LET total(field) == MapThenSumSet(LAMBDA s : slot[s][field], DOMAIN slot)
        provisioned == total("provisioned")
        all == UNION {slot[s].connections : s \in DOMAIN slot}
        pressed == {r \in AttemptRecords(records) : r.pressure # Undefined}
    IN [activeConnectionMs |-> total("active"),
        provisionedSlotMs |-> provisioned,
        healthyIdleSlotMs |-> total("healthyIdle"),
        unhealthySlotMs |-> total("unhealthy"),
        slotOccupancy |-> IF provisioned = 0 THEN Whole(0) ELSE Frac(total("occupied"), provisioned),
        provisionedSlots |-> (provisioned + (end - start) - 1) \div (end - start),
        peakConcurrentConnections |-> peakConcurrency(all),
        p95ConcurrentConnections |-> concurrencyPercentile(all, start, end, 95),
        concurrencyUtilization |->
            IF provisioned = 0 THEN Whole(0) ELSE Frac(total("active"), provisioned * SoftConnections),
        throughputUtilization |->
            IF provisioned = 0 THEN Whole(0)
            ELSE Frac(Bytes(AttemptRecords(records)), provisioned * PlannedBytes),
        capacityDrivenFallbackCount |-> Cardinality({r \in pressed : r.failover}),
        capacityFailureCount |-> Cardinality({r \in pressed : r.outcome = "failure"}),
        capacityWaitMs |-> MapThenSumSet(LAMBDA r : r.establishmentWaitMs, records),
        capacityConstraint |-> MainConstraint(records)]

capacityMetrics(records, start, end) ==
    CapacityOf(records, [s \in SlotsOf(records) |-> SlotMetrics(records, s, start, end)],
               start, end)

latencyMetrics(records) ==
    LET timed == {r \in records : r.latencyMs # Undefined}
        n == Cardinality(timed)
        ordered == Sorted(timed, LAMBDA a, b : a.latencyMs < b.latencyMs)
    IN IF n = 0 THEN [averageLatencyMs |-> Whole(0), p95LatencyMs |-> 0]
       ELSE [averageLatencyMs |-> Frac(MapThenSumSet(LAMBDA r : r.latencyMs, timed), n),
             p95LatencyMs |-> ordered[Max({1, (95 * n + 99) \div 100})].latencyMs]

----------------------------------------------------------------------------
(* What a period's records cost, over all customers (Undefined) or to one.   *)

\* What the slot was paid for in the period.
SlotCost(records, slot, start, end) ==
    MapThenSumSet(LAMBDA r : MapThenSumSet(LAMBDA w : (w.end - w.start) * r.priceUsd,
                                           clippedWindow(r, start, end)),
                  {r \in Capacity(SlotRecords(records, slot)) : r.pricingModel = "per_device_month"})

\* The time a customer (or everybody) was connected through the slot.
ConnectedTime(records, slot, start, end, customer) ==
    MapThenSumSet(LAMBDA w : w.end - w.start,
                  Windows({r \in AttemptRecords(SlotRecords(records, slot)) :
                             customer \in {Undefined, r.customerId}}, start, end))

\* Mutant of IdleShare: nobody pays for a slot nobody used.
IdleUnpaid(customer, cost) == 0

IdleShare(customer, cost) == IF customer = Unallocated THEN cost ELSE 0

\* A slot nobody used is the synthetic customer's; else its cost is shared by
\* the time each customer was connected.
SlotShare(records, slot, start, end, customer) ==
    LET cost == SlotCost(records, slot, start, end)
        everybody == ConnectedTime(records, slot, start, end, Undefined)
    IN IF customer = Undefined THEN Whole(cost)
       ELSE IF everybody = 0 THEN Whole(IdleShare(customer, cost))
       ELSE Frac(cost * ConnectedTime(records, slot, start, end, customer), everybody)

TrafficCost(records, start, end, customer) ==
    MapThenSumSet(LAMBDA r : r.bytes * r.priceUsd,
                  {r \in records : /\ r.pricingModel = "per_gib"
                                   /\ start <= r.completedAt /\ r.completedAt < end
                                   /\ customer \in {Undefined, r.customerId}})

estimatedCost(records, start, end, customer) ==
    Plus(Whole(TrafficCost(records, start, end, customer)),
         SumFrac(LAMBDA s : SlotShare(records, s, start, end, customer), SlotsOf(records)))

----------------------------------------------------------------------------
(* The rollups of a query: [from, to, interval, groupBy, filter].            *)

CompletedIn(r, start, end) == r.kind = "attempt" /\ start <= r.completedAt /\ r.completedAt < end

\* The periods a record counts in: the one an attempt completed in, and those
\* its window reaches.
PeriodsOf(r, q) ==
    LET w == WindowOf(r)
        reaches == w # Undefined /\ w.start < q.to /\ w.end > q.from
        length == IntervalLength[q.interval]
        first == periodStart(Max({q.from, w.start}), q.interval)
        reached == {first + k * length : k \in 0 .. (Min({q.to, w.end}) - first - 1) \div length}
    IN (IF CompletedIn(r, q.from, q.to) THEN {periodStart(r.completedAt, q.interval)} ELSE {})
       \cup (IF reaches THEN reached ELSE {})

\* The groups a period has.  Under customers a paid slot counts for every group
\* and makes the synthetic customer one.
Groups(entries, groupBy) ==
    IF groupBy = "customer"
    THEN {r.customerId : r \in AttemptRecords(entries)}
         \cup (IF Capacity(entries) = {} THEN {} ELSE {Unallocated})
    ELSE {groupValue(r, groupBy) : r \in entries}

GroupEntries(entries, groupBy, value) ==
    {r \in entries : \/ groupValue(r, groupBy) = value
                     \/ groupBy = "customer" /\ r.kind = "capacity"}

\* What the providers reported for the period, to the whole or to one customer;
\* a provider without an estimate is charged to the synthetic customer.
ReportedSpend(entries, start, end, groupBy, value, totals) ==
    SumFrac(LAMBDA t :
              LET own == {r \in entries : r.provider = t.provider}
                  whole == estimatedCost(own, start, end, Undefined)
              IN IF groupBy # "customer" THEN Whole(t.amountUsd)
                 ELSE IF whole.n = 0 THEN Whole(IF value = Unallocated THEN t.amountUsd ELSE 0)
                 ELSE Over(Times(Whole(t.amountUsd), estimatedCost(own, start, end, value)), whole),
            totals)

\* The estimate of a group: under customers, its share of what all entries cost.
GroupEstimate(entries, start, end, q, value) ==
    IF q.groupBy = "customer" THEN estimatedCost(entries, start, end, value)
    ELSE estimatedCost(GroupEntries(entries, q.groupBy, value), start, end,
                       IF "customerId" \in DOMAIN q.filter THEN q.filter.customerId ELSE Undefined)

\* A group's rollup, but for its capacity metrics, from its own entries and its estimate.
GroupRollup(entries, mine, estimate, start, end, q, value, totals) ==
    LET completed == {r \in mine : CompletedIn(r, start, end)}
        providers == {r.provider : r \in mine} \ {Unresolved}
        reported == {t \in totals : /\ t.provider \in providers
                                    /\ t.periodStartedAt = start /\ t.periodEndsAt = end}
        reconciled == /\ q.groupBy \in {"all", "customer"}
                      /\ providers # {} /\ Cardinality(reported) = Cardinality(providers)
        spend == IF reconciled
                 THEN ReportedSpend(entries, start, end, q.groupBy, value, reported) ELSE Whole(0)
        operations(outcomes) ==
            Cardinality({r.logicalOperationId : r \in {c \in completed : c.outcome \in outcomes}})
    IN [id |-> <<start, q.interval, q.groupBy, value>>,
        interval |-> q.interval, periodStartedAt |-> start, periodEndsAt |-> end,
        group |-> value,
        operationCount |-> operations(UsageOutcomes),
        successCount |-> operations({"success", "http_error"}),
        retryCount |-> Cardinality({r \in completed : r.outcome = "retry"}),
        failoverCount |-> Cardinality({r \in completed : r.failover}),
        bytes |-> Bytes(completed),
        providerSpendUsd |-> spend,
        attributedCostUsd |-> IF reconciled /\ q.groupBy # "customer" THEN spend ELSE estimate,
        estimatedCostUsd |-> estimate,
        costStatus |-> IF reconciled THEN "reconciled" ELSE "estimated"]
       @@ latencyMetrics(completed)

Rollup(entries, start, q, value, totals) ==
    LET end == nextPeriod(start, q.interval)
        mine == GroupEntries(entries, q.groupBy, value)
    IN GroupRollup(entries, mine, GroupEstimate(entries, start, end, q, value),
                   start, end, q, value, totals)
       @@ capacityMetrics(mine, start, end)

\* The rollups of a range, as a set: the order is the reader's.
summarizeUsage(records, q, totals) ==
    LET matching == {r \in records : matches(r, q.filter)}
        entriesOf(p) == {r \in matching : p \in PeriodsOf(r, q)}
    IN UNION {{Rollup(entriesOf(p), p, q, v, totals) : v \in Groups(entriesOf(p), q.groupBy)} :
                 p \in UNION {PeriodsOf(r, q) : r \in matching}}
=============================================================================
