-------------------------- MODULE UsageAccounting --------------------------
(***************************************************************************)
(* The usage-accounting service over the durable ledger.                   *)
(*                                                                         *)
(* Gateways append attempts.  A task of the service runs on a timer, one   *)
(* run at a time: it takes what the accounting source published, records   *)
(* the paid slot periods, lists the records of its window, reconciles each *)
(* provider total with their estimate, and puts the rollups and the        *)
(* evidence of capacity pressure (services/usage-accounting-service.ts,    *)
(* usage-accounting-worker.ts).  Each write is a step: a rejected call     *)
(* ends the run, a stop loses the task's memory, and while a deployment    *)
(* replaces the task two of them work on one table.                        *)
(***************************************************************************)
EXTENDS UsageSummary

CONSTANTS
    Tasks,          \* tasks of the service that may overlap
    Retiring,       \* those that are replaced: they end with their run, or in it
    Traffic,        \* the usage records gateways may append
    Publications,   \* the lists of provider totals the source publishes, in turn
    SlotPeriods,    \* the slot periods it publishes
    Window,         \* a run takes the records completed in this long (32 days)
    HistoryWindow,  \* and the reconciliations of this long before them
    Floor,          \* absoluteFloorUsd
    WarningPercent, \* warningRelative
    ErrorPercent,   \* errorRelative
    RecordDelay,    \* bound: an attempt is recorded within this time of its end
    StartTime,      \* the clock's first instant
    LastInstant     \* bound on the clock

ASSUME UsageConstants ==
    /\ \A r \in Traffic : UsageRecord(r) /\ r.kind = "attempt"
    /\ \A t \in UNION Range(Publications) : decodeProviderCostTotal(t)
    /\ \A c \in SlotPeriods : decodeProvisionedProxySlotCapacity(c)
    /\ {"hour", "day"} \subseteq Intervals

VARIABLES
    now,
    ledger,           \* the usage records
    publications,     \* lists the source has published so far
    reconciliations,  \* id |-> reconciliation
    alerts,           \* id |-> severity of the usage alert event
    rollups,          \* id |-> the records and totals the stored rollup was computed from
    evidence,         \* id |-> rollup the capacity-pressure evidence was taken from
    task,             \* task[k]: its run
    unreported        \* reconciliations whose task stopped before their alert

store == <<ledger, reconciliations, alerts, rollups, evidence>>
usageVars == <<now, store, publications, task, unreported>>

published == IF publications = 0 THEN {} ELSE Publications[publications]

SamePeriod(a, b) == a.periodStartedAt = b.periodStartedAt /\ a.periodEndsAt = b.periodEndsAt

\* The attempts whose records are in the ledger, or lost, before the start.
Recorded == {r \in Traffic : r.completedAt + RecordDelay < StartTime}

NoValues == [x \in {} |-> x]
\* A conditional put keeps what is there, a plain put replaces it.
PutIfAbsent(f, id, v) == [x \in DOMAIN f \cup {id} |-> IF x \in DOMAIN f THEN f[x] ELSE v]
Put(f, id, v) == [x \in DOMAIN f \cup {id} |-> IF x = id THEN v ELSE f[x]]

Idle == [pc |-> "idle", alone |-> TRUE, totals |-> {}, from |-> 0, to |-> 0, snapshot |-> {},
         reconciled |-> {}, writes |-> <<>>]

Running(k) == task[k].pc \notin {"idle", "retired", "stopped"}

\* After a run.
Ended(k) == IF k \in Retiring THEN [Idle EXCEPT !.pc = "retired"] ELSE Idle

UsageInit ==
    /\ now = StartTime /\ ledger \in SUBSET Recorded /\ publications = 0
    /\ reconciliations = NoValues /\ alerts = NoValues
    /\ rollups = NoValues /\ evidence = NoValues
    /\ task = [k \in Tasks |-> Idle]
    /\ unreported = {}

----------------------------------------------------------------------------
(* The gateways and the source.                                              *)

\* A run takes seconds and an instant is half an hour: no run spans two instants.
NextInstant ==
    /\ now < LastInstant
    /\ \A k \in Tasks : ~Running(k)
    /\ now' = now + 1
    /\ UNCHANGED <<store, publications, task, unreported>>

\* An attempt's record arrives after it completed; its id is fresh.
RecordAttempt(r) ==
    /\ r \notin ledger
    /\ r.completedAt < now /\ now <= r.completedAt + RecordDelay
    /\ ledger' = ledger \cup {r}
    /\ UNCHANGED <<now, publications, reconciliations, alerts, rollups, evidence, task, unreported>>

\* The source publishes its next list of totals, with new or corrected ones.
Publish ==
    /\ publications < Len(Publications)
    /\ \A t \in Publications[publications + 1] : t.periodEndsAt <= now
    /\ publications' = publications + 1
    /\ UNCHANGED <<now, store, task, unreported>>

----------------------------------------------------------------------------
(* A run, up to what it reads.                                               *)

\* The timer, when no run is under way: the response of the source is decoded.
Fetch(k) ==
    /\ task[k].pc = "idle"
    /\ task' = [j \in Tasks |->
                  IF j = k THEN [Idle EXCEPT !.pc = "capacity", !.totals = published,
                                             !.writes = InSequence(SlotPeriods),
                                             !.alone = \A other \in Tasks : ~Running(other)]
                  ELSE [task[j] EXCEPT !.alone = @ /\ ~Running(j)]]
    /\ UNCHANGED <<now, store, publications, unreported>>

RecordCapacity(k) ==
    /\ task[k].pc = "capacity" /\ task[k].writes # <<>>
    /\ LET r == provisionedProxySlotCapacityRecord(Head(task[k].writes))
       IN ledger' = IF \E old \in ledger : old.id = r.id THEN ledger ELSE ledger \cup {r}
    /\ task' = [task EXCEPT ![k].writes = Tail(@)]
    /\ UNCHANGED <<now, publications, reconciliations, alerts, rollups, evidence, unreported>>

Listed(from, to) == {r \in ledger : from <= r.completedAt /\ r.completedAt < to}

\* The run's window is taken, then its records are listed.
ListRecords(k) ==
    /\ task[k].pc = "capacity" /\ task[k].writes = <<>>
    /\ task' = [task EXCEPT ![k].pc = "history", ![k].from = now - Window, ![k].to = now,
                            ![k].snapshot = Listed(now - Window, now)]
    /\ UNCHANGED <<now, store, publications, unreported>>

\* What a total is compared with: the estimate of the first period, hour or day,
\* that begins in the total's.
Estimate(snapshot, t) ==
    LET interval == IF t.periodEndsAt - t.periodStartedAt <= IntervalLength["hour"]
                    THEN "hour" ELSE "day"
        earliest(found) == CHOOSE u \in found : \A v \in found : u.periodStartedAt <= v.periodStartedAt
        estimateOf(found) == IF found = {} THEN Whole(0) ELSE earliest(found).estimatedCostUsd
    IN estimateOf(summarizeUsage(snapshot,
           [from |-> t.periodStartedAt, to |-> t.periodEndsAt, interval |-> interval,
            groupBy |-> "all", filter |-> [provider |-> t.provider]], {}))

Reconciliation(estimate, historical, t) ==
    LET variance == Minus(Whole(t.amountUsd), estimate)
        relative == IF estimate.n = 0 THEN Whole(IF variance.n = 0 THEN 0 ELSE 1)
                    ELSE Over(Magnitude(variance), estimate)
        exceeds(percent) == /\ ~Below(Magnitude(variance), Whole(Floor))
                            /\ Below(Frac(percent, 100), relative)
        repeated == \E h \in historical : /\ h.provider = t.provider /\ h.severity # "normal"
                                          /\ h.sourceVersion # t.sourceVersion
    IN [id |-> <<t.provider, t.periodStartedAt, t.periodEndsAt, t.sourceVersion>>,
        provider |-> t.provider, sourceVersion |-> t.sourceVersion,
        periodStartedAt |-> t.periodStartedAt, periodEndsAt |-> t.periodEndsAt,
        adjustmentUsd |-> variance,
        severity |-> CASE exceeds(ErrorPercent) -> "error"
                       [] ~exceeds(ErrorPercent) /\ exceeds(WarningPercent) ->
                            IF repeated THEN "error" ELSE "warning"
                       [] OTHER -> "normal"]

Query(from, to, interval, groupBy) ==
    [from |-> from, to |-> to, interval |-> interval, groupBy |-> groupBy, filter |-> NoValues]

\* A rollup of the synthetic customer for a period that has no other.
NoUsage(u) == [Rollup({}, u.periodStartedAt, Query(0, 0, u.interval, "customer"), Unallocated, {})
                 EXCEPT !.costStatus = "reconciled"]

\* In a period with adjustments the customers keep their estimates, and the
\* adjustments are the synthetic customer's.
Attributed(customers, reconciled) ==
    LET adjustments(u) == {h \in reconciled : SamePeriod(h, u)}
        variance(u) == SumFrac(LAMBDA h : h.adjustmentUsd, adjustments(u))
        lacking == {u \in customers : /\ adjustments(u) # {}
                                      /\ ~ \E v \in customers : /\ v.group = Unallocated
                                                                /\ SamePeriod(u, v)}
    IN {IF adjustments(u) = {} THEN u
        ELSE [u EXCEPT !.costStatus = "reconciled",
                       !.attributedCostUsd =
                           IF u.group = Unallocated THEN Plus(u.estimatedCostUsd, variance(u))
                           ELSE u.estimatedCostUsd] :
           u \in customers \cup {NoUsage(u) : u \in lacking}}

\* The rollups a run puts for the records and totals it has, query by query.
RunRollups(snapshot, totals, reconciled, from, to) ==
    LET queries == <<Query(from, to, "hour", "all"), Query(from, to, "day", "all"),
                     Query(from, to, "hour", "customer"), Query(from, to, "day", "customer")>>
        final(q, summary) ==
            IF q.groupBy = "customer" THEN Attributed(summary, reconciled) ELSE summary
    IN [i \in DOMAIN queries |->
          final(queries[i], summarizeUsage(snapshot, queries[i], totals))]

\* The providers under pressure, each with the rollups of its own records that
\* show a failure, a fallback or an overload.
PressureProvider(r) == IF r.kind = "capacity" THEN r.provider ELSE r.pressure
Pressure(snapshot, from, to) ==
    LET of(p) == {r \in snapshot : PressureProvider(r) = p}
        shows(u) == \/ u.capacityFailureCount > 0 \/ u.capacityDrivenFallbackCount > 0
                    \/ Below(Whole(1), u.concurrencyUtilization)
                    \/ Below(Whole(1), u.throughputUtilization)
    IN UNION {{[provider |-> p, rollup |-> u] :
                 u \in {v \in summarizeUsage(of(p), Query(from, to, i, "all"), {}) : shows(v)}} :
                 p \in {PressureProvider(r) : r \in snapshot} \ {Undefined}, i \in {"hour", "day"}}

Writes(kind, values) == [i \in DOMAIN values |-> [kind |-> kind, value |-> values[i]]]

\* All that the run of t writes, in order.
Plan(t, reconciled) ==
    [t EXCEPT !.pc = "planned", !.reconciled = reconciled,
              !.writes = Writes("reconciliation", InSequence(reconciled))
                         \o Writes("rollups", RunRollups(t.snapshot, t.totals, reconciled, t.from, t.to))
                         \o Writes("pressure", InSequence(Pressure(t.snapshot, t.from, t.to)))]

\* The reconciliations are the last thing read: all that the run writes follows
\* from here.
ListHistory(k) ==
    /\ task[k].pc = "history"
    /\ LET t == task[k]
           historical == {h \in Range(reconciliations) :
                            t.from - HistoryWindow <= h.periodStartedAt /\ h.periodStartedAt < t.to}
       IN task' = [task EXCEPT ![k] =
                     Plan(t, {Reconciliation(Estimate(t.snapshot, total), historical, total) :
                                total \in t.totals})]
    /\ UNCHANGED <<now, store, publications, unreported>>

----------------------------------------------------------------------------
(* Its writes.                                                               *)

Writing(k, kind) == task[k].pc \in {"planned", "writing"} /\ Head(task[k].writes).kind = kind

\* After a write comes the next one, or the end of the run.
Written(k) ==
    IF Len(task[k].writes) = 1 THEN Ended(k)
    ELSE [task[k] EXCEPT !.pc = "writing", !.writes = Tail(@)]

\* Mutant of Alerts: a warning is only logged.
AlertsErrors(h) == h.id \notin DOMAIN reconciliations /\ h.severity = "error"

Alerts(h) == h.id \notin DOMAIN reconciliations /\ h.severity # "normal"

\* An adjustment is written once; only the task that wrote it alerts.
SaveReconciliation(k) ==
    /\ Writing(k, "reconciliation")
    /\ LET h == Head(task[k].writes).value
       IN /\ reconciliations' = PutIfAbsent(reconciliations, h.id, h)
          /\ task' = [task EXCEPT ![k] = IF Alerts(h) THEN [@ EXCEPT !.pc = "alerting"] ELSE Written(k)]
    /\ UNCHANGED <<now, ledger, publications, alerts, rollups, evidence, unreported>>

SaveVarianceAlert(k) ==
    /\ task[k].pc = "alerting"
    /\ LET h == Head(task[k].writes).value
       IN alerts' = PutIfAbsent(alerts, <<"reconciliation", h.id>>, h.severity)
    /\ task' = [task EXCEPT ![k] = Written(k)]
    /\ UNCHANGED <<now, ledger, publications, reconciliations, rollups, evidence, unreported>>

\* Mutant of PutRollups: the put is conditional, as the ledger's others are.
PutRollupsOnce(ids, basis) == rollups @@ [id \in ids |-> basis]

PutRollups(ids, basis) == [id \in ids |-> basis] @@ rollups

\* Rollups are put one by one; the model puts those of one query together, and
\* keeps what they were computed from in place of the numbers.
SaveRollups(k) ==
    /\ Writing(k, "rollups")
    /\ rollups' = PutRollups({u.id : u \in Head(task[k].writes).value},
                             [snapshot |-> task[k].snapshot, totals |-> task[k].totals])
    /\ task' = [task EXCEPT ![k] = Written(k)]
    /\ UNCHANGED <<now, ledger, publications, reconciliations, alerts, evidence, unreported>>

PressureId(e) == <<e.provider, e.rollup.id>>

SaveEvidence(k) ==
    /\ Writing(k, "pressure")
    /\ LET e == Head(task[k].writes).value
       IN evidence' = Put(evidence, PressureId(e), e.rollup)
    /\ task' = [task EXCEPT ![k].pc = "recommending"]
    /\ UNCHANGED <<now, ledger, publications, reconciliations, alerts, rollups, unreported>>

SaveRecommendation(k) ==
    /\ task[k].pc = "recommending"
    /\ LET e == Head(task[k].writes).value
       IN alerts' = PutIfAbsent(alerts, <<"capacity", PressureId(e)>>,
                                IF e.rollup.capacityFailureCount > 0 THEN "error" ELSE "warning")
    /\ task' = [task EXCEPT ![k] = Written(k)]
    /\ UNCHANGED <<now, ledger, publications, reconciliations, rollups, evidence, unreported>>

----------------------------------------------------------------------------
(* Faults.                                                                   *)

\* The alert a task that ends here owes and will not write.
Owed(k) == IF task[k].pc = "alerting" THEN {Head(task[k].writes).value.id} ELSE {}

\* A call to the store or the source is rejected and ends the run, or the process
\* stops: what comes next is another task's run.
Interrupt(k) ==
    /\ k \in Retiring /\ Running(k)
    /\ task' = [task EXCEPT ![k] = [Idle EXCEPT !.pc = "stopped"]]
    /\ unreported' = unreported \cup Owed(k)
    /\ UNCHANGED <<now, store, publications>>

RunStep(k) ==
    \/ Fetch(k) \/ RecordCapacity(k) \/ ListRecords(k) \/ ListHistory(k)
    \/ SaveReconciliation(k) \/ SaveVarianceAlert(k) \/ SaveRollups(k)
    \/ SaveEvidence(k) \/ SaveRecommendation(k)

UsageNext ==
    \/ NextInstant
    \/ \E r \in Traffic : RecordAttempt(r)
    \/ Publish
    \/ \E k \in Tasks : RunStep(k) \/ Interrupt(k)

UsageSpec == UsageInit /\ [][UsageNext]_usageVars

----------------------------------------------------------------------------
(* Properties.                                                               *)

Planned(k) ==
    IF task[k].pc # "planned" THEN {}
    ELSE UNION {w.value : w \in {x \in Range(task[k].writes) : x.kind = "rollups"}}
CustomersOf(plan, u) == {v \in plan : v.id[3] = "customer" /\ v.interval = u.interval /\ SamePeriod(u, v)}

\* No cost is lost or charged twice (estimatedCost, summarizeUsage and the worker's
\* attribution): in every period the customers' estimates add up to the whole
\* estimate, and once every provider of the period reported, what is attributed
\* to them adds up to what the providers reported, if each of them has records
\* (without, its adjustment is the customers' and not in the whole).
CostsConserved ==
    \A k \in Tasks : \A u \in {v \in Planned(k) : v.id[3] = "all"} :
        LET customers == CustomersOf(Planned(k), u)
            unseen == {h \in task[k].reconciled :
                         SamePeriod(h, u) /\ \A r \in task[k].snapshot : r.provider # h.provider}
        IN /\ Same(SumFrac(LAMBDA v : v.estimatedCostUsd, customers), u.estimatedCostUsd)
           /\ u.costStatus = "reconciled" /\ unseen = {} =>
                Same(SumFrac(LAMBDA v : v.attributedCostUsd, customers), u.attributedCostUsd)

\* The swept metrics are what counting instant by instant gives (unionDuration,
\* peakConcurrency, concurrencyPercentile over clipped windows).
InWindow(r, t) == WindowOf(r) # Undefined /\ WindowOf(r).start <= t /\ t < WindowOf(r).end
MetricsAgree ==
    \A k \in Tasks : \A u \in {v \in Planned(k) : v.id[3] = "all"} :
        LET instants == u.periodStartedAt .. u.periodEndsAt - 1
            slotted == {r \in task[k].snapshot : r.proxySlotId # Undefined}
            at(S, t) == Cardinality({r \in S : InWindow(r, t)})
            slotInstants(P(_, _)) ==
                Cardinality({x \in SlotsOf(slotted) \X instants : P(SlotRecords(slotted, x[1]), x[2])})
            connected(S, t) == at(AttemptRecords(S), t) > 0
            provisioned(S, t) == at(Capacity(S), t) > 0
            idle(S, t) == /\ ~connected(S, t)
                          /\ at({r \in Capacity(S) : r.capacityState = "healthy_idle"}, t) > 0
            busy(n) == {t \in instants : at(AttemptRecords(slotted), t) <= n}
        IN /\ u.peakConcurrentConnections = Max({at(AttemptRecords(slotted), t) : t \in instants})
           /\ u.provisionedSlotMs = slotInstants(provisioned)
           /\ u.healthyIdleSlotMs = slotInstants(idle)
           /\ LET p95 == u.p95ConcurrentConnections
              IN /\ 100 * Cardinality(busy(p95)) >= 95 * Cardinality(instants)
                 /\ p95 > 0 => 100 * Cardinality(busy(p95 - 1)) < 95 * Cardinality(instants)

\* An abnormal variance is not lost between its adjustment and its event
\* (usage-accounting-worker.ts:68-83): the event is stored, or its task is about
\* to store it, or that task failed in between.
NoSilentVariance ==
    \A id \in DOMAIN reconciliations :
        reconciliations[id].severity # "normal" =>
            \/ <<"reconciliation", id>> \in DOMAIN alerts
            \/ id \in unreported
            \/ \E k \in Tasks : id \in Owed(k)

\* Whatever overlapping and interrupted runs left behind (saveUsageRollup is a
\* plain put, so a slow run may put older rollups back), a run that completes
\* alone, on a ledger that did not change since it was listed, repairs it: every
\* attempt of the window is in the rollups of a period that began in it, and
\* those rollups are computed from the whole ledger and the published totals.
Settled ==
    LET from == now - Window
        current == [snapshot |-> Listed(from, now), totals |-> published]
    IN /\ \A id \in DOMAIN rollups : id[1] >= from => rollups[id] = current
       /\ \A r \in AttemptRecords(current.snapshot), i \in {"hour", "day"} :
             LET start == periodStart(r.completedAt, i)
             IN start >= from => {<<start, i, "all", "all">>, <<start, i, "customer", r.customerId>>}
                                 \subseteq DOMAIN rollups
Completes(k) == Running(k) /\ task'[k].pc \in {"idle", "retired"}
RunSettles ==
    [][\A k \in Tasks :
         /\ Completes(k) /\ task[k].alone
         /\ task[k].snapshot = Listed(task[k].from, now) /\ task[k].totals = published
         => Settled']_usageVars

\* Rollups are durable: a stored rollup keeps counting the attempts it counted
\* (saveUsageRollup of a run whose window no longer reaches the period's start).
AttemptsCounted(id) ==
    {r \in AttemptRecords(rollups[id].snapshot) : periodStart(r.completedAt, id[2]) = id[1]}
RollupsKeepAttempts ==
    [][\A id \in DOMAIN rollups : AttemptsCounted(id) \subseteq AttemptsCounted(id)']_rollups
=============================================================================
