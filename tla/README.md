# A TLA+ model of Profound

Profound is a multi-tenant forward-proxy router. Clients connect by HTTP CONNECT, plain HTTP or
SOCKS5, authenticate with a grant's credential, and are routed through one of several upstream
proxy providers. The proxy tasks share their state through DynamoDB, and a control plane manages
profiles, grants, credentials and managed sessions. This directory holds TLA+ modules for the parts
of `src/src` whose correctness depends on interleavings, timers and failures, TLC configurations for
small instances, and TLAPS proofs.

`PROJECT.json` lists the components, the runs, the source lines each definition models, the
hazards and the theorems.

## 1. Inventory

| Component | State | Operations | Hard because |
| --- | --- | --- | --- |
| Capacity circuit (`capacity-circuit.ts`, `dynamo-runtime-state-repository.ts`) | one item per candidate: status, failures, cooldown, probe lease; a lock item beside it | claim before an attempt, record a failure, reset after a success, evict when expired | read-modify-write of several tasks under a *leased* lock; reads, resets and evictions outside it |
| Active load leases (`dynamo-runtime-state-repository.ts`, `active-connection-tracker.ts`) | one lease per attempt or tunnel, with a TTL | count, select, register, heartbeat, remove, expire | heartbeats racing removals, lost heartbeats, removals that are rejected |
| Kill switch (`active-connection-tracker.ts`, `dynamo-store.ts`, `route-administration.ts`, `access-grant-service.ts`) | marks of profile, grant and session; a global epoch; each task's map of connections and the epoch it knows | close, force-close, revoke, delete, emergency-revoke; admit, track, poll, terminate | a mark and the epoch are separate writes, a poll is a sequence of requests, connections come and go meanwhile |
| Tunnel establishment (`tunnel-operation.ts`, `upstream-tunnel.ts`, `establishment-budget.ts`, `socks5-proxy.ts`, CONNECT in `forward-proxy.ts`) | per operation: attempt, budget, both sockets, lease, records | handshake, validate, resolve, open, commit, finish, retry | events of two sockets and three timers at every await; listeners attached late |
| Plain HTTP forwarding (`forward-proxy.ts`) | per request: attempt, budget, response, upstream request, lease, records | authenticate, validate, resolve, connect, commit, stream, finish, retry | five listeners finish an attempt, some attached late; a provider may answer early |
| Provider selection (`provider-selection.ts`, `routing-policy.ts`, `routing-candidate-ranker.ts`) | none of its own; reads records, loads, circuits | match a profile, score candidates, order providers and slots | pure, but with several tie-breaks and an overflow between classes |
| Session binding (`route-service.ts`, `dynamo-store.ts`, the adapters under `providers/`) | versioned binding of a session to an endpoint, the window in which the preferred class is healthy; each adapter's cached inventory | read, rank, claim, resolve, bind, rebind, fail back, disconnect | compare-and-set by concurrent connections, decisions on loads and inventories that are old when used |
| Authorization cache (`route-service.ts`) | digest-keyed routes, the epoch the task knows | authenticate, refresh, invalidate, admit | a cached answer that is stale when used, or cached after the cache was cleared |
| Routes, grants and credentials (`route-administration.ts`, `access-grant-service.ts`, `dynamo-store.ts`, `in-memory-route-store.ts`) | route, grant with its credentials, lookup items, managed sessions | create, update, delete; issue, add, rotate, revoke; authenticate | several requests per operation, whole-item writes of stale reads, indexes that lag |
| Deployment drain (`deployment-coordinator.ts`, `release-policy.ts`) | drain state of a deployment | evaluate, save, notify; the tracker's check | runs of a hook and of a schedule overlap and put without a condition; a notification may fail |
| Service lifecycle (`index.ts`, `app.ts`, `resource-scope.ts`, `services/`) | what a process has acquired | start, fail, stop | a start may fail at each step, and releases have an order |
| Usage accounting (`usage-accounting-*.ts`, `dynamo-usage-repository.ts`) | records, reconciliations, rollups, alert events, pressure evidence | record, reconcile, roll up | sweeps over intervals with equal ends, costs shared among customers, runs that overlap or stop half-way |
| Health alerts and notifications (`health-aggregator.ts`, `alerting.ts`, `dynamo-health-repository.ts`, `notification-service.ts`) | the alert state of a capability, events by deduplication key, deliveries | refresh, evaluate, emit; flush, post, record | several writes per evaluation, overlapping refreshes, retried deliveries |
| Health aggregation, canaries (`health-aggregator.ts`, `signed-canary-probe.ts`, `public-canary.ts`) | passive signals, the last verdict, the stored snapshot; a canary's rate windows and used challenges | record, refresh, validate; challenge, answer | overlapping refreshes share one probe; challenges arrive late or again; evidence of different ages |
| Control API, status application, configuration, telemetry, decoding, GeoIP, simulators | none that outlives a request, or output only | | not modelled, see section 7 |

How they interact: a proxy handler authenticates (cache, grants), validates the target, then
`resolve()` ranks candidates, claims a capacity circuit and a load lease and may bind a session;
the handler opens the upstream tunnel, records the outcome in the circuit, asks
`assertNewConnectionAllowed`, and hands the connection to the tracker, which heartbeats the lease and
polls the epoch until the tunnel ends. The control plane talks to the proxy tasks only through
DynamoDB, except when it runs in the same process.

What makes each modelled part correct is stated as properties in its module: the circuit lets one
probe through and never wedges or forgets failures; leases neither undercount live tunnels nor
outlive dead ones for more than one TTL; a forced revocation ends what it names and a routine one
ends nothing; the attempt of a tunnel or of a plain request is recorded once, answered once, gives
back its lease, and ends; access that was taken away stays away, what was issued is not lost, and a task notices
either; an alert is neither lost nor given twice, and every delivery is settled; a session stays where it is
until that is unavailable, and its connections agree on where it is; the accounts add up; a health snapshot rests on
what was observed; a retired deployment's tunnels end, not too early, and a process releases things in order.

## 2. Modules

| Module | Models | Checked by | Proved in |
| --- | --- | --- | --- |
| `CapacityCircuit` | the circuit of one candidate, shared by concurrent attempts | `MCCapacityCircuit` | `CapacityCircuitProofs` |
| `ActiveLoad` | the leases of one provider's slots | `MCActiveLoad` | `LeaseProofs` |
| `KillSwitch` | control-plane marks, the epoch and one task's tracker | `MCKillSwitch` | `TerminationProofs` |
| `TunnelOperation` | one tunnel from the accepted connection to its end | `MCTunnelOperation` | `OperationProofs` |
| `HttpRequest` | one plain HTTP request | `MCHttpRequest` | `LeaseProofs` |
| `HealthAlerts` | the alerts of one capability and their deliveries | `MCHealthAlerts` | `HealthAlertsProofs` |
| `AccessGrants` | a route, its grant, credentials and sessions under concurrent control-plane requests | `MCAccessGrants` | `AccessGrantsProofs` |
| `GrantLifecycle` | what the store promises about a credential; the abstraction `AccessGrants` refines | `MCAccessGrants` | `AccessGrantsProofs` |
| `AuthorizationCache` | one task's authentication of one credential | `MCAuthorizationCache` | `SessionProofs` |
| `UsageSummary` | what `usage-accounting-core.ts` computes from the records of a range of time | `MCUsageAccounting` | |
| `UsageAccounting` | the ledger and the runs of the accounting service | `MCUsageAccounting` | `OperationProofs` |
| `ProviderRanking` | compatibility, evidence, scores and the order of providers | `MCSessionBinding` | `SessionProofs` |
| `SessionBinding` | operations of one session that resolve endpoints, with both adapters | `MCSessionBinding` | `SessionProofs` |
| `CapabilitySnapshot` | what a snapshot says of its evidence | `MCHealthAggregation` | `HealthAggregationProofs` |
| `HealthAggregation` | overlapping refreshes, the probe and the canaries | `MCHealthAggregation` | `HealthAggregationProofs` |
| `ServiceLifecycle` | start and stop of the eight services | `MCDeploymentDrain` | `TerminationProofs` |
| `DeploymentDrain` | a release: deployments, tunnels, the coordinator; composes `ServiceLifecycle` | `MCDeploymentDrain` | `TerminationProofs` |
| `Fractions` | exact fractions for costs, shares and scores | | |

### CapacityCircuit

`circuit` is the stored `CapacityCircuitState` ("absent" when there is none), `lock` the lock item,
`request[w]` one attempt and the await at which its store call is suspended, `recorded` a history of
failures saved since the item last disappeared. `AllowsCandidate`, `HalfOpened` and `Failed` are the
three pure functions of `capacity-circuit.ts`. A store call is `AcquireLock`, `ReadCurrent` or
`ReadExpired` and `Evict`, `SaveClaim` or `SaveFailure`, `Unlock`: one action per request to
DynamoDB. `recordCandidateSuccess` (`ReadForReset`, `Reset`) and the ranker's screening
(`ScreenExpired`, `EvictUnlocked`) run outside the lock. `Crash` may hit any request;
`RequestError` is a rejected one. `MaxStall` bounds how long a lock holder is delayed between
two requests; the code has no such bound, see section 4.

### ActiveLoad

`lease[t]` is the lease item of a tunnel, `tunnel[t]` what its task does with it. `CountLoads`,
`Register` and `ClaimFails` are `claimActiveTunnelSlot` with the selection of the route service;
`Track` the heartbeat of `track()`; `BeatStarts`, `BeatStored` and `BeatCancelled` one heartbeat of the
poll; `Ends`, `Removed` and `RemovalRejected` the stop callback; `Abandons` a claim `resolve()` leaves
behind; `Expires` the TTL. The loads of the slots are read in one step (the code issues those
reads together); a tunnel and its leases are written in one transaction and are one item here.

### KillSwitch

`revoked`, `terminate` and `epoch` are the stored marks; `admin[a]` is the list of store calls a
control-plane request has left; `conn` the task's connections, `known` and `poll` its
tracker. `Plan` gives the calls of each operation in order; `ReadSession`, `PutSession` and
`BumpEpoch` are the three requests of `closeLogicalSession`. `PollStart`, `PollEpoch`, `PollCheck`
and `PollFinish` are `#poll`, `PollRejects` its catch. `Representatives` is the map that keeps one
connection per profile, grant and session. `Forcing` are the operations that ask for termination: a forced close of a session, a
forced revocation of one grant, an emergency revocation of the profile. `forced` and `owed` are histories: the scopes such an operation was
asked for, and the connections that stood for their scopes when one of them was marked and still do. `terminateRemaining` is that flag of the deployment, which `DeploymentDrain`
decides. Every connection is authorized by the profile, among others, and one of a session also by the session's grant (`KillSwitchConstants`). `Faults` are rejected polls, rejected checks and crashes of the control plane, which may run in the task's own
process (`AdminLocal`). The three reads of an admission or of a check are
one step: nothing is un-revoked in this module, so a passing admission could have read everything
at its first request. Creating grants and sessions is not part of the module.

### TunnelOperation

`pc` is the await at which the handler is suspended, `signal` the budget's `AbortSignal`, `client`
and `up[a]` the sockets, `lease[a]` and `records[a]` the books of each attempt. The client socket is
"open", "half" (a CONNECT client closed its own side, which the HTTP server allows), "ended" (the
proxy called `end()`), "erring" (between its error and its close event), "gone" or "dropped" (destroyed
by the proxy). Actions of the handler: `Greeted` to `ValidationFails` for the handshake, `ResolveOk` to
`Commit` for an attempt, `Settle` for its catch block. Events: `ClientLeaves`, `ClientResets`,
`ClientCloses`, `ProviderEnds`, `UpstreamErrors`, `ClientTimeout`, `BudgetExpires`, `ConnectTimeout`,
`Terminated`. An event is heard only by the listeners attached at that moment; an error event
without a listener ends the task (`TaskDies`), which is what Node.js does.

Abstractions: bytes are not modelled; the two awaits of the catch block (record the failure, release
the lease) are one step; what becomes of the task once the operation is over, for instance through
an error of a socket it forgot, is not followed; `prepareClient` does not throw, because writing to a
socket does not.

### HttpRequest

`pc`, `signal`, `up[a]`, `lease[a]` and `records[a]` are as in `TunnelOperation`; `response` is the response
to the caller ("none" until its head is out), `answering` says that the upstream response of this attempt
has arrived, `finished` is `attemptFinished`. `Authenticated` to `Settle` are the awaits of `#handleRequest`;
after `Commit` the handler has returned, and `HeadArrives`, `HeadRejected`, `ResponseFinishes`,
`UpstreamErrors`, `StreamIdle`, `AnswerIsDiscarded`, `CallerLeaves` and `Terminated` are the events of the streams. `AnswerIsDiscarded` is the end of
a complete answer that a provider volunteered to a caller who had gone before: the socket closes and nothing finishes the attempt. A
provider may answer from the moment the upstream request exists (`Answerable`), which is before it is tracked
and sent. `lost` is a history of the leases that nobody will remove. `AbortObserved` in "connecting" is
`onAbort` of `openProviderConnection`, which ends the task.

Abstractions: budgets expire at any moment and `late` becomes true at any moment, so time is not measured;
headers and bytes are left out; a provider that closes a connection while nobody reads it (`ProviderEnds`)
leaves a request that Node.js neither sends nor fails.

### HealthAlerts

`state` is the stored `HealthAlertState`, `events` the deduplication keys of the stored events, `delivery` the
deliveries; `refresh[r]` is one call of `refresh()` and the await it is suspended at, with the state it
computed (`next`) and the destinations it has yet to write (`left`). `Begin`, `Generate` and `SaveSnapshot` are
`refresh()` up to the snapshot; `ReadState`, `SaveObserved`, `CreateEvent`, `CreateDelivery`, `SaveFinal` and
`SaveAlerted` the requests of `#evaluateCapability`, `#emit` and `createHealthAlertEvent`; `Stops` a rejected request or a
crash. `Flush`, `Post`, `SaveAttempt` and `Unconfigured` are the notification service's poll. `seen` and `log` are
histories: the episodes of the status as generated, and the events in the order of their creation.

Abstractions: one capability (they are evaluated one after the other and share nothing); its status is a
choice; reads of the index and of the latest snapshot are current; a flush takes all pending deliveries in any
order, without the batch limit, the due times and the backoff; the coordinator's own `notifier` option is not used
by the services and left out.

### AccessGrants and GrantLifecycle

`route`, `grant`, `lookup` and `session` are the items in DynamoDB, `request[r]` a control-plane request and the write it is
about to make, with the grant item it read (`base`) and when (`at`). A request begins with the read that decides it
(`UpdateRoute`, `DeleteRoute`, `CreateGrant`, `AddCredential`, `RotateCredential`, `RevokeCredential`, `RevokeGrant`); its writes are
`PutRoute`, `RevokeRoute`, `TransactGrant`, `createLogicalSession`, `TransactCredential`, `PutCredential`, `MarkGrant` and
`CloseListed`, each with the condition of its DynamoDB request, and `Fail` ends it anywhere. `Rotated` and `Written` are the
computation of the new item. `issued` and `gone` are histories of what was answered, `raced` of the first write
that replaced an item changed since it was read. `Accepted` is `authenticateAccessGrant` with the session check.

`GrantLifecycle` has atomic operations, as `InMemoryRouteStore` does: a credential is issued once, a rotation ends it or
bounds it by the overlap and its expiry, and what ended does not live again. `AccessGrants` maps to it by `Lifecycle`:
a credential has ended when it, its grant, its route or its session has. The refinement (`ImplementsLifecycle`) is claimed
up to the first race.

Abstractions: one grant (grants meet only in their route); ids are fresh; owners, digests and the time of the last
use are left out; the indexes list any subset of what they might. The epoch that follows every write is in
`AuthorizationCache`, the marks for connections in `KillSwitch`.

### AuthorizationCache

`known`, `refreshIn`, `refresh` and `entry` are the fields of `RouteService` as far as one credential is concerned,
`conn[c]` an authentication and the await it is suspended at, `lost`, `epoch` and `admin[a]` the stored losses and the requests
that write them. A loss is of the credential (revoked, rotated away) or of its scope (route, grant, session), because
`assertNewConnectionAllowed` reads the scope again and not the credential. `Authenticate`, `getAuthorizationEpoch`,
`EpochRead`/`EpochFailed`, `LookupCache`, `authenticateAccessGrant`, `cacheAuthorization` and `assertNewConnectionAllowed` follow
`authenticate()` to the admission; `Evict` is a full cache. `overlapped` and `late` are histories.

### UsageSummary and UsageAccounting

`UsageSummary` follows `usage-accounting-core.ts` function by function: `clippedWindow`, `unionDuration`, `peakConcurrency` and
`concurrencyPercentile` are sweeps over the sorted ends of windows, `estimatedCost` shares the price of a slot by connected time and
leaves what nobody used to the customer "Unallocated", `summarizeUsage` groups by period and customer. Instants are integers, an hour
and a day a fixed number of them, and prices are per instant and per byte, so that all amounts are exact fractions.

In `UsageAccounting`, `ledger` (the usage records), `reconciliations`, `alerts`, `rollups` and `evidence` are the stored items and `task[k]` a run of the
service with the writes it has left. `Fetch`, `RecordCapacity`, `ListRecords`, `ListHistory` read; `SaveReconciliation`,
`SaveVarianceAlert`, `SaveRollups`, `SaveEvidence` and `SaveRecommendation` are the writes, conditional or plain as in the repository;
`Interrupt` is a rejected request or a stop. Two tasks work on one table while a deployment replaces the other. A stored rollup is
represented by the records and totals it was computed from. Abstractions: rollups of one query are put together; months, weeks,
forecasts and gauges are left out.

### ProviderRanking and SessionBinding

`ProviderRanking` has the pure part: `providerCompatible` and `selectCompatibleProvider`, `historicalRoutingEvidence` and
`scoreRoutingCandidate`, and `rankProviders` with its four cases. `Order` stands for `localeCompare`.

In `SessionBinding`, `session` is the stored logical session with its `bindingVersion`, `claim[o]` the active tunnel of an operation,
`cache` the mobile adapter's inventory, `world` what happens outside: slots that become unhealthy, go or move to another city, the
provider's API, the gateway, circuits, and the profile. `op[o]` is an operation with its resolution state and the await its call of
`resolve()` is suspended at: `ReadSession`, `ObserveClass` (the stabilization window), `Rank`, `Pass` (a provider that is
exhausted or unhealthy), `ClaimSlot`, `ResolveSlot` or `ResolveGateway`, `ClaimCircuit`, `Reuse` or `Rebind`, then `Opens` or
`OpenFails`, `Disconnect` and `RecordDisconnect`. An endpoint id is the slot, or the tuple whose hash the gateway uses as a session
identity. `lost` and `stored` are histories: what the call saw of its binding, and whether its save took effect.

Abstractions: a call's reads of records and loads within one await are one step; the evidence is fixed, so that saturation
depends on the load alone; circuits open and close by themselves (`CapacityCircuit` says when); errors of the store inside `resolve()`
are in `ActiveLoad` and `TunnelOperation`; the read and the put of `closeLogicalSession` are apart in `KillSwitch` only. The branch of
`resolve()` for a protocol the provider does not declare is unreachable after `providerCompatible`.

### CapabilitySnapshot and HealthAggregation

`CapabilitySnapshot` is `#buildSnapshot` over a record of evidence. In `HealthAggregation`, `passive`, `lastVerdict` and `validator` are
the fields of the aggregator and of `CooldownSyntheticValidator`, `refresh[r]` a refresh and the await it is suspended at, `probe` the
`SignedCanaryProbe.run` in flight, `sent` the challenges on the network, `canary[c]` the memory of a canary. `Start`, `Timer`, `PostSignal`
and `Validate` begin a refresh; `Collect`, then one of `SkipValidation`, `JoinProbe`, `UseLastResult`, `StartProbe` and `NoRoute`,
then `Build` and `SaveSnapshot` carry it through; `Fail` and `Exit` end it. `HandleChallenge` delivers a challenge, any number of times,
to any canary; `ProbeRequestFails` is a timeout or a lost answer. Abstractions: clocks agree, an answer arrives in the instant it is
made, a posted batch is one signal, a validator is configured; messages, signatures and `providerStatusAt` are left out.

### ServiceLifecycle and DeploymentDrain

`process[p]` is a process: its service, the step its start has reached and the resources it holds. Each `start...` sequence lists what
that service acquires, in order; `StartFails` may hit every step; `Releases` is the order of the stop, of `ResourceScope.close` for the
services that have a scope and of `app.ts` for the others. `DeploymentDrain` runs these processes as deployments: `Shift`,
`Retire`, `Stopping` (a server closes with its last connection), `Crash`; tunnels open on the current one; `BeginRun`, `ReadDrain`,
`SaveDrain` and `Notify` are the coordinator, `Extend` an operator, `PollDeployment` the tracker's check. `granted` is a history of what was
promised: an extension that is granted while a run is about to put the state it made without knowing of it may be overwritten, and then
the shorter one counts. One tick is longer than the interval of the coordinator's runs and of the tracker's checks.

## 3. Runs

| Run | Configuration | Properties |
| --- | --- | --- |
| `circuit` | 2 attempts, 12 ticks, threshold 2, holders within the lock lease | `SingleProbe`, `RepeatedFailuresOpen`, `NeverWedged` |
| `kill` | 2 connections of one session, 2 requests at a time and in all: one closes the session, the other forces its end, revokes its grant by force, deletes the profile or revokes it in an emergency; a rejected poll or check, a crash or a drain deadline; control plane in-process or not | `RoutineRevocationDrains`, `EstablishedEnd` |
| `load` | 2 tunnels, 2 slots, 9 ticks, one lost heartbeat in a row | `EstablishedCounted`, `LeakBounded` |
| `tunnel` | both client protocols, HTTP providers, 3 attempts, 7 ticks | `OneOutcome`, `LeasesSettled`, `EstablishmentEnds`, `TunnelEnds` |
| `http` | 3 attempts | `OneAnswer`, `RequestLeasesSettled`, `LeftExchangeEnds` |
| `alerts` | 1 refresh at a time, 2 destinations of which 1 is configured, 2 attempts, 3 snapshot times, 1 stop | `OneEventPerEpisode`, `AlertedIsDurable`, `DeliverySettles`, `DeliveriesEnd` |
| `grants` | 3 credentials, 1 session, 2 requests at a time, 4 in all, lifetime 3 and overlap 2 of 3 ticks | `RevocationIsFinal`, `IssuedIsKept`, `ImplementsLifecycle` |
| `authorization` | 2 connections, a local and a remote request at a time, 2 epochs, an entry lives twice as long as a refresh | `NoticedLossIsRefused`, `ClosedAdmitsNobody`, `LossTakesHold` |
| `usage` | 2 tasks of which one is replaced, 3 attempts of 2 customers on a shared slot and a gateway, hours of 2 instants, days of 4 | `CostsConserved`, `MetricsAgree`, `NoSilentVariance`, `RunSettles` |
| `routing` | 2 operations with 2 calls each, 2 slots and a gateway, 1 change around them, 2 instants, sessions unbound, bound, degraded or with an open window at first | `PlacementFollowsPolicy`, `LoadNeverImproves`, `AnswersAreBound`, `StickyBinding`, `FailbackIsQuiet` |
| `health` | 2 refreshes at a time, 3 in all, a provider of each class, 2 geographies that are also the scopes, 1 canary, 2 instants, 1 signal or pressure, 1 restart | `ChallengesCompleteOnce`, `GeographiesAreWitnessed`, `StatusFollowsEvidence`, `VerdictsAreGrounded` |
| `deployment` | each of 8 services, or 2 deployments of the proxy; 1 tunnel, 2 runs at a time, 3 ticks, 2 shifts, 2 extensions | `OrderlyShutdown`, `CutsAreDue`, `RetiredTunnelsEnd` |

All of them hold. `TypeOK` of a module is proved (section 5) where the module has proofs.

Bounds. *Circuit*: two attempts suffice for every race on one lock and one item; the clock reaches
twice past the longest cooldown; the ticks keep the order of the code's durations. *Kill*: two
connections that share everything are one that the tracker checks and one it stands for, and they change places when one ends, comes back or is tracked
late; the two requests contain the pairs of a routine and a forced end whose reads, writes and epochs interleave, on the session, its grant and its
profile. A routine revocation of a grant is a prefix of the deletion of its profile, call for call, and has no place of its own in the run. One
disturbance in a behaviour (`MaxDisturbances`: a failure of some kind, or the deadline of a drain) keeps the graph small enough for liveness; of two,
the second would find either an excused operation or connections that are ending. `EstablishedEnd` promises an end to the connection
that stands for its scopes, and to nobody else: that the others are not terminated is section 4. *Load*:
the TTL outlasts the attempt and two heartbeat periods, as 120 s does 30 s; the clock passes one TTL and a
leak. *Tunnel*: three attempts of two ticks against an operation of five, so the third is cut short, as
attempts of 10 s are by an operation of 30 s that started with a handshake. *Http*: three attempts are a
first, a middle and a last one; there is no other bound. *Alerts*: three snapshots are enough for an alert after
the delay and its recovery, or for two outages with a recovery between; two destinations for an event whose
deliveries are only partly written. *Grants*: a lost update needs a reader, a writer in between and the reader's
write, and an emergency rotation or a revocation before it; four requests on a created grant contain all of these with
one session; three credentials are one to lose, one from a rotation and one added. Credentials and requests are
interchangeable, so the run uses their symmetry (it has no liveness property), as do `routing` and `health`.
*Authorization*: two connections are the one
whose authentication overlaps the clearing of the cache and the one that finds what it left; two epochs separate two losses.
*Usage*: the traffic has a slot two customers share, a connection over the end of an hour, a retried operation, a fallback for want
of capacity and a total of each provider that differs from the estimate; a record may come before, during or after a run, and the window
leaves the first hour while the clock runs. *Routing*: two calls per operation and two operations are a lost compare-and-set with its
retry, and a failback with a connection beginning beside it; one change is what a binding is lost to, and the two instants pass the
stabilization, the quiescence and the cache's lifetime. The ranking is evaluated for every set of three providers with every class,
two loads and saturation, the scoring for every set of four attempts. *Health*: traffic is seen in two geographies and validations are asked
for each of them, while the exit of the probe is in either or could not be located; so evidence may be asked for one geography and witnessed in
the other. A probe joined by a second scope, used again during the cooldown and after a
restart needs three refreshes; two deliveries are a challenge and its repetition in the next minute, which is where used challenges
are purged. *Deployment*: the tunnel of the retired deployment meets two overlapping runs, a rollback and two extensions, the second of which may
be shorter and granted while a run that knows only of the first is about to save; with one tunnel a
run has one deployment at a time. The policy's one, three and six hours are one tick each; a run may come at any moment of them.

Deadlock is not checked except in `circuit` and `usage`: connections end, the clock has a bound, and nothing needs to happen then.

Fairness. *KillSwitch*: the poll timer keeps firing and its requests are answered (`PollStep`), a
control-plane request that does not crash goes on (`AdminStep`), and a destroyed socket emits its close
event. *TunnelOperation*: requests to the store are answered (`Handler`), due timers fire,
time passes while an operation is being established, a failed socket emits its close event, and a client whose
side of the connection was ended closes it, at the latest through the load balancer's idle
timeout. *HttpRequest*: requests to the store are answered, budgets expire, and a stream whose caller is
gone goes idle, since nothing is read from it or written to it any more. Nothing is assumed of providers.
*HealthAlerts*: the notification service polls on a timer and its requests are answered or time out (`Notify`).
*AuthorizationCache*: time passes (`Tick`), a request for the epoch is answered or fails (`EpochStep`), and an authentication that
has begun goes on (`Continue`); nothing is assumed of the control plane. *DeploymentDrain*: the schedule runs the coordinator again
and again and its requests are answered, the tracker polls, expired records disappear, time passes; nothing is assumed of operators,
clients, traffic shifts or of notifications getting through.

## 4. Where the code and its documents part

Five statements of the documents are written down as properties that TLC refutes; they are in no configuration. Adding one to the
configuration named here reproduces its counterexample.

- `ForceCloseTerminates` (`KillSwitch`, `MCKillSwitch.cfg` with `MaxOperations` 1, `MaxDisturbances` 0 and `"force_close"` as the only operation of `a1`).
  `docs/USAGE.md:139`: "Force-close also terminates active connections." `#poll` checks and terminates one connection per profile, grant
  and session (`active-connection-tracker.ts:150`); others of the same session stay.
- `LeftAttemptRecorded` (`HttpRequest`, `MCHttpRequest.cfg` with `MaxAttempts` 1). `docs/OPERATIONS.md:372`: "Every upstream attempt
  records an idempotent unsampled event". When the caller leaves before the listeners of the response are attached and the provider's answer is
  complete, the upstream socket closes without an error or a timeout, and no listener is left to finish the attempt
  (`forward-proxy.ts:491`).
- `TimeoutHandled` (`HttpRequest`, `MCHttpRequest.cfg`). `docs/USAGE.md:159`: "Each attempt has 10 seconds and the operation has
  30 seconds overall." When the budget expires while the provider is being connected, `openProviderConnection` detaches its error
  listener before it destroys the socket with the error (`forward-proxy.ts:108`), and the uncaught error ends the task instead of the
  attempt. A caller who leaves at that moment has the same effect.
- `RevokedStaysRevoked` (`AccessGrants`, `MCAccessGrants.cfg`). `docs/USAGE.md:141`: "Emergency rotation invalidates the selected
  suspected credential immediately." Adding a credential puts the grant item as it was read before the rotation
  (`dynamo-store.ts:287`), and the suspected one is active again. The same happens to a revocation of a credential, and an addition
  can be lost in the same way; `RevocationIsFinal` and `IssuedIsKept` say that such writes are the only way.
- `RollupsKeepAttempts` (`UsageAccounting`, `MCUsageAccounting.cfg`). `docs/OPERATIONS.md:16` calls the rollups durable. The window of a
  run begins in the middle of a period (`services/usage-accounting-service.ts:123`), and the rollup of that period is put over
  the complete one with the attempts that are left.

Seen while modelling and listed as hazards without a run of their own: a budget that expires during the negotiation with a
SOCKS5 provider destroys the socket without an error, and `readExactly` waits for an event that never comes
(`upstream-tunnel.ts:214`; `EstablishmentEnds` holds for HTTP providers); both sockets of a tunnel that close
while it is being tracked are not heard, and its lease is heartbeated for ever (`tunnel-operation.ts:262`); two overlapping
refreshes that read the same mark each emit a recovery (`health-aggregator.ts:421`); `revokeAccessGrantCredential` puts a
grant back that was revoked since it read it (`dynamo-store.ts:467`), and an update a route that was deleted
(`dynamo-store.ts:168`); an authorization that was read before the cache was cleared is cached afterwards for its full
30 seconds (`route-service.ts:539`); the lock of a circuit is a lease of 10 s and the Put
of the circuit is unconditional, so a holder that is delayed past the lease overwrites its successor and a second
probe is admitted (`dynamo-runtime-state-repository.ts:306`); a forced close that died before it advanced the epoch
is acknowledged at its retry by an early return (`dynamo-store.ts:542`); a stop between a recovery event and the
removal of its mark hides an outage that follows at once (`alerting.ts:229`); a connection admitted before a
forced close and tracked after the poll is never checked (`active-connection-tracker.ts:147`); a
rejected check is swallowed after the epoch was recorded (`dynamo-store.ts:587`); a routine close
that read the session before a concurrent forced close puts the flag back (`dynamo-store.ts:552`);
the admission limit is compared before the awaits that precede tracking
(`active-connection-tracker.ts:45`); a SOCKS5 client keeps the handshake's idle timer of one attempt while the
operation still has time (`socks5-proxy.ts:144`); a plain request that is answered while it is being tracked
stays tracked (`forward-proxy.ts:265`); an upstream error of an established tunnel leaves the client's
connection open (`tunnel-operation.ts:264`).

Of the parts modelled later:

- Usage: a provider that reported a total but has no records is in the customers' sum and not in the whole
  (`CostsConserved` excepts it; compare `docs/OPERATIONS.md:379`); a total of more than a day is compared with the estimate of its
  first day (`usage-accounting-worker.ts:39`); a stop between a reconciliation and its alert loses the alert (`usage-accounting-worker.ts:83`).
- Routing: a call whose own save was lost can connect on the old binding while a failback replaces it; `recordDisconnect`
  writes `lastDisconnectedAt` without a new version (`active-connection-tracker.ts:185`), so two of them may replace each other; a lost rebind counts as an attempt with its provider;
  a failed failback is followed by the old provider and, unless that call succeeds, does not restart the stabilization
  (`docs/USAGE.md:156`); when the claimed slot is gone the adapter answers another, while the claim and the circuit stay on the first
  (`proxidize.ts:270`).
- Health: `#lastSynthetic` does not expire, and an old verdict goes over newer passive evidence; among passive signals the key that was
  recorded first to last decides, not the time; a validation request may be answered by a probe of another scope; two overlapping refreshes
  may generate the same time and one replaces the other; used challenges are remembered per instance (`docs/OPERATIONS.md:307`
  says "non-replayable").
- Deployment: the age of a drain counts from the start of its earliest tunnel and not from the traffic shift
  (`docs/OPERATIONS.md:444`), so a long tunnel can be cut in the first run; the state of a drain is never cleared, so after a rollback to a
  deployment whose drain had ended its tracker cuts what is opened there; a run puts its state over an extension written since it read;
  `lastNotificationAt` is saved before the notification, which is not repeated for an hour when it fails; overlapping runs may notify twice.
- Lifecycle: no stop waits for work of a timer that is in flight, so the store may be closed under it; when `createRoutingRuntime` fails, telemetry
  that an application acquired itself is not shut down (`app.ts`; `index.ts` passes its own).

## 5. Proofs

All theorems are for every value of the constants that satisfies the module's `ASSUME`.

- `CapacityCircuitProofs`. `Types`. `CircuitNeverWedged` and `CooldownRetained` rest on
  `WellFormed(circuit)`: an open circuit has a cooldown at most `MaxCooldown` after its last update and a
  retention that covers it, a half-open one a probe lease. It is inductive because every write of the
  circuit is one of the pure transitions (`CircuitWrites`). They need no assumption on the lock.
  `FailuresOpenCircuit` assumes `MaxStall <= LockLease` and rests on `FailureInv`: a request
  between its lock and its unlock still owns an unexpired lock (`LockHeld`), so holders exclude one
  another, the circuit counts every saved failure (`FailuresKept`), and a closed circuit is below the threshold.
  `OneProbe` assumes `ProbeDurations`, which the program's durations satisfy: holders are no slower than the lock lease
  (10 s); a probe lasts at most `ProbeSpan` (25 s), less than its lease (30 s); and that with the wait of a straggler for
  the lock (15 s) is less than the shortest cooldown (60 s). `ProbeInv` says that no request is older than its budgets (`Paced`),
  and that while a probe is in flight the circuit, and everyone's copy of it, admits no other before the longest time a probe may take
  (`Guarded`): a half-open one has that much of its lease left, an open one that much of its cooldown, and one that was evicted or reset is
  absent and admits candidates, but not as probes.
- `LeaseProofs`. `LoadTypes`. `LeakIsBounded` and `RemovalIsFinal` rest on `LeakInv`: a lease
  and any heartbeat in flight expire within a TTL of now, or of the end of their tunnel. `TunnelsCounted`
  assumes `LeaseOutlasts` (a TTL covers the attempt and `MaxLost + 1` heartbeat periods) and rests on
  `HeldInv`, which relates the expiry of a live tunnel's lease to its next heartbeat and the number lost.
- `OperationProofs`, which extends two modules without a common name. About `TunnelOperation`: `TunnelTypes` (which includes that no attempt is begun beyond the limit).
  `AttemptsRecordedOnce`, `CommitmentIsFinal` and `NoLeaseForgotten` rest on `TunnelInv`, which adds to
  the three properties that a tunnel is finished only after its commitment (`FinishedLate`), that nothing
  final was said before the end of an operation (`SilentBefore`), and which attempts may hold a
  lease at each await (`LeasesKnown`): without the last, a failed `resolve()` could be followed by a
  release that finds nothing to release. `TunnelOneOutcome` is the first two together, as the run checks them.
  About `UsageAccounting`, for any number of tasks, any traffic, totals and slot periods: `VariancesAreTold` (`NoSilentVariance`), which is
  inductive with the shape of a run (`VarianceInv`). A conditional put keeps the stored reconciliation, so only the task that wrote an
  abnormal one owes its alert (`Owed`), and a step of a task changes what it owes only by writing the alert or by failing. It says nothing of the
  amounts, and needs no fact about the summaries.
- `LeaseProofs`. `RequestTypes`. `RequestsRecordedOnce`, `RequestCommitIsFinal` and
  `NoRequestLeaseForgotten` rest on `RequestInv`, which adds which attempts may hold a lease or a socket at each
  await (`LeasesKnown`), that nothing was sent before the commitment (`SentLast`), and that no head is out as long
  as the provider may still answer (`HeadPending`): the callback that passes the head on does not look.
  `RequestOneOutcome` is the first two together, as `OneAnswer`.
- `HealthAlertsProofs`, for any number of overlapping refreshes. `AlertTypes`, `AlertsDurable` and
  `SettledDeliveries` rest on `IInv`: marks in the hands of a refresh are as durable as the stored one
  (`MarksDurable`), an evaluation that is writing deliveries has its event and those already written
  (`Emission`), a pending delivery has an attempt left (`AttemptLeft`), and the copies of a flush are current
  (`BatchCurrent`), because nobody else writes a delivery that is pending. `OneEvent` assumes `OneRefresh`, that refreshes
  do not overlap, as its run does: with overlapping ones it is false (section 4). `EpisodeInv` says that the refresh under way saw the
  latest status, that it emits nothing before its episode is in the store (`Persisted`), and that the events of the episode are in the
  store under its start (`LogCurrent`), so that a repeated evaluation meets its own deduplication key.
- `AccessGrantsProofs`, for any number of credentials, sessions and requests. `GrantTypes` rests on `Typed`, which adds what a
  request knows when it writes (`Prepared`). `CredentialsKept` and `RevivalsArePuts` rest on `KInv`: nobody writes to a
  grant before it exists and only one request creates it (`Staged`, `OneCreate`), so the creating transaction replaces
  nothing, and every other write keeps the credentials of the item it was computed from (`WrittenKeeps`).
  `RevocationsFinal` adds to that which credentials and sessions an item may refer to (`Holdings`: every
  credential of an item has a lookup item, and requests under way have ids of their own), and for each way to lose a credential that no write but a
  racing one undoes it (`Lost`). `LifecycleImplemented` is the refinement of `GrantLifecycle`, by the same invariant: until the first race
  every step of `AccessGrants` is one issue, one rotation, some ends, the passing of time, or nothing.
- `SessionProofs`, for any number of connections and control-plane requests and any durations. `AuthorizationTypes`.
  `LossRefused` rests on `NoticedInv`: an epoch tells only of losses that are in the store (`EpochsTell`: the item is written before
  the epoch advances), so whoever reads the items after the notice fails, and what is cached or about to be was read before it (`Overlaps`).
  `ClosedRefused` rests on `ClosedInv`: what was answered was written, and a connection that began later meets it at
  `assertNewConnectionAllowed` at the latest.
  About `SessionBinding`, for any number of operations and sticky slots, any profiles, records and limits and any sessions that earlier
  connections left (`SessionConstants`: two distinct adapters, a gateway identity that is a hash of its parts): `AnswersConverge`
  (`AnswersAreBound`), `BindingsStick` (`StickyBinding`) and `FailbackDisturbsNobody` (`FailbackIsQuiet`). All three rest on `SessionInv`. What a
  call read is what the session was, and while no version was written since, it still has that binding and that window (`Snapshot`,
  `Before`). An operation holds its claim from its slot or circuit on (`Held`). A call whose binding is eligible and that has not seen it lost
  prefers it at each stage from ranking to the write (`Prefers`), or probes the preferred class in a mature window, and then nobody
  holds a claim on the binding unless another version was written meanwhile (`Probes`; `NobodyInUse` turns the load that the code sums into the
  claims). Of the ranking only `OwnProviderFirst` is needed, that the bound provider heads the list that is asked for it, and only `Reuse` and
  `Rebind` leave the last stage (`WhoBinds`).
  `RankingIsPolicy` (`PlacementFollowsPolicy`) is about `ProviderRanking`, for any finite set of identifiers, natural loads and places in the
  collation (`RankingConstants`). `SortedBy` chooses a sorted list, so one has to exist: a smallest set that cannot be sorted
  would have a first element, and what is left of it can (`CanSort`; `LeastExists` stands for the induction). A sorted list has every
  entry once and a least one first (`SortedIsAll`), and the cases of `rankProviders` put such lists together (`OverflowLeads`, `PrimaryLeads`).
- `TerminationProofs`, which extends two modules without a common name. About `DeploymentDrain`, for any number of deployments, tunnels, runs, shifts and extensions and any policy. `DrainTypes`.
  `TunnelsCutWhenDue` rests on `DrainInv`: a drain state, stored or in the hands of a run, begins with a tunnel that had started by then,
  has decided to terminate only if that was due, and honours what is still promised (`Sound`). That the earliest start in a list exists is
  `LeastExists`, by the well-foundedness of inclusion between finite intervals. The proof did not go through for two extensions with the
  history as it was: it took the second for a promise even if it was shorter and a run was about to save the longer one. TLC
  confirmed the counterexample, and the run has two extensions since.
  `ShutdownsOrderly` rests on `LifecycleInv`: a start holds what its steps so far acquired, and with a resource everything that it uses. The
  order itself is `ServicesOrderly`, by cases over the eight services: each acquires a resource after what it uses, and its release is in
  an earlier group than theirs.
  About `KillSwitch`, for any number of connections, grants, sessions and control-plane requests: `SwitchTypes`, and `RoutineRevocationsDrain`,
  which rests on `SwitchInv`. What was asked for is a scope itself, its
  grant or the profile (`Asked`), and each of these is among the scopes of the connections it authorizes (`AskedReaches`). Marks and the calls that a request has left
  terminate nothing but what was asked for (`Spares`), and so does what a
  close read and is about to write back; the latter is why the conjunct on `seen` is needed. That a plan, a flattened sequence of the plans of the
  grants, consists of such calls is `PlanSpares`. It rests on `FlattenSequences`, whose two inductions over the length of a sequence are done by
  hand with `LeastExists`: a first wrong index has a predecessor that is right.
- `HealthAggregationProofs`, for any number of overlapping refreshes, canaries, providers and geographies and any durations.
  `ChallengesAreCompletedOnce` rests on `ChallengeInv`: a challenge on the network is the one that its probe signed under an identifier of its own
  (`Signed`), and a canary keeps in mind what it completed until the challenge has expired (`Remembered`), because its memory of it has the expiry of the
  challenge.
  `GeographyEvidenceIsWitnessed` rests on `WitnessInv`: what a signal, a verdict, a snapshot in the making and the stored one say of a
  geography was observed there, and observations stay. `VerdictsRestOnCompletions` (`VerdictsAreGrounded`) rests on it too, because the answer to a proxied
  request tells of an exit (`SuccessGrounded`, `FailureGrounded`, `NothingGrounded`, one for each way a probe concludes). It says of a
  new verdict that it has the scope its probe was started for; that a success, with its geography, comes with a challenge completed in that
  instant; and what a failure of the proxy path or an unverified exit rests on.
  `WorseEvidenceImprovesNoTraffic` is about `#buildSnapshot` alone and the traffic capabilities alone. It takes any evidence (any reports, any
  providers under pressure, any number of signals, any verdict, any previous snapshot), adds one piece of bad evidence and compares the two through the
  order `NoBetter` of the states. `BadEvidenceImprovesNothing` (`StatusFollowsEvidence`) is the same of the evidence that the run enumerates: at most one signal and no
  previous snapshot. Neither says anything of the geographies or of `health_verification`: of the latter the claim would be false.
  `None` is no geography (`SnapshotConstants`).

## 6. Only model-checked

Liveness (`EstablishedEnd`, `EstablishmentEnds`, `TunnelEnds`, `LeftExchangeEnds`, `DeliveriesEnd`, `LossTakesHold`,
`RetiredTunnelsEnd`), because the prover has no rules for fairness. `CostsConserved`, `MetricsAgree`, `RunSettles` and `LoadNeverImproves`,
because they compare the results of folds over sets and sequences of records (sums of costs and weights, sweeps over windows), which would need
induction over data.

## 7. Not modelled

The control API, schemas, decoding, configuration, telemetry, the status application and GeoIP are
input and output around the modelled services. Target security and destination resolution classify strings and DNS answers and keep
no state. The simulators, the demo and the integration target are test doubles; `infra/` describes cloud resources. The HTTP exchanges with
providers are I/O; their results are choices in the models. Of the provider adapters the preparation of candidates and the
persistence of the inventory are left out, of the canaries the signatures and the Lambda's wrapping of a request.

## 8. Plan

1. An abstract specification of one binding that changes only for a reason, refined by `SessionBinding`.
2. Larger instances of `deployment` (two tunnels on two retired deployments) and `health` (two canaries) outside the regular runs.
