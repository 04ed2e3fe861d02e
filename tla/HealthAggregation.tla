--------------------------- MODULE HealthAggregation ---------------------------
(***************************************************************************)
(* The health aggregator (CapabilityHealthAggregator,                      *)
(* CooldownSyntheticValidator and HealthAggregatorServer in                *)
(* health-aggregator.ts), its synthetic probe (signed-canary-probe.ts) and *)
(* the public canaries that answer the probe's challenges                  *)
(* (public-canary.ts, canary-challenge.ts).                                *)
(*                                                                         *)
(* A refresh is started by the service's start, a timer, posted signals    *)
(* and validation requests; nothing keeps two of them apart, and each      *)
(* await is a step.  The refreshes share one validator, hence one probe at *)
(* a time.  A challenge that was sent may reach a canary late, again, or   *)
(* never, and its answer may be lost.  Alerting is HealthAlerts.  The      *)
(* clocks of the aggregator and of the canaries agree; a canary's answer   *)
(* arrives in the instant it is made.                                      *)
(***************************************************************************)
EXTENDS CapabilitySnapshot

CONSTANTS
    Refreshes,          \* refreshes that may overlap
    Reports,            \* what the providers' health checks may answer
    Signals,            \* passive signals, without their times
    Delays,             \* how long ago a signal that arrives was observed
    Scopes,             \* what validations are asked for: a geography, or None for none
    Canaries,           \* canary processes or Lambda instances
    PassiveMaxAge,      \* passiveValidationMaxAgeMs
    PressureMaxAge,     \* capacityPressureMaxAgeMs
    Cooldown,           \* cooldownMs of the validator
    Minute,             \* length of a rate-limit window
    RequestsPerMinute,  \* requests of one address that a canary reads in a window
    Lifetime,           \* how long the probe's challenges are valid
    MaximumLifetime,    \* the longest validity a canary accepts
    MaxTime,            \* bound: the clock stops
    MaxRefreshes,       \* bound: refreshes begun
    MaxEvents,          \* bound: passive signals and pressure evidence recorded
    MaxHandled,         \* bound: requests that reach a canary
    MaxExits            \* bound: how often the aggregator's process ends

ASSUME AggregationConstants ==
    /\ Reports \subseteq [Providers -> HealthStates]
    /\ {PassiveMaxAge, PressureMaxAge, MaxRefreshes, MaxEvents, MaxHandled, MaxExits} \subseteq Nat
    /\ {Cooldown, Minute, RequestsPerMinute, Lifetime, MaximumLifetime, MaxTime} \subseteq Nat \ {0}

VARIABLES
    clock,       \* the time
    route,       \* whether proxyUrl is configured
    server,      \* "stopped", "starting" (its first refresh runs) or "running"
    passive,     \* #passiveSignals, in the order their keys were first set
    lastVerdict, \* #lastSynthetic
    validator,   \* CooldownSyntheticValidator: lastCompletedAt and lastResult
    probe,       \* SignedCanaryProbe.run in flight
    refresh,     \* refresh[r]: a refresh and the await it is suspended at
    stored,      \* the stored provider health, pressure evidence and latest snapshot
    sent,        \* challenges on the network
    canary,      \* canary[c]: a canary's memory
    spent,       \* refreshes begun, events recorded, requests handled, processes ended and
                 \* challenges signed
    history      \* signals received, and challenges completed with what was observed

memory == <<passive, lastVerdict, validator, probe, refresh>>
vars == <<clock, route, server, memory, stored, sent, canary, spent, history>>

Addresses == {"exit", "direct"}   \* where the proxied and the direct requests come from
NoScope == None

Idle == [pc |-> "idle", now |-> Never, forced |-> FALSE, scope |-> NoScope, health |-> <<>>,
         passive |-> <<>>, pressed |-> {}, snapshot |-> NoSnapshot]
NoProbe == [pc |-> "idle", id |-> 0, scope |-> NoScope]
NoResult == [completedAt |-> Never, result |-> NoVerdict]

Init ==
    /\ clock = 1 /\ route \in BOOLEAN /\ server = "stopped"
    /\ passive = <<>> /\ lastVerdict = NoVerdict /\ validator = NoResult /\ probe = NoProbe
    /\ refresh = [r \in Refreshes |-> Idle]
    /\ stored = [health |-> <<>>, pressure |-> [p \in Providers |-> Never], latest |-> NoSnapshot]
    /\ sent = {}
    /\ canary = [c \in Canaries |-> [windowMinute |-> -1, windows |-> [a \in Addresses |-> 0], used |-> {}]]
    /\ spent = [refreshes |-> 0, events |-> 0, handled |-> 0, exits |-> 0, challenges |-> 0]
    /\ history = [received |-> {}, completed |-> <<>>]

At(r, label) == refresh[r].pc = label

----------------------------------------------------------------------------
(* HealthAggregatorServer: what begins a refresh                             *)

Begun(r, forced, scope) ==
    /\ At(r, "idle") /\ spent.refreshes < MaxRefreshes
    /\ refresh' = [refresh EXCEPT ![r] = [Idle EXCEPT !.pc = "collecting", !.now = clock,
                                                      !.forced = forced, !.scope = scope]]

Start(r) ==
    /\ server = "stopped" /\ server' = "starting"
    /\ Begun(r, FALSE, NoScope)
    /\ spent' = [spent EXCEPT !.refreshes = @ + 1]
    /\ UNCHANGED <<clock, route, passive, lastVerdict, validator, probe, stored, sent, canary, history>>

Timer(r) ==
    /\ server = "running"
    /\ Begun(r, FALSE, NoScope)
    /\ spent' = [spent EXCEPT !.refreshes = @ + 1]
    /\ UNCHANGED <<clock, route, server, passive, lastVerdict, validator, probe, stored, sent, canary, history>>

\* Of the signals with one key the newest is kept, at the place of the first.
recordPassiveSignal(signal) ==
    LET key(s) == <<s.provider, s.capability, s.geography>>
        at == {i \in DOMAIN passive : key(passive[i]) = key(signal)}
    IN  IF at = {} THEN Append(passive, signal)
        ELSE [i \in DOMAIN passive |->
                 IF i \in at /\ passive[i].observedAt < signal.observedAt THEN signal ELSE passive[i]]

\* POST /v1/passive-signals/otlp: a signal is recorded and a refresh begins.
PostSignal(r, s, observedAt) ==
    LET signal == [provider |-> s.provider, capability |-> s.capability, geography |-> s.geography,
                   outcome |-> s.outcome, observedAt |-> observedAt]
    IN  /\ server = "running"
        /\ spent.events < MaxEvents
        /\ Begun(r, FALSE, NoScope)
        /\ passive' = recordPassiveSignal(signal)
        /\ spent' = [spent EXCEPT !.refreshes = @ + 1, !.events = @ + 1]
        /\ history' = [history EXCEPT !.received = @ \cup {signal}]
        /\ UNCHANGED <<clock, route, server, lastVerdict, validator, probe, stored, sent, canary>>

\* POST /v1/validate
Validate(r, scope) ==
    /\ server = "running"
    /\ Begun(r, TRUE, scope)
    /\ spent' = [spent EXCEPT !.refreshes = @ + 1]
    /\ UNCHANGED <<clock, route, server, passive, lastVerdict, validator, probe, stored, sent, canary, history>>

----------------------------------------------------------------------------
(* CapabilityHealthAggregator.refresh                                        *)

\* The providers answer their health checks and the answers are stored; then the signals
\* that are recent at the refresh's time are taken, each at its place.
Collect(r, health) ==
    LET recent == {i \in DOMAIN passive : refresh[r].now - passive[i].observedAt <= PassiveMaxAge}
    IN  /\ At(r, "collecting")
        /\ stored' = [stored EXCEPT !.health = health]
        /\ refresh' = [refresh EXCEPT ![r] = [@ EXCEPT !.pc = "listing", !.health = health,
                                                       !.passive = [i \in recent |-> passive[i]]]]
        /\ UNCHANGED <<clock, route, server, passive, lastVerdict, validator, probe, sent, canary, spent, history>>

\* Fresh pressure evidence that is not from after the refresh's time.
Pressed(r) == {p \in Providers : /\ stored.pressure[p] # Never
                                 /\ stored.pressure[p] >= refresh[r].now - PressureMaxAge
                                 /\ stored.pressure[p] <= refresh[r].now}

\* Recent traffic succeeds through a provider that says it is unhealthy, or fails
\* through one that does not.
Conflict(r) == \E i \in DOMAIN refresh[r].passive :
    LET signal == refresh[r].passive[i]
    IN  /\ signal.provider \in Providers
        /\ (refresh[r].health[signal.provider] = "unhealthy") = (signal.outcome = "success")

Validates(r) == refresh[r].forced \/ Conflict(r)

Listed(r, label) == [refresh EXCEPT ![r] = [@ EXCEPT !.pc = label, !.pressed = Pressed(r)]]

SkipValidation(r) ==
    /\ At(r, "listing") /\ ~Validates(r)
    /\ refresh' = Listed(r, "reading")
    /\ UNCHANGED <<clock, route, server, passive, lastVerdict, validator, probe, stored, sent, canary,
                   spent, history>>

----------------------------------------------------------------------------
(* CooldownSyntheticValidator.validate, and the beginning of a probe         *)

\* The probe in flight is shared, whatever it was asked to look at.
JoinProbe(r) ==
    /\ At(r, "listing") /\ Validates(r)
    /\ probe.pc # "idle"
    /\ refresh' = Listed(r, "validating")
    /\ UNCHANGED <<clock, route, server, passive, lastVerdict, validator, probe, stored, sent, canary,
                   spent, history>>

CoolingDown == validator.result # NoVerdict /\ clock - validator.completedAt < Cooldown

\* So is the last result during the cooldown.
UseLastResult(r) ==
    /\ At(r, "listing") /\ Validates(r)
    /\ probe.pc = "idle" /\ CoolingDown
    /\ lastVerdict' = validator.result
    /\ refresh' = Listed(r, "reading")
    /\ UNCHANGED <<clock, route, server, passive, validator, probe, stored, sent, canary, spent, history>>

\* makeBody: a freshly signed challenge, sent from an address.
Challenge(from) == [id |-> spent.challenges + 1, expiresAt |-> clock + Lifetime, from |-> from]

StartProbe(r) ==
    /\ At(r, "listing") /\ Validates(r)
    /\ probe.pc = "idle" /\ ~CoolingDown /\ route
    /\ probe' = [pc |-> "proxied", id |-> spent.challenges + 1, scope |-> refresh[r].scope]
    /\ sent' = sent \cup {Challenge("exit")}
    /\ spent' = [spent EXCEPT !.challenges = @ + 1]
    /\ refresh' = Listed(r, "validating")
    /\ UNCHANGED <<clock, route, server, passive, lastVerdict, validator, stored, canary, history>>

Verdict(outcome, scope, geography) ==
    [outcome |-> outcome, checkedAt |-> clock, expected |-> scope, geography |-> geography]

\* Without a proxy route the probe answers at once.
NoRoute(r) ==
    LET verdict == Verdict("inconclusive", refresh[r].scope, "unverifiable")
    IN  /\ At(r, "listing") /\ Validates(r)
        /\ probe.pc = "idle" /\ ~CoolingDown /\ ~route
        /\ validator' = [completedAt |-> clock, result |-> verdict]
        /\ lastVerdict' = verdict
        /\ refresh' = Listed(r, "reading")
        /\ UNCHANGED <<clock, route, server, passive, probe, stored, sent, canary, spent, history>>

\* All who share the probe hear of its end.
Waiters == {r \in Refreshes : At(r, "validating")}

\* The probe ends: the validator is free again and whoever waited goes on, all before
\* anything else happens in the process.
Conclude(verdict) ==
    /\ probe' = NoProbe
    /\ validator' = [completedAt |-> clock, result |-> verdict]
    /\ lastVerdict' = verdict
    /\ refresh' = [r \in Refreshes |-> IF r \in Waiters THEN [refresh[r] EXCEPT !.pc = "reading"] ELSE refresh[r]]

----------------------------------------------------------------------------
(* SignedCanaryProbe.run and PublicCanary.handle                             *)

\* The proxied request failed: a control challenge goes to the canary directly.
SendControl(handled) ==
    /\ probe' = [probe EXCEPT !.pc = "direct", !.id = spent.challenges + 1]
    /\ sent' = sent \cup {Challenge("direct")}
    /\ spent' = [spent EXCEPT !.challenges = @ + 1, !.handled = @ + handled]
    /\ UNCHANGED <<passive, lastVerdict, validator, refresh>>

Inconclusive ==
    /\ Conclude(Verdict("inconclusive", probe.scope, "unverifiable"))
    /\ UNCHANGED <<passive, sent>>

\* A request of the probe times out, is refused, or its answer does not come back.
ProbeRequestFails ==
    /\ \/ probe.pc = "proxied" /\ SendControl(0)
       \/ probe.pc = "direct" /\ Inconclusive /\ UNCHANGED spent
    /\ UNCHANGED <<clock, route, server, stored, canary, history>>

\* Mutant of Purged: a challenge is forgotten in the last instant of its life.
PurgedEarly(used) == {u \in used : u.expiresAt > clock}

\* What a canary remembers of used challenges when a new minute begins.
Purged(used) == {u \in used : u.expiresAt >= clock}

\* A new minute clears the windows and the expired challenges; then the request counts.
\* A count past the limit is the same as the first past it.
Counted(c, from) ==
    LET minute == clock \div Minute
        fresh == IF canary[c].windowMinute = minute THEN canary[c]
                 ELSE [windowMinute |-> minute, windows |-> [a \in Addresses |-> 0],
                       used |-> Purged(canary[c].used)]
    IN  [fresh EXCEPT !.windows[from] = IF @ > RequestsPerMinute THEN @ ELSE @ + 1]

verifyCanaryChallenge(m) == m.expiresAt >= clock /\ m.expiresAt <= clock + MaximumLifetime

StatusCode(after, m) ==
    IF after.windows[m.from] > RequestsPerMinute THEN 429
    ELSE IF ~verifyCanaryChallenge(m) THEN 401
    ELSE IF \E u \in after.used : u.id = m.id THEN 409
    ELSE 200

\* Mutant of verifyGeography: what cannot be verified does not speak against a match.
verifyGeographyLenient(scope, observed) ==
    IF observed = "unavailable" \/ scope \in {NoScope, observed} THEN "match" ELSE "mismatch"

\* The exit the canary observed against the one that was asked for.
verifyGeography(scope, observed) ==
    IF observed = "unavailable" THEN "unverifiable"
    ELSE IF scope \in {NoScope, observed} THEN "match"
    ELSE "mismatch"

\* Mutant of Accepted: any answer of the canary shows that it can be reached.
AcceptedAny(code) == code \in {200, 401, 409, 429}

\* responseBody: an answer other than 200 is an error.
Accepted(code) == code = 200

Handled == spent' = [spent EXCEPT !.handled = @ + 1]

\* What the probe makes of an answer to the request it waits for.
ProbeAnswered(code, observed) ==
    CASE Accepted(code) /\ probe.pc = "proxied" ->
            /\ Conclude(Verdict("success", probe.scope, verifyGeography(probe.scope, observed)))
            /\ Handled /\ UNCHANGED <<passive, sent>>
      [] Accepted(code) /\ probe.pc = "direct" ->
            /\ Conclude(Verdict("proxy_failure", probe.scope, "unverifiable"))
            /\ Handled /\ UNCHANGED <<passive, sent>>
      [] ~Accepted(code) /\ probe.pc = "proxied" -> SendControl(1)
      [] ~Accepted(code) /\ probe.pc = "direct" -> Inconclusive /\ Handled

\* A challenge reaches a canary, perhaps not for the first time.  GeoIP finds the
\* geography of the address or it does not.
HandleChallenge(c, m, observed) ==
    LET after == Counted(c, m.from)
        code == StatusCode(after, m)
    IN  /\ spent.handled < MaxHandled
        /\ canary' = [canary EXCEPT ![c] =
               IF code = 200 THEN [after EXCEPT !.used = @ \cup {[id |-> m.id, expiresAt |-> m.expiresAt]}]
               ELSE after]
        /\ history' = [history EXCEPT !.completed =
               IF code = 200 THEN Append(@, [id |-> m.id, by |-> c, at |-> clock,
                                               observed |-> IF m.from = "exit" THEN observed ELSE None])
               ELSE @]
        /\ \/ probe.pc # "idle" /\ probe.id = m.id /\ ProbeAnswered(code, observed)
           \/ Handled /\ UNCHANGED <<memory, sent>>
        /\ UNCHANGED <<clock, route, server, stored>>

\* A malformed or oversized body counts, and changes nothing else.
HandleMalformed(c, from) ==
    /\ spent.handled < MaxHandled /\ Handled
    /\ canary' = [canary EXCEPT ![c] = Counted(c, from)]
    /\ UNCHANGED <<clock, route, server, memory, stored, sent, history>>

----------------------------------------------------------------------------
(* The rest of refresh                                                       *)

\* The latest snapshot is read and the next one built, later than it.
Build(r) ==
    LET evidence == [health |-> refresh[r].health, passive |-> refresh[r].passive,
                     pressed |-> refresh[r].pressed, verdict |-> lastVerdict, previous |-> stored.latest]
        generatedAt == Max({refresh[r].now, stored.latest.generatedAt + 1})
    IN  /\ At(r, "reading")
        /\ refresh' = [refresh EXCEPT ![r] =
               [Idle EXCEPT !.pc = "saving", !.now = refresh[r].now, !.forced = refresh[r].forced,
                            !.snapshot = buildSnapshot(evidence, generatedAt)]]
        /\ UNCHANGED <<clock, route, server, passive, lastVerdict, validator, probe, stored, sent, canary,
                       spent, history>>

\* Its key is the time it was generated; the latest is the one with the greatest.
SaveSnapshot(r) ==
    /\ At(r, "saving")
    /\ stored' = [stored EXCEPT !.latest =
           IF refresh[r].snapshot.generatedAt >= @.generatedAt THEN refresh[r].snapshot ELSE @]
    /\ refresh' = [refresh EXCEPT ![r] = Idle]
    /\ server' = "running"
    /\ UNCHANGED <<clock, route, passive, lastVerdict, validator, probe, sent, canary, spent, history>>

Cleared ==
    /\ passive' = <<>> /\ lastVerdict' = NoVerdict /\ validator' = NoResult /\ probe' = NoProbe
    /\ refresh' = [r \in Refreshes |-> Idle]
    /\ server' = "stopped"

\* A health check or a request to the store fails, and the refresh with it; the service
\* does not start without its first refresh.
Fail(r) ==
    /\ refresh[r].pc \notin {"idle", "validating"}
    /\ \/ server = "running" /\ refresh' = [refresh EXCEPT ![r] = Idle]
          /\ UNCHANGED <<server, passive, lastVerdict, validator, probe>>
       \/ server = "starting" /\ Cleared
    /\ UNCHANGED <<clock, route, stored, sent, canary, spent, history>>

\* The process of the aggregator ends.
Exit ==
    /\ server # "stopped" /\ spent.exits < MaxExits
    /\ Cleared
    /\ spent' = [spent EXCEPT !.exits = @ + 1]
    /\ UNCHANGED <<clock, route, stored, sent, canary, history>>

\* The usage accounting service stores evidence of capacity pressure.
SaveCapacityPressure(p) ==
    /\ spent.events < MaxEvents
    /\ stored' = [stored EXCEPT !.pressure[p] = clock]
    /\ spent' = [spent EXCEPT !.events = @ + 1]
    /\ UNCHANGED <<clock, route, server, memory, sent, canary, history>>

Tick ==
    /\ clock < MaxTime
    /\ clock' = clock + 1
    /\ UNCHANGED <<route, server, memory, stored, sent, canary, spent, history>>

Observations == Geographies \cup {"unavailable"}

Requests(r) ==
    \/ Start(r) \/ Timer(r)
    \/ \E s \in Signals, d \in Delays : PostSignal(r, s, clock - d)
    \/ \E scope \in Scopes : Validate(r, scope)

Refreshing(r) ==
    \/ \E health \in Reports : Collect(r, health)
    \/ SkipValidation(r) \/ JoinProbe(r) \/ UseLastResult(r) \/ StartProbe(r) \/ NoRoute(r)
    \/ Build(r) \/ SaveSnapshot(r)
    \/ Fail(r)

Next ==
    \/ \E r \in Refreshes : Requests(r) \/ Refreshing(r)
    \/ ProbeRequestFails
    \/ \E c \in Canaries, m \in sent, o \in Observations : HandleChallenge(c, m, o)
    \/ \E c \in Canaries, from \in Addresses : HandleMalformed(c, from)
    \/ Exit
    \/ \E p \in Providers : SaveCapacityPressure(p)
    \/ Tick

Spec == Init /\ [][Next]_vars
----------------------------------------------------------------------------
(* Properties                                                                *)

Completed == {history.completed[i] : i \in DOMAIN history.completed}

\* A canary completes a challenge at most once and only while it is valid, however late
\* and however often it arrives: the purge of used challenges at the beginning of a minute
\* never forgets one that would still be accepted (PublicCanary.handle).
ChallengesCompleteOnce ==
    \A i, j \in DOMAIN history.completed :
        /\ history.completed[i].id = history.completed[j].id /\ history.completed[i].by = history.completed[j].by
              => i = j
        /\ \A m \in sent : m.id = history.completed[i].id => history.completed[i].at <= m.expiresAt

\* Every new verdict is about the scope its probe was started for, and rests on what a
\* canary did: a success on the proxied challenge of that probe having been completed in
\* the instant it is dated, and of the geography it says what that canary observed of the
\* exit; a proxy failure on the direct control challenge having been completed then.
\* Without an observation nothing is said of a geography (SignedCanaryProbe.run,
\* verifyGeography).
VerdictsAreGrounded ==
    [][validator'.result # validator.result =>
          LET verdict == validator'.result
              rests(label) == {d \in Completed' : d.id = probe.id /\ d.at = verdict.checkedAt /\ probe.pc = label}
          IN  /\ verdict.outcome \in {"success", "proxy_failure"} => verdict.expected = probe.scope
              /\ verdict.outcome = "success" =>
                    \E d \in rests("proxied") :
                        /\ (verdict.geography = "unverifiable") = (d.observed = "unavailable")
                        /\ (verdict.geography = "match")
                              = (d.observed # "unavailable" /\ probe.scope \in {NoScope, d.observed})
              /\ verdict.outcome = "proxy_failure" => rests("direct") # {}
              /\ verdict.outcome \in {"proxy_failure", "inconclusive"} => verdict.geography = "unverifiable"]_vars

\* The evidence kept for a geography is evidence about that geography: a passive entry is a
\* signal that was received for it; a synthetic entry dates from an exit that a canary
\* located, operational if there and degraded if elsewhere.  It is so although a validation
\* request may be answered by a probe of another scope, in flight or cooling down, although
\* entries are carried from snapshot to snapshot by overlapping refreshes, and over restarts.
GeographiesAreWitnessed ==
    \A g \in Geographies :
        LET entry == stored.latest.geographies[g]
        IN  CASE entry.source = None -> TRUE
              [] entry.source = "passive" ->
                    \E s \in history.received :
                        /\ s.geography = g /\ s.observedAt = entry.validatedAt
                        /\ (s.outcome = "success") = (entry.status = "operational")
              [] entry.source = "synthetic" ->
                    \E d \in Completed :
                        /\ d.observed \in Geographies /\ d.at = entry.validatedAt
                        /\ (d.observed = g) = (entry.status = "operational")

\* More bad evidence never improves the status of a traffic capability, and one is
\* unavailable exactly when every provider says it is unhealthy: neither failing traffic,
\* nor pressure, nor a synthetic verdict declares an outage or conceals one.  (About
\* #buildSnapshot, for all combinations of evidence; evaluated before anything happens.)
StatusFollowsEvidence ==
    server = "stopped" /\ clock = 1 /\ spent.refreshes = 0 /\ spent.events = 0 =>
        \A w \in Worlds, name \in Traffic :
            /\ TrafficStatus(w, name) = "unavailable" <=> \A p \in Providers : w.health[p] = "unhealthy"
            /\ \A v \in Worse(w) : Badness(TrafficStatus(v, name)) >= Badness(TrafficStatus(w, name))

===============================================================================
