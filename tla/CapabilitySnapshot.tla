-------------------------- MODULE CapabilitySnapshot --------------------------
(***************************************************************************)
(* What a capability-health snapshot says of the evidence it is built from *)
(* (#buildSnapshot in health-aggregator.ts, domain/health.ts).             *)
(*                                                                         *)
(* Evidence is a record of the providers' reported health, the recent      *)
(* passive signals at the places in which their keys were first recorded,  *)
(* the providers under capacity pressure, the last synthetic verdict and   *)
(* the previous snapshot.  A geography stands for a country and city;      *)
(* messages and providerStatusAt are left out.  Times are natural numbers, *)
(* Never (no timestamp) the least.                                         *)
(***************************************************************************)
EXTENDS Integers, Sequences, FiniteSets, FiniteSetsExt

CONSTANTS
    Providers,    \* the provider adapters
    ClassOf,      \* providerClass of their descriptors
    Geographies   \* the countries and cities that evidence is kept for

Never == 0
None == "none"

ASSUME SnapshotConstants ==
    /\ ClassOf \in [Providers -> {"device_backed", "residential"}]
    /\ None \notin Geographies

HealthStates == {"healthy", "degraded", "unhealthy"}
Statuses == {"operational", "degraded", "unavailable"}
Traffic == {"all_traffic", "managed_sessions", "stateless_traffic"}
Capabilities == Traffic \cup {"health_verification"}

\* No synthetic validation has run; there is no evidence for a geography; no snapshot.
NoVerdict == [outcome |-> None, checkedAt |-> Never, expected |-> None, geography |-> None]
NoEvidence == [status |-> None, validatedAt |-> Never, source |-> None]
NoSnapshot == [generatedAt |-> Never,
               status      |-> [c \in Capabilities |-> None],
               validatedAt |-> [c \in Capabilities |-> Never],
               geographies |-> [g \in Geographies |-> NoEvidence]]

----------------------------------------------------------------------------
(* Statuses                                                                  *)

\* A healthy provider under capacity pressure counts as degraded.
State(evidence, p) ==
    IF evidence.health[p] = "healthy" /\ p \in evidence.pressed THEN "degraded" ELSE evidence.health[p]

\* Mutant of preferredClassStatus: without a usable preferred provider the other class
\* counts as if it were preferred.
preferredClassStatusOfAny(evidence, class) ==
    LET preferred == {p \in Providers : ClassOf[p] = class}
        some(ps, states) == \E p \in ps : State(evidence, p) \in states
    IN  IF some(preferred, {"healthy"}) THEN "operational"
        ELSE IF some(preferred, {"degraded"}) THEN "degraded"
        ELSE IF some(Providers, {"healthy"}) THEN "operational"
        ELSE IF some(Providers, {"degraded"}) THEN "degraded"
        ELSE "unavailable"

preferredClassStatus(evidence, class) ==
    LET preferred == {p \in Providers : ClassOf[p] = class}
        some(ps, states) == \E p \in ps : State(evidence, p) \in states
    IN  IF some(preferred, {"healthy"}) THEN "operational"
        ELSE IF some(preferred, {"degraded"}) THEN "degraded"
        ELSE IF some(Providers, {"healthy", "degraded"}) THEN "degraded"
        ELSE "unavailable"

combinedTrafficStatus(managed, stateless) ==
    IF managed = stateless THEN managed ELSE "degraded"

\* The signals about a capability.
About(evidence, name) ==
    {s \in {evidence.passive[i] : i \in DOMAIN evidence.passive} : s.capability \in {name, "all_traffic"}}

\* Failing traffic degrades a capability that its providers report as operational.
WithTraffic(evidence, name, status) ==
    IF /\ status = "operational"
       /\ \/ \E s \in About(evidence, name) : s.outcome = "failure"
          \/ evidence.verdict.outcome = "proxy_failure"
    THEN "degraded" ELSE status

TrafficStatus(evidence, name) ==
    LET managed == WithTraffic(evidence, "managed_sessions", preferredClassStatus(evidence, "device_backed"))
        stateless == WithTraffic(evidence, "stateless_traffic", preferredClassStatus(evidence, "residential"))
    IN  CASE name = "managed_sessions" -> managed
          [] name = "stateless_traffic" -> stateless
          [] name = "all_traffic" -> WithTraffic(evidence, name, combinedTrafficStatus(managed, stateless))

\* Without a verdict of this process the previous status of the canary is kept.
canaryStatus(evidence) ==
    LET previous == evidence.previous.status["health_verification"]
    IN  IF evidence.verdict = NoVerdict THEN IF previous = None THEN "degraded" ELSE previous
        ELSE IF \/ evidence.verdict.outcome = "inconclusive"
                \/ evidence.verdict.outcome = "success" /\ evidence.verdict.geography # "match"
             THEN "degraded"
        ELSE "operational"

----------------------------------------------------------------------------
(* Validation times and geographies                                          *)

\* A passive failure validates as well as a success does; of the verdicts only a success.
validationAt(evidence, name) ==
    Max({s.observedAt : s \in About(evidence, name)}
        \cup {IF evidence.verdict.outcome = "success" THEN evidence.verdict.checkedAt ELSE Never}
        \cup {evidence.previous.validatedAt[name]})

canaryValidatedAt(evidence) ==
    IF evidence.verdict = NoVerdict
    THEN evidence.previous.validatedAt["health_verification"]
    ELSE evidence.verdict.checkedAt

\* The passive signal whose key was recorded last decides, whichever is newer.
PassiveEvidence(evidence, g) ==
    LET at == {i \in DOMAIN evidence.passive : evidence.passive[i].geography = g}
        signal == evidence.passive[Max(at)]
    IN  IF at = {} THEN evidence.previous.geographies[g]
        ELSE [status      |-> IF signal.outcome = "success" THEN "operational" ELSE "degraded",
              validatedAt |-> signal.observedAt,
              source      |-> "passive"]

\* Mutant of GeographyEvidence: a verdict is evidence for whichever geography is looked at.
GeographyEvidenceOfAny(evidence, g) ==
    IF evidence.verdict.expected \in Geographies /\ evidence.verdict.geography # "unverifiable"
    THEN [status      |-> IF /\ evidence.verdict.outcome = "success"
                             /\ evidence.verdict.geography = "match"
                          THEN "operational" ELSE "degraded",
          validatedAt |-> evidence.verdict.checkedAt,
          source      |-> "synthetic"]
    ELSE PassiveEvidence(evidence, g)

\* A verdict goes over whatever else there is, under the geography it was asked for.
GeographyEvidence(evidence, g) ==
    IF evidence.verdict.expected = g /\ evidence.verdict.geography # "unverifiable"
    THEN [status      |-> IF /\ evidence.verdict.outcome = "success"
                             /\ evidence.verdict.geography = "match"
                          THEN "operational" ELSE "degraded",
          validatedAt |-> evidence.verdict.checkedAt,
          source      |-> "synthetic"]
    ELSE PassiveEvidence(evidence, g)

buildSnapshot(evidence, generatedAt) ==
    [generatedAt |-> generatedAt,
     status      |-> [c \in Capabilities |->
                         IF c = "health_verification" THEN canaryStatus(evidence) ELSE TrafficStatus(evidence, c)],
     validatedAt |-> [c \in Capabilities |->
                         IF c = "health_verification" THEN canaryValidatedAt(evidence) ELSE validationAt(evidence, c)],
     geographies |-> [g \in Geographies |-> GeographyEvidence(evidence, g)]]

----------------------------------------------------------------------------
(* What better and worse evidence may do to a status                         *)

Badness(status) == CASE status \in {"operational", "healthy"} -> 0
                     [] status = "degraded" -> 1
                     [] status \in {"unavailable", "unhealthy"} -> 2

\* A signal about a capability, a verdict about the proxy path.
SignalOf(capability, outcome) ==
    [capability |-> capability, outcome |-> outcome, observedAt |-> 1, geography |-> None]
VerdictOf(outcome) ==
    [outcome |-> outcome, checkedAt |-> 1, expected |-> None, geography |-> "unverifiable"]

\* Evidence without a previous snapshot, from at most one signal.
SignalLists == {<<>>} \cup {<<SignalOf(c, o)>> : c \in Traffic, o \in {"success", "failure"}}
Verdicts == {NoVerdict} \cup {VerdictOf(o) : o \in {"success", "proxy_failure", "inconclusive"}}
Worlds == [health   : [Providers -> HealthStates],
           pressed  : SUBSET Providers,
           passive  : SignalLists,
           verdict  : Verdicts,
           previous : {NoSnapshot}]

\* One provider reports a worse state.
Declines(health) ==
    UNION {{[health EXCEPT ![p] = s] : s \in {t \in HealthStates : Badness(t) > Badness(health[p])}} : p \in Providers}

\* The worlds that have one more piece of bad evidence than w has.
Worse(w) ==
    {[w EXCEPT !.health = h] : h \in Declines(w.health)}
    \cup {[w EXCEPT !.pressed = @ \cup {p}] : p \in Providers}
    \cup {[w EXCEPT !.passive = Append(@, SignalOf(c, "failure"))] : c \in Traffic}
    \cup {[w EXCEPT !.verdict = VerdictOf("proxy_failure")]}
===============================================================================
