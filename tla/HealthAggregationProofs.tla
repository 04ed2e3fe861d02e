------------------------ MODULE HealthAggregationProofs ------------------------
(***************************************************************************)
(* Proofs about HealthAggregation for any number of overlapping refreshes, *)
(* canaries and challenges, any evidence and any durations: that           *)
(* challenges are completed once, that verdicts rest on what a canary did, *)
(* and that what a snapshot says of a geography was observed there.  And   *)
(* about CapabilitySnapshot, for any providers and any evidence: that more *)
(* bad evidence never improves the status of a traffic capability.         *)
(***************************************************************************)
EXTENDS HealthAggregation, SequenceTheorems, FiniteSetTheorems, WellFoundedInduction, TLAPS

----------------------------------------------------------------------------
(* Definitions                                                               *)

Challenges == [id : Nat, expiresAt : Nat, from : Addresses]
Completion == [id : Nat, by : Canaries, at : Nat, observed : Observations \cup {None}]

\* The records that are updated field by field have their fields.
IsCanary(k) == k = [windowMinute |-> k.windowMinute, windows |-> k.windows, used |-> k.used]
IsRefresh(x) ==
    /\ x = [pc |-> x.pc, now |-> x.now, forced |-> x.forced, scope |-> x.scope, health |-> x.health,
            passive |-> x.passive, pressed |-> x.pressed, snapshot |-> x.snapshot]
    /\ x.scope \in Scopes \cup {NoScope}

Shapes ==
    /\ clock \in Nat
    /\ sent \in SUBSET Challenges
    /\ spent \in [refreshes : Nat, events : Nat, handled : Nat, exits : Nat, challenges : Nat]
    /\ canary = [c \in Canaries |-> canary[c]] /\ \A c \in Canaries : IsCanary(canary[c])
    /\ refresh = [r \in Refreshes |-> refresh[r]] /\ \A r \in Refreshes : IsRefresh(refresh[r])
    /\ probe \in [pc : {"idle", "proxied", "direct"}, id : Nat, scope : Scopes \cup {NoScope}]
    /\ stored = [health |-> stored.health, pressure |-> stored.pressure, latest |-> stored.latest]
    /\ history = [received |-> history.received, completed |-> history.completed]
    /\ history.completed \in Seq(Completion)
    /\ passive \in Seq(history.received)

\* A challenge's id is its own, and a completed challenge was sent.
Signed ==
    /\ \A m \in sent : m.id <= spent.challenges
    /\ \A m, n \in sent : m.id = n.id => m = n
    /\ \A i \in DOMAIN history.completed : \E m \in sent : m.id = history.completed[i].id

\* A canary remembers what it completed for as long as it would accept it.
Remembered ==
    \A i \in DOMAIN history.completed, m \in sent :
        m.id = history.completed[i].id /\ m.expiresAt >= clock =>
            \E u \in canary[history.completed[i].by].used : u.id = m.id /\ u.expiresAt = m.expiresAt

ChallengeInv == Shapes /\ Signed /\ Remembered /\ ChallengesCompleteOnce

\* The answer of a proxied request is to a challenge that came from the exit.
ProbeFromExit == probe.pc = "proxied" => \A m \in sent : m.id = probe.id => m.from = "exit"

\* A verdict about a geography dates from a challenge that was completed by an exit that
\* was located, and says whether it was there.
Located(verdict, completed) ==
    verdict.expected \in Geographies /\ verdict.geography # "unverifiable" =>
        \E d \in completed :
            /\ d.observed \in Geographies /\ d.at = verdict.checkedAt
            /\ (d.observed = verdict.expected)
                  = (verdict.outcome = "success" /\ verdict.geography = "match")

\* What GeographiesAreWitnessed says of an entry, stored or about to be.
Witnessed(g, entry, received, completed) ==
    /\ entry.source \in {None, "passive", "synthetic"}
    /\ entry.source = "passive" =>
          \E s \in received : /\ s.geography = g /\ s.observedAt = entry.validatedAt
                              /\ (s.outcome = "success") = (entry.status = "operational")
    /\ entry.source = "synthetic" =>
          \E d \in completed : /\ d.observed \in Geographies /\ d.at = entry.validatedAt
                               /\ (d.observed = g) = (entry.status = "operational")

SnapshotWitnessed(snapshot, received, completed) ==
    \A g \in Geographies : Witnessed(g, snapshot.geographies[g], received, completed)

\* A refresh holds signals that were received, and a witnessed snapshot before it is saved.
Founded(x, places, received, completed) ==
    /\ DOMAIN x.passive \subseteq places
    /\ \A i \in DOMAIN x.passive : x.passive[i] \in received
    /\ x.pc = "saving" => SnapshotWitnessed(x.snapshot, received, completed)

WitnessInv ==
    /\ Shapes /\ ProbeFromExit
    /\ \A m \in sent : m.id <= spent.challenges
    /\ Located(lastVerdict, Completed) /\ Located(validator.result, Completed)
    /\ \A r \in Refreshes : Founded(refresh[r], DOMAIN passive, history.received, Completed)
    /\ SnapshotWitnessed(stored.latest, history.received, Completed)

----------------------------------------------------------------------------
(* The shapes of the records                                                 *)

\* What replacing one refresh leaves.
LEMMA Updated ==
    ASSUME Shapes, NEW r \in Refreshes, NEW x, IsRefresh(x), refresh' = [refresh EXCEPT ![r] = x]
    PROVE  /\ refresh' = [q \in Refreshes |-> refresh'[q]] /\ \A q \in Refreshes : IsRefresh(refresh'[q])
           /\ refresh'[r] = x /\ \A q \in Refreshes \ {r} : refresh'[q] = refresh[q]
BY DEF Shapes

LEMMA BegunRefresh ==
    ASSUME Shapes, NEW r \in Refreshes, NEW forced, NEW scope \in Scopes \cup {NoScope}, Begun(r, forced, scope)
    PROVE  /\ refresh' = [q \in Refreshes |-> refresh'[q]] /\ \A q \in Refreshes : IsRefresh(refresh'[q])
           /\ refresh'[r].pc = "collecting" /\ refresh'[r].passive = <<>>
           /\ \A q \in Refreshes \ {r} : refresh'[q] = refresh[q]
<1>1. PICK x : x = [Idle EXCEPT !.pc = "collecting", !.now = clock, !.forced = forced, !.scope = scope]
  OBVIOUS
<1>2. IsRefresh(x) /\ x.pc = "collecting" /\ x.passive = <<>>
  BY <1>1 DEF IsRefresh, Idle
<1>3. refresh' = [refresh EXCEPT ![r] = x]
  BY <1>1 DEF Begun
<1>4. QED
  BY <1>2, <1>3, Updated

LEMMA ListedRefresh ==
    ASSUME Shapes, NEW r \in Refreshes, NEW label, refresh' = Listed(r, label)
    PROVE  /\ refresh' = [q \in Refreshes |-> refresh'[q]] /\ \A q \in Refreshes : IsRefresh(refresh'[q])
           /\ refresh'[r].pc = label /\ refresh'[r].passive = refresh[r].passive
           /\ \A q \in Refreshes \ {r} : refresh'[q] = refresh[q]
<1>1. PICK x : x = [refresh[r] EXCEPT !.pc = label, !.pressed = Pressed(r)]
  OBVIOUS
<1>2. IsRefresh(x) /\ x.pc = label /\ x.passive = refresh[r].passive
  <2>1. PICK y : y = refresh[r] /\ IsRefresh(y)
    BY DEF Shapes
  <2>2. PICK pressed : pressed = Pressed(r)
    OBVIOUS
  <2>3. x = [y EXCEPT !.pc = label, !.pressed = pressed]
    BY <1>1, <2>1, <2>2
  <2>4. x = [pc |-> label, now |-> y.now, forced |-> y.forced, scope |-> y.scope, health |-> y.health,
             passive |-> y.passive, pressed |-> pressed, snapshot |-> y.snapshot]
    BY <2>1, <2>3 DEF IsRefresh
  <2>5. QED
    BY <2>1, <2>4 DEF IsRefresh
<1>3. refresh' = [refresh EXCEPT ![r] = x]
  BY <1>1 DEF Listed
<1>4. QED
  BY <1>2, <1>3, Updated

\* Those who waited for the probe read on; a refresh keeps its signals.
LEMMA ConcludedRefresh ==
    ASSUME Shapes, NEW verdict, Conclude(verdict)
    PROVE  /\ refresh' = [q \in Refreshes |-> refresh'[q]] /\ \A q \in Refreshes : IsRefresh(refresh'[q])
           /\ \A q \in Refreshes :
                 \/ refresh'[q] = refresh[q]
                 \/ refresh'[q].pc = "reading" /\ refresh'[q].passive = refresh[q].passive
<1>1. ASSUME NEW q \in Refreshes
      PROVE  /\ IsRefresh(refresh'[q])
             /\ \/ refresh'[q] = refresh[q]
                \/ refresh'[q].pc = "reading" /\ refresh'[q].passive = refresh[q].passive
  <2>1. CASE q \in Waiters
    <3>1. refresh'[q] = [refresh[q] EXCEPT !.pc = "reading"]
      BY <2>1 DEF Conclude
    <3>2. QED
      BY <3>1 DEF IsRefresh, Shapes
  <2>2. CASE q \notin Waiters
    BY <2>2 DEF Conclude, Shapes
  <2>3. QED
    BY <2>1, <2>2
<1>2. QED
  BY <1>1 DEF Conclude

LEMMA ClearedRefresh ==
    ASSUME \/ Cleared
           \/ refresh' = [q \in Refreshes |-> Idle]
    PROVE  /\ refresh' = [q \in Refreshes |-> refresh'[q]] /\ \A q \in Refreshes : IsRefresh(refresh'[q])
           /\ \A q \in Refreshes : refresh'[q].pc = "idle" /\ refresh'[q].passive = <<>>
BY DEF Cleared, Idle, IsRefresh

\* A recorded signal joins those that were received, and none loses its place.
LEMMA SignalRecorded ==
    ASSUME NEW S, passive \in Seq(S), NEW signal
    PROVE  /\ recordPassiveSignal(signal) \in Seq(S \cup {signal})
           /\ DOMAIN passive \subseteq DOMAIN recordPassiveSignal(signal)
<1> DEFINE key(s) == <<s.provider, s.capability, s.geography>>
           at == {i \in DOMAIN passive : key(passive[i]) = key(signal)}
           newer == [i \in DOMAIN passive |->
                        IF i \in at /\ passive[i].observedAt < signal.observedAt THEN signal ELSE passive[i]]
<1>1. PICK n \in Nat : passive \in [1 .. n -> S]
  BY SeqDef
<1>2. passive \in Seq(S \cup {signal})
  <2>1. passive \in [1 .. n -> S \cup {signal}]
    BY <1>1
  <2>2. QED
    BY <2>1, SeqDef
<1>3. /\ Append(passive, signal) \in Seq(S \cup {signal})
      /\ DOMAIN passive \subseteq DOMAIN Append(passive, signal)
  BY <1>2
<1>4. newer \in [1 .. n -> S \cup {signal}]
  BY <1>1
<1>5. newer \in Seq(S \cup {signal}) /\ DOMAIN passive = DOMAIN newer
  BY <1>4, SeqDef
<1>6. recordPassiveSignal(signal) = IF at = {} THEN Append(passive, signal) ELSE newer
  BY DEF recordPassiveSignal
<1>7. QED
  BY <1>3, <1>5, <1>6

LEMMA CountedCanary ==
    ASSUME NEW c, NEW from, IsCanary(canary[c])
    PROVE  /\ IsCanary(Counted(c, from))
           /\ Counted(c, from).used \in {canary[c].used, Purged(canary[c].used)}
BY DEF Counted, IsCanary

\* What the probe makes of an answer, case by case.
LEMMA Answered ==
    ASSUME NEW code, NEW observed, probe.pc \in {"proxied", "direct"}, ProbeAnswered(code, observed)
    PROVE  \/ /\ probe.pc = "proxied" /\ Accepted(code)
              /\ Conclude(Verdict("success", probe.scope, verifyGeography(probe.scope, observed)))
              /\ Handled /\ UNCHANGED <<passive, sent>>
           \/ /\ probe.pc = "direct" /\ Accepted(code)
              /\ Conclude(Verdict("proxy_failure", probe.scope, "unverifiable"))
              /\ Handled /\ UNCHANGED <<passive, sent>>
           \/ probe.pc = "proxied" /\ SendControl(1)
           \/ probe.pc = "direct" /\ Inconclusive /\ Handled
BY DEF ProbeAnswered

LEMMA ShapesInit == Init => Shapes
<1> SUFFICES ASSUME Init PROVE Shapes
  OBVIOUS
<1>1. \A c \in Canaries : IsCanary(canary[c])
  BY DEF Init, IsCanary
<1>2. \A r \in Refreshes : IsRefresh(refresh[r])
  BY DEF Init, IsRefresh, Idle
<1>3. history.completed \in Seq(Completion) /\ passive \in Seq(history.received)
  BY DEF Init
<1>4. spent \in [refreshes : Nat, events : Nat, handled : Nat, exits : Nat, challenges : Nat]
  BY DEF Init
<1>5. QED
  BY <1>1, <1>2, <1>3, <1>4 DEF Init, Shapes, NoProbe

\* The parts of Shapes that more than one action changes.
SentShape == sent \in SUBSET Challenges
SpentShape == spent \in [refreshes : Nat, events : Nat, handled : Nat, exits : Nat, challenges : Nat]
CanaryShape == canary = [c \in Canaries |-> canary[c]] /\ \A c \in Canaries : IsCanary(canary[c])
RefreshShape == refresh = [r \in Refreshes |-> refresh[r]] /\ \A r \in Refreshes : IsRefresh(refresh[r])
ProbeShape == probe \in [pc : {"idle", "proxied", "direct"}, id : Nat, scope : Scopes \cup {NoScope}]
StoredShape == stored = [health |-> stored.health, pressure |-> stored.pressure, latest |-> stored.latest]
HistoryShape ==
    /\ history = [received |-> history.received, completed |-> history.completed]
    /\ history.completed \in Seq(Completion)
    /\ passive \in Seq(history.received)

LEMMA ShapeParts ==
    Shapes <=> /\ clock \in Nat /\ SentShape /\ SpentShape /\ CanaryShape /\ RefreshShape /\ ProbeShape
               /\ StoredShape /\ HistoryShape
BY DEF Shapes, SentShape, SpentShape, CanaryShape, RefreshShape, ProbeShape, StoredShape, HistoryShape

LEMMA ChallengeType ==
    ASSUME Shapes, NEW from \in Addresses PROVE Challenge(from) \in Challenges
<1>1. clock \in Nat /\ spent.challenges \in Nat /\ Lifetime \in Nat
  BY ShapeParts, AggregationConstants DEF SpentShape
<1>2. QED
  BY <1>1 DEF Challenge, Challenges

\* A control challenge, and the end of a probe, leave the shapes of what they change.
LEMMA ControlShape ==
    ASSUME Shapes, NEW n \in Nat, SendControl(n)
    PROVE  SentShape' /\ SpentShape' /\ ProbeShape' /\ RefreshShape' /\ passive' = passive
<1>1. SentShape'
  BY ChallengeType DEF SendControl, SentShape, Shapes, Addresses
<1>2. SpentShape' /\ spent.challenges \in Nat
  <2>1. SpentShape /\ spent' = [spent EXCEPT !.challenges = @ + 1, !.handled = @ + n]
    BY ShapeParts DEF SendControl
  <2>2. spent.challenges + 1 \in Nat /\ spent.handled + n \in Nat
    BY <2>1 DEF SpentShape
  <2>3. QED
    BY <2>1, <2>2 DEF SpentShape
<1>3. ProbeShape'
  <2>1. ProbeShape /\ probe' = [probe EXCEPT !.pc = "direct", !.id = spent.challenges + 1]
    BY ShapeParts DEF SendControl
  <2>2. PICK i \in Nat : i = spent.challenges + 1
    BY <1>2
  <2>3. probe' = [probe EXCEPT !.pc = "direct", !.id = i]
    BY <2>1, <2>2
  <2>4. QED
    BY <2>1, <2>3 DEF ProbeShape
<1>4. QED
  BY <1>1, <1>2, <1>3, ShapeParts DEF SendControl, RefreshShape

LEMMA ConcludedShape ==
    ASSUME Shapes, NEW verdict, Conclude(verdict)
    PROVE  ProbeShape' /\ RefreshShape'
<1>1. ProbeShape'
  BY DEF Conclude, ProbeShape, NoProbe
<1>2. QED
  BY <1>1, ConcludedRefresh DEF RefreshShape

LEMMA HandledShape == ASSUME Shapes, Handled PROVE SpentShape'
BY DEF Handled, SpentShape, Shapes

\* A request that reaches a canary leaves its shape.
LEMMA CanaryHandled ==
    ASSUME Shapes, NEW c \in Canaries, NEW from, NEW x, IsCanary(x), canary' = [canary EXCEPT ![c] = x]
    PROVE  CanaryShape'
BY DEF Shapes, CanaryShape

LEMMA SpentCounts ==
    ASSUME Shapes,
           \/ spent' = [spent EXCEPT !.refreshes = @ + 1]
           \/ spent' = [spent EXCEPT !.refreshes = @ + 1, !.events = @ + 1]
           \/ spent' = [spent EXCEPT !.events = @ + 1]
           \/ spent' = [spent EXCEPT !.exits = @ + 1]
           \/ spent' = [spent EXCEPT !.challenges = @ + 1]
    PROVE  SpentShape'
<1>1. SpentShape
  BY ShapeParts
<1>2. spent.refreshes + 1 \in Nat /\ spent.events + 1 \in Nat
     /\ spent.exits + 1 \in Nat /\ spent.challenges + 1 \in Nat
  BY <1>1 DEF SpentShape
<1>3. QED
  BY <1>1, <1>2 DEF SpentShape

\* What begins a refresh, and what one does before it asks for a validation.
LEMMA RequestsShape ==
    ASSUME Shapes, NEW r \in Refreshes, Requests(r) PROVE Shapes'
<1> USE DEF SentShape, CanaryShape, ProbeShape, StoredShape
<1>1. /\ SentShape' /\ CanaryShape' /\ ProbeShape' /\ StoredShape' /\ clock' \in Nat
  BY DEF Requests, Start, Timer, PostSignal, Validate, Shapes
<1>2. RefreshShape'
  BY BegunRefresh DEF Requests, Start, Timer, PostSignal, Validate, RefreshShape
<1>3. SpentShape'
  BY SpentCounts DEF Requests, Start, Timer, PostSignal, Validate
<1>4. HistoryShape'
  <2>1. CASE Start(r) \/ Timer(r) \/ \E scope \in Scopes : Validate(r, scope)
    BY <2>1 DEF Start, Timer, Validate, Shapes, HistoryShape
  <2>2. ASSUME NEW s \in Signals, NEW d \in Delays, PostSignal(r, s, clock - d) PROVE HistoryShape'
    <3>1. PICK signal : /\ passive' = recordPassiveSignal(signal)
                        /\ history' = [history EXCEPT !.received = @ \cup {signal}]
      BY <2>2 DEF PostSignal
    <3>2. passive' \in Seq(history.received \cup {signal})
      BY <3>1, SignalRecorded DEF Shapes
    <3>3. /\ history'.received = history.received \cup {signal} /\ history'.completed = history.completed
          /\ history' = [received |-> history'.received, completed |-> history'.completed]
      BY <3>1 DEF Shapes
    <3>4. QED
      BY <3>2, <3>3 DEF HistoryShape, Shapes
  <2>3. QED
    BY <2>1, <2>2 DEF Requests
<1>5. QED
  BY <1>1, <1>2, <1>3, <1>4 DEF Shapes, SpentShape, RefreshShape, HistoryShape

\* What Collect makes of a refresh.
LEMMA CollectedRefresh ==
    ASSUME Shapes, NEW r \in Refreshes, NEW health, Collect(r, health)
    PROVE  /\ RefreshShape' /\ refresh'[r].pc = "listing"
           /\ DOMAIN refresh'[r].passive \subseteq DOMAIN passive
           /\ \A i \in DOMAIN refresh'[r].passive : refresh'[r].passive[i] = passive[i]
           /\ \A q \in Refreshes \ {r} : refresh'[q] = refresh[q]
<1>1. PICK recent : /\ recent \subseteq DOMAIN passive
                    /\ refresh' = [refresh EXCEPT ![r] = [@ EXCEPT !.pc = "listing", !.health = health,
                                                                 !.passive = [i \in recent |-> passive[i]]]]
  BY DEF Collect
<1>2. PICK signals : signals = [i \in recent |-> passive[i]]
  OBVIOUS
<1>3. PICK y : y = refresh[r] /\ IsRefresh(y)
  BY DEF Shapes
<1>4. PICK x : x = [y EXCEPT !.pc = "listing", !.health = health, !.passive = signals]
  OBVIOUS
<1>5. x = [pc |-> "listing", now |-> y.now, forced |-> y.forced, scope |-> y.scope, health |-> health,
           passive |-> signals, pressed |-> y.pressed, snapshot |-> y.snapshot]
  BY <1>3, <1>4 DEF IsRefresh
<1>6. refresh' = [refresh EXCEPT ![r] = x]
  BY <1>1, <1>2, <1>3, <1>4
<1>7. IsRefresh(x) /\ x.pc = "listing" /\ x.passive = signals
  BY <1>3, <1>5 DEF IsRefresh
<1>8. DOMAIN signals \subseteq DOMAIN passive /\ \A i \in DOMAIN signals : signals[i] = passive[i]
  BY <1>1, <1>2
<1>9. /\ RefreshShape' /\ refresh'[r] = x
      /\ \A q \in Refreshes \ {r} : refresh'[q] = refresh[q]
  BY <1>6, <1>7, Updated DEF RefreshShape
<1>10. QED
  BY <1>7, <1>8, <1>9

\* What Build makes of a refresh.
LEMMA BuiltRefresh ==
    ASSUME Shapes, NEW r \in Refreshes, Build(r)
    PROVE  /\ RefreshShape' /\ refresh'[r].pc = "saving" /\ refresh'[r].passive = <<>>
           /\ \E at : refresh'[r].snapshot = buildSnapshot(
                  [health |-> refresh[r].health, passive |-> refresh[r].passive, pressed |-> refresh[r].pressed,
                   verdict |-> lastVerdict, previous |-> stored.latest], at)
           /\ \A q \in Refreshes \ {r} : refresh'[q] = refresh[q]
<1> DEFINE evidence == [health |-> refresh[r].health, passive |-> refresh[r].passive, pressed |-> refresh[r].pressed,
                        verdict |-> lastVerdict, previous |-> stored.latest]
<1>1. PICK at : refresh' = [refresh EXCEPT ![r] =
                   [Idle EXCEPT !.pc = "saving", !.now = refresh[r].now, !.forced = refresh[r].forced,
                                !.snapshot = buildSnapshot(evidence, at)]]
  BY DEF Build
<1>2. PICK snapshot : snapshot = buildSnapshot(evidence, at)
  OBVIOUS
<1>3. PICK x : x = [Idle EXCEPT !.pc = "saving", !.now = refresh[r].now, !.forced = refresh[r].forced,
                                !.snapshot = snapshot]
  OBVIOUS
<1>4. IsRefresh(x) /\ x.pc = "saving" /\ x.passive = <<>> /\ x.snapshot = snapshot
  BY <1>3 DEF IsRefresh, Idle
<1>5. refresh' = [refresh EXCEPT ![r] = x]
  BY <1>1, <1>2, <1>3
<1>6. QED
  BY <1>2, <1>4, <1>5, Updated DEF RefreshShape

LEMMA IdleRefresh ==
    ASSUME Shapes, NEW r \in Refreshes, refresh' = [refresh EXCEPT ![r] = Idle]
    PROVE  /\ RefreshShape' /\ refresh'[r].pc = "idle" /\ refresh'[r].passive = <<>>
           /\ \A q \in Refreshes \ {r} : refresh'[q] = refresh[q]
<1>1. IsRefresh(Idle) /\ Idle.pc = "idle" /\ Idle.passive = <<>>
  BY DEF IsRefresh, Idle
<1>2. QED
  BY <1>1, Updated DEF RefreshShape

LEMMA StartedProbe ==
    ASSUME Shapes, NEW r \in Refreshes, StartProbe(r) PROVE SentShape' /\ SpentShape' /\ ProbeShape'
<1>1. SentShape'
  BY ChallengeType DEF StartProbe, SentShape, Shapes, Addresses
<1>2. SpentShape' /\ spent.challenges + 1 \in Nat
  <2>1. spent.challenges + 1 \in Nat
    BY ShapeParts DEF SpentShape
  <2>2. QED
    BY <2>1, SpentCounts DEF StartProbe
<1>3. ProbeShape'
  <2>1. PICK i \in Nat : i = spent.challenges + 1
    BY <1>2
  <2>2. refresh[r].scope \in Scopes \cup {NoScope}
    BY ShapeParts DEF RefreshShape, IsRefresh
  <2>3. probe' = [pc |-> "proxied", id |-> i, scope |-> refresh[r].scope]
    BY <2>1 DEF StartProbe
  <2>4. QED
    BY <2>2, <2>3 DEF ProbeShape
<1>4. QED
  BY <1>1, <1>2, <1>3

LEMMA RefreshingShape ==
    ASSUME Shapes, NEW r \in Refreshes, Refreshing(r) PROVE Shapes'
<1>1. clock' \in Nat /\ CanaryShape' /\ StoredShape'
  BY DEF Refreshing, Collect, SkipValidation, JoinProbe, UseLastResult, StartProbe, NoRoute, Build,
         SaveSnapshot,
         Fail, Cleared, Shapes, CanaryShape, StoredShape
<1>2. SentShape' /\ SpentShape' /\ ProbeShape'
  <2>1. CASE StartProbe(r)
    BY <2>1, StartedProbe
  <2>2. CASE ~StartProbe(r)
    <3>1. sent' = sent /\ spent' = spent /\ (probe' = probe \/ probe' = NoProbe)
      BY <2>2 DEF Refreshing, Collect, SkipValidation, JoinProbe, UseLastResult, NoRoute, Build, SaveSnapshot,
                  Fail, Cleared
    <3>2. QED
      BY <3>1, ShapeParts DEF SentShape, SpentShape, ProbeShape, NoProbe
  <2>3. QED
    BY <2>1, <2>2
<1>3. RefreshShape'
  <2>1. CASE SkipValidation(r) \/ JoinProbe(r) \/ UseLastResult(r) \/ StartProbe(r) \/ NoRoute(r)
    BY <2>1, ListedRefresh DEF SkipValidation, JoinProbe, UseLastResult, StartProbe, NoRoute, RefreshShape
  <2>2. CASE SaveSnapshot(r)
    BY <2>2, IdleRefresh DEF SaveSnapshot
  <2>3. CASE Fail(r)
    BY <2>3, IdleRefresh, ClearedRefresh DEF Fail, RefreshShape
  <2>4. QED
    BY <2>1, <2>2, <2>3, CollectedRefresh, BuiltRefresh DEF Refreshing
<1>4. HistoryShape'
  <2>1. CASE Fail(r)
    <3>1. history' = history /\ (passive' = passive \/ passive' = <<>>)
      BY <2>1 DEF Fail, Cleared
    <3>2. passive' \in Seq(history.received)
      <4>1. passive \in Seq(history.received)
        BY ShapeParts DEF HistoryShape
      <4>2. <<>> \in Seq(history.received)
        OBVIOUS
      <4>3. QED
        BY <3>1, <4>1, <4>2
    <3>3. QED
      BY <3>1, <3>2, ShapeParts DEF HistoryShape
  <2>2. CASE ~Fail(r)
    BY <2>2 DEF Refreshing, Collect, SkipValidation, JoinProbe, UseLastResult, StartProbe, NoRoute, Build,
                SaveSnapshot, Shapes, HistoryShape
  <2>3. QED
    BY <2>1, <2>2
<1>5. QED
  BY <1>1, <1>2, <1>3, <1>4 DEF Shapes, SentShape, SpentShape, CanaryShape, RefreshShape, ProbeShape,
         StoredShape,
                                HistoryShape

\* What a probe does when its request fails or is answered.
LEMMA ProbeStepShape ==
    ASSUME Shapes,
           \/ \E n \in {0, 1} : SendControl(n)
           \/ Inconclusive /\ (UNCHANGED spent \/ Handled)
           \/ \E verdict : Conclude(verdict) /\ Handled /\ UNCHANGED <<passive, sent>>
           \/ Handled /\ UNCHANGED <<memory, sent>>
    PROVE  SentShape' /\ SpentShape' /\ ProbeShape' /\ RefreshShape' /\ passive' = passive
<1>1. CASE \E n \in {0, 1} : SendControl(n)
  BY <1>1, ControlShape
<1>2. CASE Inconclusive /\ (UNCHANGED spent \/ Handled)
  <2>1. ProbeShape' /\ RefreshShape'
    BY <1>2, ConcludedShape DEF Inconclusive
  <2>2. SpentShape'
    BY <1>2, HandledShape, ShapeParts DEF SpentShape
  <2>3. QED
    BY <1>2, <2>1, <2>2, ShapeParts DEF Inconclusive, SentShape
<1>3. CASE \E verdict : Conclude(verdict) /\ Handled /\ UNCHANGED <<passive, sent>>
  BY <1>3, ConcludedShape, HandledShape, ShapeParts DEF SentShape
<1>4. CASE Handled /\ UNCHANGED <<memory, sent>>
  BY <1>4, HandledShape, ShapeParts DEF SentShape, ProbeShape, RefreshShape, memory
<1>5. QED
  BY <1>1, <1>2, <1>3, <1>4

\* A challenge that is handled: what the canary makes of it, what is completed, and the
\* probe's step.
LEMMA HandledChallenge ==
    ASSUME Shapes, NEW c \in Canaries, NEW m \in sent, NEW observed \in Observations,
           HandleChallenge(c, m, observed)
    PROVE  /\ CanaryShape' /\ HistoryShape'
           /\ \/ \E n \in {0, 1} : SendControl(n)
              \/ Inconclusive /\ (UNCHANGED spent \/ Handled)
              \/ \E verdict : Conclude(verdict) /\ Handled /\ UNCHANGED <<passive, sent>>
              \/ Handled /\ UNCHANGED <<memory, sent>>
<1> DEFINE after == Counted(c, m.from)
           code == StatusCode(after, m)
           done == [id |-> m.id, by |-> c, at |-> clock, observed |-> IF m.from = "exit" THEN observed ELSE None]
           completed == IF code = 200 THEN Append(history.completed, done) ELSE history.completed
<1>1. \/ \E n \in {0, 1} : SendControl(n)
      \/ Inconclusive /\ (UNCHANGED spent \/ Handled)
      \/ \E verdict : Conclude(verdict) /\ Handled /\ UNCHANGED <<passive, sent>>
      \/ Handled /\ UNCHANGED <<memory, sent>>
  <2>1. CASE probe.pc # "idle" /\ ProbeAnswered(code, observed)
    <3>1. probe.pc \in {"proxied", "direct"}
      BY <2>1, ShapeParts DEF ProbeShape
    <3>2. QED
      BY <2>1, <3>1, Answered
  <2>2. QED
    BY <2>1 DEF HandleChallenge
<1>2. CanaryShape'
  <2>1. IsCanary(after)
    BY CountedCanary DEF Shapes
  <2>2. PICK x : x = IF code = 200 THEN [after EXCEPT !.used = @ \cup {[id |-> m.id, expiresAt |-> m.expiresAt]}]
                     ELSE after
    OBVIOUS
  <2>3. IsCanary(x)
    BY <2>1, <2>2 DEF IsCanary
  <2>4. canary' = [canary EXCEPT ![c] = x]
    BY <2>2 DEF HandleChallenge
  <2>5. QED
    BY <2>3, <2>4, CanaryHandled
<1>3. HistoryShape'
  <2>1. history' = [history EXCEPT !.completed = IF code = 200 THEN Append(@, done) ELSE @]
    BY DEF HandleChallenge
  <2>2. done \in Completion
    BY DEF Shapes, Challenges, Completion
  <2>3. history.completed \in Seq(Completion)
    BY DEF Shapes
  <2>4. completed \in Seq(Completion)
    <3> HIDE DEF done, code
    <3>1. QED
      BY <2>2, <2>3
  <2>5. /\ history' = [received |-> history'.received, completed |-> history'.completed]
        /\ history'.received = history.received /\ history'.completed = completed
    <3> HIDE DEF done, code
    <3>1. QED
      BY <2>1 DEF Shapes
  <2>6. passive' = passive
    BY <1>1, ProbeStepShape
  <2>7. QED
    <3> HIDE DEF completed
    <3>1. QED
      BY <2>4, <2>5, <2>6 DEF HistoryShape, Shapes
<1>4. QED
  BY <1>1, <1>2, <1>3

LEMMA ShapesNext == ASSUME Shapes, [Next]_vars PROVE Shapes'
<1> USE DEF SentShape, SpentShape, CanaryShape, RefreshShape, ProbeShape, StoredShape, HistoryShape
<1>1. CASE \E r \in Refreshes : Requests(r) \/ Refreshing(r)
  BY <1>1, RequestsShape, RefreshingShape
<1>2. CASE ProbeRequestFails
  <2>1. SentShape' /\ SpentShape' /\ ProbeShape' /\ RefreshShape' /\ passive' = passive
    BY <1>2, ProbeStepShape DEF ProbeRequestFails
  <2>2. QED
    BY <1>2, <2>1 DEF ProbeRequestFails, Shapes
<1>3. CASE \E c \in Canaries, m \in sent, o \in Observations : HandleChallenge(c, m, o)
  <2>1. PICK c \in Canaries, m \in sent, o \in Observations : HandleChallenge(c, m, o)
    BY <1>3
  <2>2. CanaryShape' /\ HistoryShape' /\ SentShape' /\ SpentShape' /\ ProbeShape' /\ RefreshShape'
    BY ONLY <2>1, HandledChallenge, ProbeStepShape, Shapes
  <2>3. QED
    BY <2>1, <2>2 DEF HandleChallenge, Shapes
<1>4. CASE \E c \in Canaries, from \in Addresses : HandleMalformed(c, from)
  <2>1. PICK c \in Canaries, from \in Addresses : HandleMalformed(c, from)
    BY <1>4
  <2>2. CanaryShape'
    BY <2>1, CountedCanary, CanaryHandled DEF HandleMalformed, Shapes
  <2>3. SpentShape'
    BY <2>1, HandledShape DEF HandleMalformed
  <2>4. QED
    BY <2>1, <2>2, <2>3 DEF HandleMalformed, Shapes, memory
<1>5. CASE Exit
  <2>1. SpentShape'
    BY <1>5, SpentCounts DEF Exit
  <2>2. RefreshShape'
    BY <1>5, ClearedRefresh DEF Exit
  <2>3. QED
    BY <1>5, <2>1, <2>2 DEF Exit, Cleared, NoProbe, Shapes
<1>6. CASE \E p \in Providers : SaveCapacityPressure(p)
  <2>1. SpentShape'
    BY <1>6, SpentCounts DEF SaveCapacityPressure
  <2>2. StoredShape'
    BY <1>6 DEF SaveCapacityPressure, Shapes
  <2>3. QED
    BY <1>6, <2>1, <2>2 DEF SaveCapacityPressure, Shapes, memory
<1>7. CASE Tick
  BY <1>7 DEF Tick, Shapes, memory
<1>8. CASE UNCHANGED vars
  BY <1>8 DEF vars, Shapes, memory
<1>9. QED
  BY <1>1, <1>2, <1>3, <1>4, <1>5, <1>6, <1>7, <1>8 DEF Next

----------------------------------------------------------------------------
(* A challenge is completed once                                             *)

\* A step sends no challenge, or one with an id of its own.
Sending ==
    \/ sent' = sent /\ spent'.challenges = spent.challenges
    \/ \E x \in Challenges : /\ x.id = spent.challenges + 1 /\ x.expiresAt = clock + Lifetime
                             /\ x.from = IF probe'.pc = "proxied" THEN "exit" ELSE "direct"
                             /\ sent' = sent \cup {x} /\ spent'.challenges = spent.challenges + 1
                             /\ probe'.id = x.id

\* A step completes nothing, or a valid challenge that its canary does not know it used;
\* then it knows.
Completes(c, m, done) ==
    /\ done.id = m.id /\ done.by = c /\ done.at = clock /\ m.expiresAt >= clock
    /\ \A u \in canary[c].used : u.id = m.id => ~(u.expiresAt >= clock)
    /\ \E u \in canary'[c].used : u.id = m.id /\ u.expiresAt = m.expiresAt
    /\ history'.completed = Append(history.completed, done)

Completing ==
    \/ history'.completed = history.completed
    \/ \E c \in Canaries, m \in sent, done \in Completion : Completes(c, m, done)

\* A canary forgets only what has expired.
Remembering == \A c \in Canaries : \A u \in canary[c].used : u.expiresAt >= clock => u \in canary'[c].used

LEMMA SpentChallenges ==
    ASSUME Shapes
    PROVE  /\ Handled => spent'.challenges = spent.challenges
           /\ spent' = [spent EXCEPT !.refreshes = @ + 1] => spent'.challenges = spent.challenges
           /\ spent' = [spent EXCEPT !.refreshes = @ + 1, !.events = @ + 1] => spent'.challenges = spent.challenges
           /\ spent' = [spent EXCEPT !.events = @ + 1] => spent'.challenges = spent.challenges
           /\ spent' = [spent EXCEPT !.exits = @ + 1] => spent'.challenges = spent.challenges
           /\ spent' = [spent EXCEPT !.challenges = @ + 1] => spent'.challenges = spent.challenges + 1
           /\ \A n \in Nat : spent' = [spent EXCEPT !.challenges = @ + 1, !.handled = @ + n]
                                => spent'.challenges = spent.challenges + 1
<1>1. SpentShape
  BY ShapeParts
<1>2. QED
  BY <1>1 DEF SpentShape, Handled

LEMMA ControlSending == ASSUME Shapes, NEW n \in Nat, SendControl(n) PROVE Sending
<1>1. PICK x : x = Challenge("direct")
  OBVIOUS
<1>2. x \in Challenges
  BY <1>1, ChallengeType DEF Addresses
<1>3. x.id = spent.challenges + 1 /\ x.expiresAt = clock + Lifetime /\ x.from = "direct"
  BY <1>1 DEF Challenge
<1>4. sent' = sent \cup {x} /\ spent'.challenges = spent.challenges + 1
  BY <1>1, SpentChallenges DEF SendControl
<1>5. probe'.pc = "direct" /\ probe'.id = spent.challenges + 1
  <2>1. PICK i : i = spent.challenges + 1
    OBVIOUS
  <2>2. ProbeShape /\ probe' = [probe EXCEPT !.pc = "direct", !.id = i]
    BY <2>1, ShapeParts DEF SendControl
  <2>3. QED
    BY <2>1, <2>2 DEF ProbeShape
<1>6. QED
  BY <1>2, <1>3, <1>4, <1>5 DEF Sending

LEMMA ProbeSending == ASSUME Shapes, NEW r \in Refreshes, StartProbe(r) PROVE Sending
<1>1. PICK x : x = Challenge("exit")
  OBVIOUS
<1>2. x \in Challenges
  BY <1>1, ChallengeType DEF Addresses
<1>3. x.id = spent.challenges + 1 /\ x.expiresAt = clock + Lifetime /\ x.from = "exit"
  BY <1>1 DEF Challenge
<1>4. sent' = sent \cup {x} /\ spent'.challenges = spent.challenges + 1
  BY <1>1, SpentChallenges DEF StartProbe
<1>5. probe'.pc = "proxied" /\ probe'.id = spent.challenges + 1
  BY DEF StartProbe
<1>6. QED
  BY <1>2, <1>3, <1>4, <1>5 DEF Sending

LEMMA SendingStep == ASSUME Shapes, [Next]_vars PROVE Sending
<1>1. CASE \E r \in Refreshes : Requests(r) \/ Refreshing(r)
  <2>1. PICK r \in Refreshes : Requests(r) \/ Refreshing(r)
    BY <1>1
  <2>2. CASE Requests(r)
    BY <2>2, SpentChallenges DEF Requests, Start, Timer, PostSignal, Validate, Sending
  <2>3. CASE Refreshing(r) /\ ~StartProbe(r)
    <3>1. sent' = sent /\ spent' = spent
      BY <2>3 DEF Refreshing, Collect, SkipValidation, JoinProbe, UseLastResult, NoRoute, Build, SaveSnapshot,
                  Fail, Cleared
    <3>2. QED
      BY <3>1 DEF Sending
  <2>4. QED
    BY <2>1, <2>2, <2>3, ProbeSending
<1>2. CASE ProbeRequestFails
  BY <1>2, ControlSending DEF ProbeRequestFails, Inconclusive, Sending
<1>3. CASE \E c \in Canaries, m \in sent, o \in Observations : HandleChallenge(c, m, o)
  <2>1. PICK c \in Canaries, m \in sent, o \in Observations : HandleChallenge(c, m, o)
    BY <1>3
  <2>2. CASE \E n \in {0, 1} : SendControl(n)
    BY <2>2, ControlSending
  <2>3. CASE Inconclusive /\ (UNCHANGED spent \/ Handled)
    BY <2>3, SpentChallenges DEF Inconclusive, Sending
  <2>4. CASE \E verdict : Conclude(verdict) /\ Handled /\ UNCHANGED <<passive, sent>>
    BY <2>4, SpentChallenges DEF Sending
  <2>5. CASE Handled /\ UNCHANGED <<memory, sent>>
    BY <2>5, SpentChallenges DEF Sending
  <2>6. QED
    BY ONLY <2>1, <2>2, <2>3, <2>4, <2>5, HandledChallenge, Shapes
<1>4. CASE \E c \in Canaries, from \in Addresses : HandleMalformed(c, from)
  BY <1>4, SpentChallenges DEF HandleMalformed, Sending
<1>5. CASE Exit \/ (\E p \in Providers : SaveCapacityPressure(p)) \/ Tick \/ UNCHANGED vars
  BY <1>5, SpentChallenges DEF Exit, SaveCapacityPressure, Tick, vars, Sending
<1>6. QED
  BY <1>1, <1>2, <1>3, <1>4, <1>5 DEF Next

\* What counting a request leaves of a canary's memory.
LEMMA CountedRemembers ==
    ASSUME NEW c, NEW from, IsCanary(canary[c])
    PROVE  /\ Counted(c, from).used \subseteq canary[c].used
           /\ \A u \in canary[c].used : u.expiresAt >= clock => u \in Counted(c, from).used
BY CountedCanary DEF Purged

LEMMA HandledCompletes ==
    ASSUME Shapes, NEW c \in Canaries, NEW m \in sent, NEW observed \in Observations,
           HandleChallenge(c, m, observed)
    PROVE  Completing /\ Remembering
<1> DEFINE after == Counted(c, m.from)
           code == StatusCode(after, m)
           done == [id |-> m.id, by |-> c, at |-> clock, observed |-> IF m.from = "exit" THEN observed ELSE None]
<1>1. IsCanary(canary[c]) /\ IsCanary(after)
  BY CountedCanary DEF Shapes
<1>2. PICK use : use = [id |-> m.id, expiresAt |-> m.expiresAt]
  OBVIOUS
<1>3. PICK x : x = IF code = 200 THEN [after EXCEPT !.used = @ \cup {use}] ELSE after
  OBVIOUS
<1>4. x.used = IF code = 200 THEN after.used \cup {use} ELSE after.used
  BY <1>1, <1>3 DEF IsCanary
<1>5. canary' = [canary EXCEPT ![c] = x]
  BY <1>2, <1>3 DEF HandleChallenge
<1>6. canary'[c] = x /\ \A d \in Canaries \ {c} : canary'[d] = canary[d]
  BY <1>5 DEF Shapes
<1>7. Remembering
  <2>1. \A u \in canary[c].used : u.expiresAt >= clock => u \in x.used
    BY <1>1, <1>4, CountedRemembers
  <2>2. QED
    BY <1>6, <2>1 DEF Remembering
<1>8. history'.completed = IF code = 200 THEN Append(history.completed, done) ELSE history.completed
  <2>1. history' = [history EXCEPT !.completed = IF code = 200 THEN Append(@, done) ELSE @]
    BY DEF HandleChallenge
  <2>2. history = [received |-> history.received, completed |-> history.completed]
    BY DEF Shapes
  <2>3. QED
    <3> HIDE DEF done, code
    <3>1. QED
      BY <2>1, <2>2
<1>9. Completing
  <2>1. CASE code # 200
    BY <1>8, <2>1 DEF Completing
  <2>2. CASE code = 200
    <3>1. done \in Completion
      BY DEF Shapes, Challenges, Completion
    <3>2. verifyCanaryChallenge(m) /\ ~\E u \in after.used : u.id = m.id
      BY <2>2 DEF StatusCode
    <3>3. m.expiresAt >= clock
      BY <3>2 DEF verifyCanaryChallenge
    <3>4. \A u \in canary[c].used : u.id = m.id => ~(u.expiresAt >= clock)
      BY <1>1, <3>2, CountedRemembers
    <3>5. use \in canary'[c].used /\ use.id = m.id /\ use.expiresAt = m.expiresAt
      BY <1>2, <1>4, <1>6, <2>2
    <3>6. history'.completed = Append(history.completed, done)
      BY <1>8, <2>2
    <3>7. done.id = m.id /\ done.by = c /\ done.at = clock
      OBVIOUS
    <3>8. Completes(c, m, done)
      <4> HIDE DEF done, code
      <4>1. QED
        BY <3>3, <3>4, <3>5, <3>6, <3>7 DEF Completes
    <3>9. QED
      BY <3>1, <3>8 DEF Completing
  <2>3. QED
    BY <2>1, <2>2
<1>10. QED
  BY <1>7, <1>9

LEMMA CompletingStep == ASSUME Shapes, [Next]_vars PROVE Completing /\ Remembering
<1>1. CASE \E c \in Canaries, m \in sent, o \in Observations : HandleChallenge(c, m, o)
  BY <1>1, HandledCompletes
<1>2. CASE \E c \in Canaries, from \in Addresses : HandleMalformed(c, from)
  <2>1. PICK c \in Canaries, from \in Addresses : HandleMalformed(c, from)
    BY <1>2
  <2>2. PICK x : x = Counted(c, from)
    OBVIOUS
  <2>3. canary'[c] = x /\ \A d \in Canaries \ {c} : canary'[d] = canary[d]
    BY <2>1, <2>2 DEF HandleMalformed, Shapes
  <2>4. \A u \in canary[c].used : u.expiresAt >= clock => u \in x.used
    BY <2>2, CountedRemembers DEF Shapes
  <2>5. QED
    BY <2>1, <2>3, <2>4 DEF HandleMalformed, Completing, Remembering
<1>3. CASE \E r \in Refreshes, s \in Signals, d \in Delays : PostSignal(r, s, clock - d)
  <2>1. canary' = canary /\ history'.completed = history.completed
    BY <1>3 DEF PostSignal, Shapes
  <2>2. QED
    BY <2>1 DEF Completing, Remembering
<1>4. CASE UNCHANGED <<canary, history>>
  BY <1>4 DEF Completing, Remembering
<1>5. QED
  BY <1>1, <1>2, <1>3, <1>4
     DEF Next, vars, Requests, Refreshing, Start, Timer, Validate, Collect, SkipValidation, JoinProbe,
            UseLastResult,
         StartProbe, NoRoute, Build, SaveSnapshot, Fail, ProbeRequestFails, Exit, SaveCapacityPressure, Tick

\* What is in the log of completions after a step.
LEMMA CompletionsAfter ==
    ASSUME Shapes, NEW c \in Canaries, NEW m \in sent, NEW done \in Completion, Completes(c, m, done)
    PROVE  \A i \in DOMAIN history'.completed :
              \/ i \in DOMAIN history.completed /\ history'.completed[i] = history.completed[i]
              \/ i = Len(history.completed) + 1 /\ i \notin DOMAIN history.completed /\ history'.completed[i] = done
BY DEF Shapes, Completes

\* A completed challenge was sent, so that the id of a new one is free.
LEMMA SignedNext ==
    ASSUME ChallengeInv, Shapes', Sending, Completing
    PROVE  Signed'
<1>1. /\ spent.challenges \in Nat /\ sent \subseteq Challenges /\ sent \subseteq sent'
      /\ history.completed \in Seq(Completion) /\ history'.completed \in Seq(Completion)
  BY DEF ChallengeInv, Shapes, Sending
<1>2. \A m \in sent' : m.id <= spent'.challenges
  BY <1>1 DEF ChallengeInv, Signed, Sending, Challenges
<1>3. \A m, n \in sent' : m.id = n.id => m = n
  BY <1>1 DEF ChallengeInv, Signed, Sending, Challenges
<1>4. \A i \in DOMAIN history'.completed : \E m \in sent' : m.id = history'.completed[i].id
  <2>1. CASE history'.completed = history.completed
    BY <1>1, <2>1 DEF ChallengeInv, Signed
  <2>2. CASE \E c \in Canaries, m \in sent, done \in Completion : Completes(c, m, done)
    <3>1. PICK c \in Canaries, m \in sent, done \in Completion : Completes(c, m, done)
      BY <2>2
    <3>2. ASSUME NEW i \in DOMAIN history'.completed PROVE \E n \in sent' : n.id = history'.completed[i].id
      <4>1. CASE i \in DOMAIN history.completed /\ history'.completed[i] = history.completed[i]
        BY <1>1, <4>1 DEF ChallengeInv, Signed
      <4>2. CASE history'.completed[i] = done
        BY <1>1, <3>1, <4>2 DEF Completes
      <4>3. QED
        BY <3>1, <4>1, <4>2, CompletionsAfter DEF ChallengeInv
    <3>3. QED
      BY <3>2
  <2>3. QED
    BY <2>1, <2>2 DEF Completing
<1>5. QED
  BY <1>2, <1>3, <1>4 DEF Signed

LEMMA RememberedNext ==
    ASSUME ChallengeInv, clock' >= clock, clock' \in Nat, Sending, Completing, Remembering
    PROVE  Remembered'
<1> SUFFICES ASSUME NEW i \in DOMAIN history'.completed, NEW m \in sent',
                    m.id = history'.completed[i].id, m.expiresAt >= clock'
             PROVE  \E u \in canary'[history'.completed[i].by].used : u.id = m.id /\ u.expiresAt = m.expiresAt
  BY DEF Remembered
<1>1. /\ spent.challenges \in Nat /\ clock \in Nat /\ sent \subseteq Challenges
      /\ history.completed \in Seq(Completion)
  BY DEF ChallengeInv, Shapes
<1>2. CASE i \in DOMAIN history.completed /\ history'.completed[i] = history.completed[i]
  <2>1. PICK d \in Completion : d = history.completed[i]
    BY <1>1, <1>2
  <2>2. m \in sent
    BY <1>1, <1>2 DEF ChallengeInv, Signed, Sending, Challenges
  <2>3. m.expiresAt >= clock
    BY <1>1, <2>2 DEF Challenges
  <2>4. PICK u \in canary[d.by].used : u.id = m.id /\ u.expiresAt = m.expiresAt
    BY <1>2, <2>1, <2>2, <2>3 DEF ChallengeInv, Remembered
  <2>5. u \in canary'[d.by].used
    BY <2>1, <2>3, <2>4 DEF Remembering, Completion
  <2>6. QED
    BY <1>2, <2>1, <2>4, <2>5
<1>3. CASE ~(i \in DOMAIN history.completed /\ history'.completed[i] = history.completed[i])
  <2>1. PICK c \in Canaries, n \in sent, done \in Completion : Completes(c, n, done)
    BY <1>3 DEF Completing
  <2>2. history'.completed[i] = done
    BY <1>3, <2>1, CompletionsAfter DEF ChallengeInv
  <2>3. m.id = n.id
    BY <2>1, <2>2 DEF Completes
  <2>4. m = n
    BY <1>1, <2>3 DEF ChallengeInv, Signed, Sending, Challenges
  <2>5. QED
    BY <2>1, <2>2, <2>4 DEF Completes
<1>4. QED
  BY <1>2, <1>3

LEMMA OnceNext ==
    ASSUME ChallengeInv, Sending, Completing
    PROVE  ChallengesCompleteOnce'
<1>1. /\ spent.challenges \in Nat /\ clock \in Nat /\ sent \subseteq Challenges
      /\ history.completed \in Seq(Completion)
  BY DEF ChallengeInv, Shapes
<1>2. ASSUME NEW i \in DOMAIN history'.completed, NEW m \in sent', m.id = history'.completed[i].id
      PROVE  history'.completed[i].at <= m.expiresAt
  <2>1. CASE i \in DOMAIN history.completed /\ history'.completed[i] = history.completed[i]
    <3>1. m \in sent
      BY <1>1, <1>2, <2>1 DEF ChallengeInv, Signed, Sending, Challenges
    <3>2. QED
      BY <1>2, <2>1, <3>1 DEF ChallengeInv, ChallengesCompleteOnce
  <2>2. CASE ~(i \in DOMAIN history.completed /\ history'.completed[i] = history.completed[i])
    <3>1. PICK c \in Canaries, n \in sent, done \in Completion : Completes(c, n, done)
      BY <2>2 DEF Completing
    <3>2. history'.completed[i] = done
      BY <2>2, <3>1, CompletionsAfter DEF ChallengeInv
    <3>3. m = n
      BY <1>1, <1>2, <3>1, <3>2 DEF Completes, ChallengeInv, Signed, Sending, Challenges
    <3>4. QED
      BY <1>1, <3>1, <3>2, <3>3 DEF Completes, Challenges
  <2>3. QED
    BY <2>1, <2>2
<1>3. ASSUME NEW i \in DOMAIN history'.completed, NEW j \in DOMAIN history'.completed,
             history'.completed[i].id = history'.completed[j].id, history'.completed[i].by = history'.completed[j].by
      PROVE  i = j
  <2>1. CASE history'.completed = history.completed
    BY <1>3, <2>1 DEF ChallengeInv, ChallengesCompleteOnce
  <2>2. ASSUME NEW c \in Canaries, NEW m \in sent, NEW done \in Completion, Completes(c, m, done)
        PROVE  i = j
    <3>1. \A k \in DOMAIN history.completed :
             ~(history.completed[k].id = done.id /\ history.completed[k].by = done.by)
      BY <2>2 DEF Completes, ChallengeInv, Remembered
    <3>2. QED
      BY <1>3, <2>2, <3>1, CompletionsAfter DEF ChallengeInv, ChallengesCompleteOnce
  <2>3. QED
    BY <2>1, <2>2 DEF Completing
<1>4. QED
  BY <1>2, <1>3 DEF ChallengesCompleteOnce

LEMMA ClockRuns == ASSUME Shapes, [Next]_vars PROVE clock' >= clock
<1>1. clock' = clock \/ clock' = clock + 1
  <2>1. CASE Tick
    BY <2>1 DEF Tick
  <2>2. CASE ~Tick
    BY <2>2, Zenon
       DEF Next, vars, Requests, Refreshing, Start, Timer, PostSignal, Validate, Collect, SkipValidation,
              JoinProbe,
           UseLastResult, StartProbe, NoRoute, Build, SaveSnapshot, Fail, ProbeRequestFails, HandleChallenge,
           HandleMalformed, Exit, SaveCapacityPressure
  <2>3. QED
    BY <2>1, <2>2
<1>2. QED
  BY <1>1 DEF Shapes

LEMMA ChallengeInvNext == ChallengeInv /\ [Next]_vars => ChallengeInv'
<1> SUFFICES ASSUME ChallengeInv, [Next]_vars PROVE ChallengeInv'
  OBVIOUS
<1>1. Shapes /\ Shapes'
  BY ShapesNext DEF ChallengeInv
<1>2. Sending /\ Completing /\ Remembering /\ clock' >= clock /\ clock' \in Nat
  BY <1>1, SendingStep, CompletingStep, ClockRuns DEF Shapes
<1>3. QED
  BY <1>1, <1>2, SignedNext, RememberedNext, OnceNext DEF ChallengeInv

LEMMA ChallengeInvInit == Init => ChallengeInv
BY ShapesInit DEF Init, ChallengeInv, Signed, Remembered, ChallengesCompleteOnce

\* However often and however late a challenge arrives, a canary completes it at most once,
\* and only while it is valid (PublicCanary.handle).
THEOREM ChallengesAreCompletedOnce == Spec => []ChallengesCompleteOnce
<1>1. ChallengeInv => ChallengesCompleteOnce
  BY DEF ChallengeInv
<1>2. QED
  BY <1>1, ChallengeInvInit, ChallengeInvNext, PTL DEF Spec

----------------------------------------------------------------------------
(* A verdict rests on what a canary did                                      *)

\* The completion of the challenge m is in the log after the step, with what was observed.
Logged(m, d, observed) ==
    /\ d \in Completed' /\ d.id = m.id /\ d.at = clock
    /\ d.observed = IF m.from = "exit" THEN observed ELSE None

\* What a step does to the verdicts: nothing, an exit forgets them, a probe ends without an
\* answer, or with the answer to the challenge it waits for.
Succeeds(m, d, observed) ==
    /\ probe.pc = "proxied" /\ m.id = probe.id /\ Logged(m, d, observed)
    /\ lastVerdict' = Verdict("success", probe.scope, verifyGeography(probe.scope, observed))

FailsOver(m, d, observed) ==
    /\ probe.pc = "direct" /\ m.id = probe.id /\ Logged(m, d, observed)
    /\ lastVerdict' = Verdict("proxy_failure", probe.scope, "unverifiable")

Concluding ==
    \/ UNCHANGED validator /\ lastVerdict' \in {lastVerdict, validator.result}
    \/ /\ validator'.result = lastVerdict'
       /\ \/ lastVerdict' = NoVerdict
          \/ \E scope : lastVerdict' = Verdict("inconclusive", scope, "unverifiable")
          \/ \E m \in sent, observed \in Observations, d \in Completion :
                Succeeds(m, d, observed) \/ FailsOver(m, d, observed)

LEMMA ConcludedVerdict ==
    ASSUME NEW verdict, Conclude(verdict)
    PROVE  validator'.result = verdict /\ lastVerdict' = verdict
BY DEF Conclude

LEMMA HandledConcludes ==
    ASSUME Shapes, NEW c \in Canaries, NEW m \in sent, NEW observed \in Observations,
           HandleChallenge(c, m, observed)
    PROVE  Concluding
<1> DEFINE after == Counted(c, m.from)
           code == StatusCode(after, m)
           done == [id |-> m.id, by |-> c, at |-> clock, observed |-> IF m.from = "exit" THEN observed ELSE None]
<1>1. CASE probe.pc # "idle" /\ probe.id = m.id /\ ProbeAnswered(code, observed)
  <2>1. probe.pc \in {"proxied", "direct"}
    BY <1>1, ShapeParts DEF ProbeShape
  <2>2. CASE SendControl(1)
    BY <2>2 DEF SendControl, Concluding
  <2>3. CASE Inconclusive
    BY <2>3, ConcludedVerdict DEF Inconclusive, Concluding
  <2>4. CASE Accepted(code)
    <3>1. done \in Completion
      BY DEF Shapes, Challenges, Completion
    <3>2. done \in Completed'
      <4>1. code = 200 /\ history' = [history EXCEPT !.completed = IF code = 200 THEN Append(@, done) ELSE @]
        BY <2>4 DEF HandleChallenge, Accepted
      <4>2. history.completed \in Seq(Completion)
            /\ history = [received |-> history.received, completed |-> history.completed]
        BY DEF Shapes
      <4>3. history'.completed = Append(history.completed, done)
        <5> HIDE DEF done, code
        <5>1. QED
          BY <4>1, <4>2
      <4>4. Len(history.completed) + 1 \in DOMAIN history'.completed
            /\ history'.completed[Len(history.completed) + 1] = done
        <5> HIDE DEF done
        <5>1. QED
          BY <3>1, <4>2, <4>3
      <4>5. QED
        BY <4>4 DEF Completed
    <3>3. Logged(m, done, observed)
      BY <3>2 DEF Logged
    <3>4. CASE probe.pc = "proxied"
      <4>1. Conclude(Verdict("success", probe.scope, verifyGeography(probe.scope, observed)))
        BY <1>1, <2>1, <2>4, <3>4, Answered DEF SendControl, Inconclusive, ProbeAnswered
      <4>2. Succeeds(m, done, observed) /\ validator'.result = lastVerdict'
        BY <1>1, <3>3, <3>4, <4>1, ConcludedVerdict DEF Succeeds
      <4>3. QED
        BY <3>1, <4>2 DEF Concluding
    <3>5. CASE probe.pc = "direct"
      <4>1. Conclude(Verdict("proxy_failure", probe.scope, "unverifiable"))
        BY <1>1, <2>1, <2>4, <3>5, Answered DEF SendControl, Inconclusive, ProbeAnswered
      <4>2. FailsOver(m, done, observed) /\ validator'.result = lastVerdict'
        BY <1>1, <3>3, <3>5, <4>1, ConcludedVerdict DEF FailsOver
      <4>3. QED
        BY <3>1, <4>2 DEF Concluding
    <3>6. QED
      BY <2>1, <3>4, <3>5
  <2>5. QED
    <3> HIDE DEF code
    <3>1. QED
      BY <1>1, <2>1, <2>2, <2>3, <2>4, Answered
<1>2. CASE Handled /\ UNCHANGED <<memory, sent>>
  BY <1>2 DEF memory, Concluding
<1>3. QED
  BY <1>1, <1>2 DEF HandleChallenge

LEMMA ConcludingStep == ASSUME Shapes, [Next]_vars PROVE Concluding
<1>1. CASE \E c \in Canaries, m \in sent, o \in Observations : HandleChallenge(c, m, o)
  BY <1>1, HandledConcludes
<1>2. CASE ProbeRequestFails
  BY <1>2, ConcludedVerdict DEF ProbeRequestFails, SendControl, Inconclusive, Concluding
<1>3. CASE \E r \in Refreshes : UseLastResult(r) \/ NoRoute(r) \/ Fail(r)
  BY <1>3 DEF UseLastResult, NoRoute, Fail, Cleared, NoResult, Concluding
<1>4. CASE Exit
  BY <1>4 DEF Exit, Cleared, NoResult, Concluding
<1>5. CASE UNCHANGED <<lastVerdict, validator>>
  BY <1>5 DEF Concluding
<1>6. QED
  BY <1>1, <1>2, <1>3, <1>4, <1>5
     DEF Next, vars, memory, Requests, Refreshing, Start, Timer, PostSignal, Validate, Collect, SkipValidation,
         JoinProbe, StartProbe, Build, SaveSnapshot, HandleMalformed, SaveCapacityPressure, Tick

----------------------------------------------------------------------------
(* What is said of a geography was observed there                            *)

\* Every set of natural numbers that is not empty has a least member (the intervals that
\* end in it are ordered by inclusion, which is well-founded).
LEMMA LeastExists ==
    ASSUME NEW S \in SUBSET Nat, S # {}
    PROVE  \E x \in S : \A y \in S : x <= y
<1>1. PICK R, F : R = StrictSubsetOrdering(Nat) /\ F = FiniteSubsetsOf(Nat)
  OBVIOUS
<1>2. IsWellFoundedOn(R, F)
  BY <1>1, FS_StrictSubsetOrderingWellFounded
<1>3. PICK T : T = {1 .. x : x \in S}
  OBVIOUS
<1>4. T \subseteq F /\ T # {}
  <2>1. ASSUME NEW x \in S PROVE 1 .. x \in F
    <3>1. IsFiniteSet(1 .. x) /\ 1 .. x \subseteq Nat
      BY FS_Interval
    <3>. QED
      BY <1>1, <3>1 DEF FiniteSubsetsOf
  <2>. QED
    BY <1>3, <2>1
<1>5. PICK t \in T : \A u \in T : ~(<<u, t>> \in R)
  BY <1>2, <1>4, WFMin
<1>6. PICK x \in S : t = 1 .. x
  BY <1>3
<1>7. ASSUME NEW y \in S, y < x PROVE FALSE
  <2>1. 1 .. y \in T /\ 1 .. y \in SUBSET Nat /\ 1 .. x \in SUBSET Nat
    BY <1>3
  <2>2. 1 .. y \subseteq 1 .. x /\ x \in 1 .. x /\ x \notin 1 .. y
    BY <1>7
  <2>3. <<1 .. y, 1 .. x>> \in R
    BY <1>1, <2>1, <2>2 DEF StrictSubsetOrdering
  <2>. QED
    BY <1>5, <1>6, <2>1, <2>3
<1>. QED
  BY <1>7

LEMMA MaxExists ==
    ASSUME NEW n \in Nat, NEW S \in SUBSET (1 .. n), S # {}
    PROVE  Max(S) \in S
<1>1. PICK T : T = {n - y : y \in S}
  OBVIOUS
<1>2. T \in SUBSET Nat /\ T # {}
  <2>1. \A y \in S : y \in 1 .. n /\ n - y \in Nat
    OBVIOUS
  <2>2. \A t \in T : \E y \in S : t = n - y
    BY <1>1
  <2>3. \A y \in S : n - y \in T
    BY <1>1
  <2>4. QED
    BY <2>1, <2>2, <2>3
<1>3. PICK t \in T : \A u \in T : t <= u
  BY <1>2, LeastExists
<1>4. PICK x \in S : t = n - x
  BY <1>1, <1>3
<1>5. ASSUME NEW y \in S PROVE x >= y
  <2>1. n - y \in T
    BY <1>1
  <2>2. n - x <= n - y
    BY <1>3, <1>4, <2>1
  <2>3. x \in Nat /\ y \in Nat
    OBVIOUS
  <2>4. QED
    BY <2>2, <2>3
<1>6. QED
  BY <1>5 DEF Max

LEMMA WitnessesStay ==
    ASSUME NEW received, NEW more, received \subseteq more, NEW completed, NEW longer, completed \subseteq longer
    PROVE  /\ \A verdict : Located(verdict, completed) => Located(verdict, longer)
           /\ \A snapshot : SnapshotWitnessed(snapshot, received, completed)
                               => SnapshotWitnessed(snapshot, more, longer)
BY DEF Located, SnapshotWitnessed, Witnessed

\* A refresh that goes on, or is left alone, holds what it held.
LEMMA FoundedStays ==
    ASSUME NEW x, NEW y, NEW places, NEW further, places \subseteq further,
           NEW received, NEW more, received \subseteq more, NEW completed, NEW longer, completed \subseteq longer,
           Founded(x, places, received, completed), x.passive = y.passive, y.pc # "saving" \/ x = y
    PROVE  Founded(y, further, more, longer)
BY WitnessesStay DEF Founded

\* A refresh without signals that has built nothing holds what it should.
LEMMA EmptyFounded ==
    ASSUME NEW x, NEW places, NEW received, NEW completed, x.passive = <<>>, x.pc # "saving"
    PROVE  Founded(x, places, received, completed)
BY DEF Founded

\* The snapshot that is built from witnessed evidence is witnessed.
LEMMA BuiltWitnessed ==
    ASSUME NEW evidence, NEW at, NEW n \in Nat, DOMAIN evidence.passive \subseteq 1 .. n,
           NEW received, NEW completed,
           \A i \in DOMAIN evidence.passive : evidence.passive[i] \in received,
           Located(evidence.verdict, completed),
           SnapshotWitnessed(evidence.previous, received, completed)
    PROVE  SnapshotWitnessed(buildSnapshot(evidence, at), received, completed)
<1> SUFFICES ASSUME NEW g \in Geographies
             PROVE  Witnessed(g, GeographyEvidence(evidence, g), received, completed)
  BY DEF SnapshotWitnessed, buildSnapshot
<1>1. Witnessed(g, PassiveEvidence(evidence, g), received, completed)
  <2> DEFINE places == {i \in DOMAIN evidence.passive : evidence.passive[i].geography = g}
  <2>1. CASE places = {}
    BY <2>1 DEF PassiveEvidence, SnapshotWitnessed
  <2>2. CASE places # {}
    <3>1. Max(places) \in places
      BY <2>2, MaxExists
    <3>2. PICK signal : signal = evidence.passive[Max(places)]
      OBVIOUS
    <3>3. signal \in received /\ signal.geography = g
      BY <3>1, <3>2
    <3>4. PassiveEvidence(evidence, g) =
             [status      |-> IF signal.outcome = "success" THEN "operational" ELSE "degraded",
              validatedAt |-> signal.observedAt,
              source      |-> "passive"]
      BY <2>2, <3>2 DEF PassiveEvidence
    <3>5. QED
      BY <3>3, <3>4 DEF Witnessed
  <2>3. QED
    BY <2>1, <2>2
<1>2. CASE evidence.verdict.expected = g /\ evidence.verdict.geography # "unverifiable"
  <2>1. PICK verdict : verdict = evidence.verdict
    OBVIOUS
  <2>2. PICK d \in completed :
           /\ d.observed \in Geographies /\ d.at = verdict.checkedAt
           /\ (d.observed = g) = (verdict.outcome = "success" /\ verdict.geography = "match")
    BY <1>2, <2>1 DEF Located
  <2>3. GeographyEvidence(evidence, g) =
           [status      |-> IF verdict.outcome = "success" /\ verdict.geography = "match"
                            THEN "operational" ELSE "degraded",
            validatedAt |-> verdict.checkedAt,
            source      |-> "synthetic"]
    BY <1>2, <2>1 DEF GeographyEvidence
  <2>4. QED
    BY <2>2, <2>3 DEF Witnessed
<1>3. QED
  BY <1>1, <1>2 DEF GeographyEvidence

\* A verdict of the probe is located: its challenge came from the exit.
LEMMA LocatedNext ==
    ASSUME WitnessInv, Concluding, Completed \subseteq Completed'
    PROVE  Located(lastVerdict', Completed') /\ Located(validator'.result, Completed')
<1>1. Located(lastVerdict, Completed') /\ Located(validator.result, Completed')
  BY WitnessesStay DEF WitnessInv
<1>2. CASE lastVerdict' = NoVerdict \/ \E scope : lastVerdict' = Verdict("inconclusive", scope, "unverifiable")
  <2>1. lastVerdict'.geography = "unverifiable" \/ lastVerdict'.expected \notin Geographies
    BY <1>2, SnapshotConstants DEF NoVerdict, Verdict
  <2>2. QED
    BY <2>1, <1>1 DEF Located, Concluding
<1>3. ASSUME NEW m \in sent, NEW observed \in Observations, NEW d \in Completion, Succeeds(m, d, observed)
      PROVE  Located(lastVerdict', Completed')
  <2>1. PICK verdict : verdict = lastVerdict'
    OBVIOUS
  <2>2. /\ verdict.outcome = "success" /\ verdict.checkedAt = clock /\ verdict.expected = probe.scope
        /\ verdict.geography = verifyGeography(probe.scope, observed)
    BY <1>3, <2>1 DEF Succeeds, Verdict
  <2>3. d \in Completed' /\ d.at = clock /\ d.observed = observed
    BY <1>3 DEF Succeeds, Logged, WitnessInv, ProbeFromExit
  <2>4. CASE verdict.expected \in Geographies /\ verdict.geography # "unverifiable"
    <3>1. observed \in Geographies
      BY <2>2, <2>4 DEF verifyGeography, Observations
    <3>2. (observed = verdict.expected) = (verdict.geography = "match")
      BY <2>2, <2>4, SnapshotConstants DEF verifyGeography, NoScope
    <3>3. QED
      BY <2>1, <2>2, <2>3, <3>1, <3>2 DEF Located
  <2>5. QED
    BY <2>1, <2>4 DEF Located
<1>4. ASSUME NEW m \in sent, NEW observed \in Observations, NEW d \in Completion, FailsOver(m, d, observed)
      PROVE  Located(lastVerdict', Completed')
  BY <1>4 DEF FailsOver, Verdict, Located
<1>5. QED
  BY <1>1, <1>2, <1>3, <1>4 DEF Concluding

\* What a step does to the signals and to a refresh.
Keeping ==
    /\ history.received \subseteq history'.received
    /\ \/ DOMAIN passive \subseteq DOMAIN passive'
       \/ \A q \in Refreshes : refresh'[q].pc = "idle" /\ refresh'[q].passive = <<>>
    /\ \A q \in Refreshes :
          \/ refresh'[q] = refresh[q]
          \/ refresh'[q].pc # "saving" /\ refresh'[q].passive \in {refresh[q].passive, <<>>}
          \/ \E health : Collect(q, health)
          \/ Build(q)

LEMMA RequestKeeps == ASSUME Shapes, NEW r \in Refreshes, Requests(r) PROVE Keeping
<1>1. history.received \subseteq history'.received
  <2>1. history' = history \/ \E signal : history' = [history EXCEPT !.received = @ \cup {signal}]
    BY DEF Requests, Start, Timer, PostSignal, Validate
  <2>2. HistoryShape
    BY ShapeParts
  <2>3. QED
    BY <2>1, <2>2 DEF HistoryShape
<1>2. DOMAIN passive \subseteq DOMAIN passive'
  <2>1. passive' = passive \/ \E signal : passive' = recordPassiveSignal(signal)
    BY DEF Requests, Start, Timer, PostSignal, Validate
  <2>2. QED
    BY <2>1, SignalRecorded DEF Shapes
<1>3. Begun(r, FALSE, NoScope) \/ \E scope \in Scopes : Begun(r, TRUE, scope)
  BY DEF Requests, Start, Timer, PostSignal, Validate
<1>4. \A q \in Refreshes :
         \/ refresh'[q] = refresh[q]
         \/ refresh'[q].pc # "saving" /\ refresh'[q].passive \in {refresh[q].passive, <<>>}
  BY <1>3, BegunRefresh
<1>5. QED
  BY <1>1, <1>2, <1>4 DEF Keeping

LEMMA RefreshingKeeps == ASSUME Shapes, NEW r \in Refreshes, Refreshing(r) PROVE Keeping
<1>1. history' = history
  BY DEF Refreshing, Collect, SkipValidation, JoinProbe, UseLastResult, StartProbe, NoRoute, Build,
         SaveSnapshot, Fail
<1>2. CASE \E health : Collect(r, health)
  <2>1. PICK health : Collect(r, health)
    BY <1>2
  <2>2. passive' = passive /\ \A q \in Refreshes \ {r} : refresh'[q] = refresh[q]
    BY <2>1, CollectedRefresh DEF Collect
  <2>3. QED
    BY <1>1, <2>1, <2>2 DEF Keeping
<1>3. CASE SkipValidation(r) \/ JoinProbe(r) \/ UseLastResult(r) \/ StartProbe(r) \/ NoRoute(r)
  <2>1. PICK label \in {"reading", "validating"} : refresh' = Listed(r, label)
    BY <1>3 DEF SkipValidation, JoinProbe, UseLastResult, StartProbe, NoRoute
  <2>2. passive' = passive
    BY <1>3 DEF SkipValidation, JoinProbe, UseLastResult, StartProbe, NoRoute
  <2>3. QED
    BY <1>1, <2>1, <2>2, ListedRefresh DEF Keeping
<1>4. CASE Build(r)
  BY <1>1, <1>4, BuiltRefresh DEF Build, Keeping
<1>5. CASE SaveSnapshot(r)
  BY <1>1, <1>5, IdleRefresh DEF SaveSnapshot, Keeping
<1>6. CASE Fail(r)
  <2>1. CASE Cleared
    BY <1>1, <2>1, ClearedRefresh DEF Keeping
  <2>2. CASE refresh' = [refresh EXCEPT ![r] = Idle] /\ passive' = passive
    BY <1>1, <2>2, IdleRefresh DEF Keeping
  <2>3. QED
    BY <1>6, <2>1, <2>2 DEF Fail
<1>7. QED
  BY <1>2, <1>3, <1>4, <1>5, <1>6 DEF Refreshing

LEMMA ProbeKeeps ==
    ASSUME Shapes, history'.received = history.received,
           \/ \E n \in {0, 1} : SendControl(n)
           \/ Inconclusive
           \/ \E verdict : Conclude(verdict) /\ UNCHANGED passive
           \/ UNCHANGED memory
    PROVE  Keeping
<1>1. CASE UNCHANGED <<refresh, passive>>
  BY <1>1 DEF Keeping
<1>2. CASE \E verdict : Conclude(verdict) /\ UNCHANGED passive
  BY <1>2, ConcludedRefresh DEF Keeping
<1>3. QED
  BY <1>1, <1>2 DEF SendControl, Inconclusive, memory

LEMMA KeepingStep == ASSUME Shapes, [Next]_vars PROVE Keeping
<1>1. CASE \E r \in Refreshes : Requests(r) \/ Refreshing(r)
  BY <1>1, RequestKeeps, RefreshingKeeps
<1>2. CASE ProbeRequestFails
  BY <1>2, ProbeKeeps DEF ProbeRequestFails
<1>3. CASE \E c \in Canaries, m \in sent, o \in Observations : HandleChallenge(c, m, o)
  <2>1. PICK c \in Canaries, m \in sent, o \in Observations : HandleChallenge(c, m, o)
    BY <1>3
  <2>2. history'.received = history.received
    BY <2>1 DEF HandleChallenge, Shapes
  <2>3. \/ \E n \in {0, 1} : SendControl(n)
        \/ Inconclusive
        \/ \E verdict : Conclude(verdict) /\ UNCHANGED passive
        \/ UNCHANGED memory
    BY <2>1, HandledChallenge
  <2>4. QED
    BY ONLY <2>2, <2>3, ProbeKeeps, Shapes
<1>4. CASE Exit
  BY <1>4, ClearedRefresh DEF Exit, Keeping
<1>5. CASE UNCHANGED <<passive, refresh, history>>
  BY <1>5 DEF Keeping
<1>6. QED
  BY <1>1, <1>2, <1>3, <1>4, <1>5 DEF Next, vars, memory, HandleMalformed, SaveCapacityPressure, Tick

\* The answer that a proxied probe waits for is the exit's.
LEMMA ProbeFromExitNext ==
    ASSUME WitnessInv, Sending,
           spent'.challenges = spent.challenges + 1 \/ probe'.pc # "proxied" \/ probe' = probe
    PROVE  ProbeFromExit' /\ \A m \in sent' : m.id <= spent'.challenges
<1>1. spent.challenges \in Nat /\ sent \subseteq Challenges
  BY DEF WitnessInv, Shapes
<1>2. CASE sent' = sent /\ spent'.challenges = spent.challenges
  <2>1. probe'.pc # "proxied" \/ probe' = probe
    BY <1>1, <1>2
  <2>2. QED
    BY <1>2, <2>1 DEF WitnessInv, ProbeFromExit
<1>3. ASSUME NEW x \in Challenges, x.id = spent.challenges + 1, spent'.challenges = spent.challenges + 1,
             sent' = sent \cup {x}, probe'.id = x.id, x.from = IF probe'.pc = "proxied" THEN "exit" ELSE "direct"
      PROVE  ProbeFromExit' /\ \A m \in sent' : m.id <= spent'.challenges
  <2>1. \A m \in sent : m.id <= spent.challenges /\ m.id \in Nat
    BY <1>1 DEF WitnessInv, Challenges
  <2>2. \A m \in sent : m.id # probe'.id
    BY <1>1, <1>3, <2>1
  <2>3. ProbeFromExit'
    BY <1>3, <2>2 DEF ProbeFromExit
  <2>4. QED
    BY <1>1, <1>3, <2>1, <2>3
<1>4. QED
  BY <1>2, <1>3 DEF Sending

\* A proxied probe is new, with a challenge of its own, or the one that was in flight.
LEMMA ProbeStep ==
    ASSUME Shapes, [Next]_vars
    PROVE  spent'.challenges = spent.challenges + 1 \/ probe'.pc # "proxied" \/ probe' = probe
<1>1. \/ \E n \in {0, 1} : SendControl(n)
      \/ \E r \in Refreshes : StartProbe(r)
      \/ probe' \in {probe, NoProbe}
  <2>1. CASE \E c \in Canaries, m \in sent, o \in Observations : HandleChallenge(c, m, o)
    <3>1. \/ \E n \in {0, 1} : SendControl(n)
          \/ Inconclusive
          \/ \E verdict : Conclude(verdict)
          \/ UNCHANGED memory
      BY <2>1, HandledChallenge
    <3>2. QED
      BY <3>1 DEF Inconclusive, Conclude, memory
  <2>2. CASE ProbeRequestFails
    BY <2>2 DEF ProbeRequestFails, Inconclusive, Conclude
  <2>3. CASE Exit \/ \E r \in Refreshes : Fail(r)
    BY <2>3 DEF Exit, Fail, Cleared
  <2>4. CASE \E r \in Refreshes : StartProbe(r)
    BY <2>4
  <2>5. CASE UNCHANGED probe
    BY <2>5
  <2>6. QED
    BY <2>1, <2>2, <2>3, <2>4, <2>5
       DEF Next, vars, memory, Requests, Refreshing, Start, Timer, PostSignal, Validate, Collect,
              SkipValidation,
           JoinProbe, UseLastResult, NoRoute, Build, SaveSnapshot, HandleMalformed, SaveCapacityPressure, Tick
<1>2. CASE \E n \in {0, 1} : SendControl(n)
  BY <1>2, ShapeParts DEF SendControl, ProbeShape
<1>3. ASSUME NEW r \in Refreshes, StartProbe(r) PROVE spent'.challenges = spent.challenges + 1
  BY <1>3, SpentChallenges DEF StartProbe
<1>4. QED
  BY <1>1, <1>2, <1>3 DEF NoProbe

\* A refresh takes, builds on and saves what was witnessed.
LEMMA FoundedNext ==
    ASSUME WitnessInv, Keeping, Completed \subseteq Completed', NEW q \in Refreshes
    PROVE  Founded(refresh'[q], DOMAIN passive', history'.received, Completed')
<1>1. Founded(refresh[q], DOMAIN passive, history.received, Completed) /\ history.received \subseteq history'.received
  BY DEF WitnessInv, Keeping
<1>2. Shapes
  BY DEF WitnessInv
<1>3. CASE \A p \in Refreshes : refresh'[p].pc = "idle" /\ refresh'[p].passive = <<>>
  BY <1>3, EmptyFounded
<1>4. CASE DOMAIN passive \subseteq DOMAIN passive'
  <2>1. CASE refresh'[q] = refresh[q]
    BY <1>1, <1>4, <2>1, FoundedStays
  <2>2. CASE refresh'[q].pc # "saving" /\ refresh'[q].passive \in {refresh[q].passive, <<>>}
    BY <1>1, <1>4, <2>2, FoundedStays, EmptyFounded
  <2>3. ASSUME NEW health, Collect(q, health)
        PROVE  Founded(refresh'[q], DOMAIN passive', history'.received, Completed')
    <3>1. PICK x : x = refresh'[q]
      OBVIOUS
    <3>2. /\ x.pc = "listing" /\ DOMAIN x.passive \subseteq DOMAIN passive
          /\ \A i \in DOMAIN x.passive : x.passive[i] = passive[i]
      BY <1>2, <2>3, <3>1, CollectedRefresh
    <3>3. \A i \in DOMAIN passive : passive[i] \in history.received
      BY <1>2 DEF Shapes
    <3>4. Founded(x, DOMAIN passive', history'.received, Completed')
      BY <1>1, <1>4, <3>2, <3>3 DEF Founded
    <3>5. QED
      BY <3>1, <3>4
  <2>4. CASE Build(q)
    <3>1. PICK evidence : evidence =
             [health |-> refresh[q].health, passive |-> refresh[q].passive, pressed |-> refresh[q].pressed,
              verdict |-> lastVerdict, previous |-> stored.latest]
      OBVIOUS
    <3>2. PICK at : /\ refresh'[q].snapshot = buildSnapshot(evidence, at)
                    /\ refresh'[q].passive = <<>>
      BY <1>2, <2>4, <3>1, BuiltRefresh
    <3>3. PICK n \in Nat : DOMAIN passive = 1 .. n
      BY <1>2 DEF Shapes
    <3>4. /\ evidence.passive = refresh[q].passive /\ evidence.verdict = lastVerdict
          /\ evidence.previous = stored.latest
      BY <3>1
    <3>5. /\ DOMAIN evidence.passive \subseteq 1 .. n
          /\ \A i \in DOMAIN evidence.passive : evidence.passive[i] \in history.received
      BY <1>1, <3>3, <3>4 DEF Founded
    <3>6. Located(evidence.verdict, Completed) /\ SnapshotWitnessed(evidence.previous, history.received, Completed)
      BY <3>4 DEF WitnessInv
    <3>7. SnapshotWitnessed(buildSnapshot(evidence, at), history.received, Completed)
      BY <3>5, <3>6, BuiltWitnessed
    <3>8. SnapshotWitnessed(refresh'[q].snapshot, history'.received, Completed')
      BY <1>1, <3>2, <3>7, WitnessesStay
    <3>9. QED
      BY <3>2, <3>8 DEF Founded
  <2>5. QED
    BY <2>1, <2>2, <2>3, <2>4 DEF Keeping
<1>5. QED
  BY <1>3, <1>4 DEF Keeping

\* The store's latest snapshot is replaced by the one that a refresh saves, or not at all.
LEMMA StoredNext ==
    ASSUME WitnessInv, [Next]_vars, history.received \subseteq history'.received, Completed \subseteq Completed'
    PROVE  SnapshotWitnessed(stored'.latest, history'.received, Completed')
<1>1. SnapshotWitnessed(stored.latest, history'.received, Completed')
  BY WitnessesStay DEF WitnessInv
<1>2. stored = [health |-> stored.health, pressure |-> stored.pressure, latest |-> stored.latest]
  BY DEF WitnessInv, Shapes
<1>3. CASE \E r \in Refreshes : SaveSnapshot(r)
  <2>1. PICK r \in Refreshes : SaveSnapshot(r)
    BY <1>3
  <2>2. SnapshotWitnessed(refresh[r].snapshot, history'.received, Completed')
    <3>1. SnapshotWitnessed(refresh[r].snapshot, history.received, Completed)
      BY <2>1 DEF WitnessInv, Founded, SaveSnapshot, At
    <3>2. QED
      BY <3>1, WitnessesStay
  <2>3. PICK latest \in {refresh[r].snapshot, stored.latest} : stored' = [stored EXCEPT !.latest = latest]
    <3>1. PICK latest : latest = IF refresh[r].snapshot.generatedAt >= stored.latest.generatedAt
                                 THEN refresh[r].snapshot ELSE stored.latest
      OBVIOUS
    <3>2. stored' = [stored EXCEPT !.latest = latest]
      BY <2>1, <3>1 DEF SaveSnapshot
    <3>3. QED
      BY <3>1, <3>2
  <2>4. stored'.latest = latest
    BY <1>2, <2>3
  <2>5. QED
    BY <1>1, <2>2, <2>3, <2>4
<1>4. CASE \E r \in Refreshes : \E health : Collect(r, health)
  <2>1. stored'.latest = stored.latest
    BY <1>2, <1>4 DEF Collect
  <2>2. QED
    BY <1>1, <2>1
<1>5. CASE \E p \in Providers : SaveCapacityPressure(p)
  <2>1. stored'.latest = stored.latest
    BY <1>2, <1>5 DEF SaveCapacityPressure
  <2>2. QED
    BY <1>1, <2>1
<1>6. CASE UNCHANGED stored
  BY <1>1, <1>6
<1>7. QED
  BY <1>3, <1>4, <1>5, <1>6, Zenon
     DEF Next, vars, Requests, Refreshing, Start, Timer, PostSignal, Validate, SkipValidation, JoinProbe,
         UseLastResult, StartProbe, NoRoute, Build, Fail, ProbeRequestFails, HandleChallenge, HandleMalformed,
         Exit, Tick

LEMMA CompletedGrows == ASSUME Shapes, Completing PROVE Completed \subseteq Completed'
<1>1. history.completed \in Seq(Completion)
  BY DEF Shapes
<1>2. \A i \in DOMAIN history.completed :
         i \in DOMAIN history'.completed /\ history'.completed[i] = history.completed[i]
  BY <1>1 DEF Completing, Completes
<1>3. QED
  BY <1>2 DEF Completed

LEMMA WitnessInvNext == WitnessInv /\ [Next]_vars => WitnessInv'
<1> SUFFICES ASSUME WitnessInv, [Next]_vars PROVE WitnessInv'
  OBVIOUS
<1>1. Shapes /\ Shapes'
  BY ShapesNext DEF WitnessInv
<1>2. Completing /\ Completed \subseteq Completed' /\ Sending /\ Concluding /\ Keeping
  BY <1>1, CompletingStep, CompletedGrows, SendingStep, ConcludingStep, KeepingStep
<1>3. ProbeFromExit' /\ \A m \in sent' : m.id <= spent'.challenges
  BY <1>1, <1>2, ProbeStep, ProbeFromExitNext
<1>4. Located(lastVerdict', Completed') /\ Located(validator'.result, Completed')
  BY <1>2, LocatedNext
<1>5. \A q \in Refreshes : Founded(refresh'[q], DOMAIN passive', history'.received, Completed')
  BY <1>2, FoundedNext
<1>6. SnapshotWitnessed(stored'.latest, history'.received, Completed')
  BY <1>2, StoredNext DEF Keeping
<1>7. QED
  BY <1>1, <1>3, <1>4, <1>5, <1>6 DEF WitnessInv

LEMMA WitnessInvInit == Init => WitnessInv
<1> SUFFICES ASSUME Init PROVE WitnessInv
  OBVIOUS
<1>1. Shapes
  BY ShapesInit
<1>2. \A completed : Located(NoVerdict, completed)
  BY SnapshotConstants DEF Located, NoVerdict
<1>3. \A g \in Geographies : NoSnapshot.geographies[g].source = None
  BY DEF NoSnapshot, NoEvidence
<1>4. \A received, completed : SnapshotWitnessed(NoSnapshot, received, completed)
  BY <1>3 DEF SnapshotWitnessed, Witnessed, None
<1>5. \A r \in Refreshes : refresh[r].pc = "idle" /\ refresh[r].passive = <<>>
  BY DEF Init, Idle
<1>6. \A r \in Refreshes : Founded(refresh[r], DOMAIN passive, history.received, Completed)
  BY <1>5, EmptyFounded
<1>7. sent = {} /\ stored.latest = NoSnapshot /\ lastVerdict = NoVerdict /\ validator.result = NoVerdict
  BY DEF Init, NoResult
<1>8. QED
  BY <1>1, <1>2, <1>4, <1>6, <1>7 DEF WitnessInv, ProbeFromExit

\* A new verdict is about its probe's scope and rests on a canary's completion of the
\* probe's challenge in that instant: a success on that of the proxied one, and it says of
\* the geography what the canary observed of the exit; a proxy failure on that of the
\* direct one (SignedCanaryProbe.run, verifyGeography).
Grounded(verdict) ==
    LET rests(label) == {d \in Completed' : d.id = probe.id /\ d.at = verdict.checkedAt /\ probe.pc = label}
    IN  /\ verdict.outcome \in {"success", "proxy_failure"} => verdict.expected = probe.scope
        /\ verdict.outcome = "success" =>
              \E d \in rests("proxied") :
                  /\ (verdict.geography = "unverifiable") = (d.observed = "unavailable")
                  /\ (verdict.geography = "match")
                        = (d.observed # "unavailable" /\ probe.scope \in {NoScope, d.observed})
        /\ verdict.outcome = "proxy_failure" => rests("direct") # {}
        /\ verdict.outcome \in {"proxy_failure", "inconclusive"} => verdict.geography = "unverifiable"

LEMMA SuccessGrounded ==
    ASSUME WitnessInv, NEW m \in sent, NEW observed \in Observations, NEW d \in Completion,
           Succeeds(m, d, observed)
    PROVE  Grounded(lastVerdict')
<1>1. PICK verdict : verdict = lastVerdict'
  OBVIOUS
<1>2. /\ verdict.outcome = "success" /\ verdict.checkedAt = clock /\ verdict.expected = probe.scope
      /\ verdict.geography = verifyGeography(probe.scope, observed)
  BY <1>1 DEF Succeeds, Verdict
<1>3. d \in Completed' /\ d.id = probe.id /\ d.at = clock /\ probe.pc = "proxied" /\ d.observed = observed
  BY DEF Succeeds, Logged, WitnessInv, ProbeFromExit
<1>4. /\ (verdict.geography = "unverifiable") = (observed = "unavailable")
      /\ (verdict.geography = "match") = (observed # "unavailable" /\ probe.scope \in {NoScope, observed})
  BY <1>2 DEF verifyGeography
<1>5. QED
  BY <1>1, <1>2, <1>3, <1>4 DEF Grounded

LEMMA FailureGrounded ==
    ASSUME NEW m \in sent, NEW observed \in Observations, NEW d \in Completion, FailsOver(m, d, observed)
    PROVE  Grounded(lastVerdict')
<1>1. PICK verdict : verdict = lastVerdict'
  OBVIOUS
<1>2. /\ verdict.outcome = "proxy_failure" /\ verdict.checkedAt = clock /\ verdict.expected = probe.scope
      /\ verdict.geography = "unverifiable"
  BY <1>1 DEF FailsOver, Verdict
<1>3. d \in Completed' /\ d.id = probe.id /\ d.at = clock /\ probe.pc = "direct"
  BY DEF FailsOver, Logged
<1>4. QED
  BY <1>1, <1>2, <1>3 DEF Grounded

LEMMA NothingGrounded ==
    ASSUME NEW verdict, verdict = NoVerdict \/ \E scope : verdict = Verdict("inconclusive", scope, "unverifiable")
    PROVE  Grounded(verdict)
BY DEF Grounded, NoVerdict, Verdict, None

\* No answer, no verdict: whoever shares the probe or its last result, and whatever else is
\* under way, a new verdict is about the scope its probe was started for and says what was
\* observed (SignedCanaryProbe.run, CooldownSyntheticValidator.validate).
THEOREM VerdictsRestOnCompletions == Spec => VerdictsAreGrounded
<1>1. WitnessInv /\ [Next]_vars => [validator'.result # validator.result => Grounded(validator'.result)]_vars
  <2> SUFFICES ASSUME WitnessInv, [Next]_vars, validator'.result # validator.result
               PROVE  Grounded(validator'.result)
    OBVIOUS
  <2>1. Concluding
    BY ConcludingStep DEF WitnessInv
  <2>2. validator'.result = lastVerdict'
    BY <2>1 DEF Concluding
  <2>3. Grounded(lastVerdict')
    BY <2>1, SuccessGrounded, FailureGrounded, NothingGrounded DEF Concluding
  <2>4. QED
    BY <2>2, <2>3
<1>2. QED
  BY <1>1, WitnessInvInit, WitnessInvNext, PTL DEF Spec, VerdictsAreGrounded, Grounded

\* What the latest snapshot says of a geography was observed there: in traffic that was
\* received for it, or by an exit that a canary located when it completed the probe's
\* challenge, over shared probes, overlapping refreshes and restarts
\* (CapabilityHealthAggregator.refresh, SignedCanaryProbe.run).
THEOREM GeographyEvidenceIsWitnessed == Spec => []GeographiesAreWitnessed
<1>1. WitnessInv => GeographiesAreWitnessed
  <2> SUFFICES ASSUME WitnessInv, NEW g \in Geographies
               PROVE  LET entry == stored.latest.geographies[g]
                      IN  CASE entry.source = None -> TRUE
                            [] entry.source = "passive" ->
                                  \E s \in history.received :
                                      /\ s.geography = g /\ s.observedAt = entry.validatedAt
                                      /\ (s.outcome = "success") = (entry.status = "operational")
                            [] entry.source = "synthetic" ->
                                  \E d \in Completed :
                                      /\ d.observed \in Geographies /\ d.at = entry.validatedAt
                                      /\ (d.observed = g) = (entry.status = "operational")
    BY DEF GeographiesAreWitnessed
  <2>1. PICK entry : entry = stored.latest.geographies[g]
    OBVIOUS
  <2>2. Witnessed(g, entry, history.received, Completed)
    BY <2>1 DEF WitnessInv, SnapshotWitnessed
  <2>3. QED
    BY <2>1, <2>2 DEF Witnessed, None
<1>2. QED
  BY <1>1, WitnessInvInit, WitnessInvNext, PTL DEF Spec

----------------------------------------------------------------------------
(* More bad evidence improves no status                                      *)

\* A provider of the class is healthy; some provider is of use; the capability's traffic
\* fails; a capability is without blemish.
ClassHealthy(e, class) == \E p \in Providers : ClassOf[p] = class /\ State(e, p) = "healthy"
Usable(e) == \E p \in Providers : State(e, p) \in {"healthy", "degraded"}
Failing(e, name) ==
    (\E s \in About(e, name) : s.outcome = "failure") \/ e.verdict.outcome = "proxy_failure"
Sound(e, name) ==
    /\ name \in {"managed_sessions", "all_traffic"} =>
          ClassHealthy(e, "device_backed") /\ ~Failing(e, "managed_sessions")
    /\ name \in {"stateless_traffic", "all_traffic"} =>
          ClassHealthy(e, "residential") /\ ~Failing(e, "stateless_traffic")
    /\ name = "all_traffic" => ~Failing(e, "all_traffic")

LEMMA ClassStatus ==
    ASSUME NEW e, NEW class
    PROVE  /\ preferredClassStatus(e, class) =
                 IF ClassHealthy(e, class) THEN "operational" ELSE IF Usable(e) THEN "degraded" ELSE "unavailable"
           /\ ClassHealthy(e, class) => Usable(e)
BY DEF preferredClassStatus, ClassHealthy, Usable

\* A capability is operational when it is sound, and unavailable when no provider is of use.
LEMMA StatusIs ==
    ASSUME NEW e, NEW name \in Traffic
    PROVE  /\ TrafficStatus(e, name) =
                 IF Sound(e, name) THEN "operational" ELSE IF Usable(e) THEN "degraded" ELSE "unavailable"
           /\ Sound(e, name) => Usable(e)
<1> DEFINE managed == WithTraffic(e, "managed_sessions", preferredClassStatus(e, "device_backed"))
           stateless == WithTraffic(e, "stateless_traffic", preferredClassStatus(e, "residential"))
<1>1. managed = IF ClassHealthy(e, "device_backed") /\ ~Failing(e, "managed_sessions") THEN "operational"
                ELSE IF Usable(e) THEN "degraded" ELSE "unavailable"
  BY ClassStatus DEF WithTraffic, Failing
<1>2. stateless = IF ClassHealthy(e, "residential") /\ ~Failing(e, "stateless_traffic") THEN "operational"
                  ELSE IF Usable(e) THEN "degraded" ELSE "unavailable"
  BY ClassStatus DEF WithTraffic, Failing
<1>3. Sound(e, name) => Usable(e)
  BY ClassStatus DEF Sound, Traffic
<1>4. CASE name = "managed_sessions"
  <2>1. TrafficStatus(e, name) = managed
    BY <1>4 DEF TrafficStatus
  <2>2. QED
    BY <1>1, <1>3, <1>4, <2>1 DEF Sound
<1>5. CASE name = "stateless_traffic"
  <2>1. TrafficStatus(e, name) = stateless
    BY <1>5 DEF TrafficStatus
  <2>2. QED
    BY <1>2, <1>3, <1>5, <2>1 DEF Sound
<1>6. CASE name = "all_traffic"
  <2>1. TrafficStatus(e, name) = WithTraffic(e, name, combinedTrafficStatus(managed, stateless))
    BY <1>6 DEF TrafficStatus
  <2>2. /\ ClassHealthy(e, "device_backed") => Usable(e)
        /\ ClassHealthy(e, "residential") => Usable(e)
    BY ClassStatus
  <2>3. PICK m, s : m = managed /\ s = stateless
    OBVIOUS
  <2>4. combinedTrafficStatus(m, s) = IF m = s THEN m ELSE "degraded"
    BY DEF combinedTrafficStatus
  <2>5. TrafficStatus(e, name) = IF combinedTrafficStatus(m, s) = "operational" /\ Failing(e, "all_traffic")
                                 THEN "degraded" ELSE combinedTrafficStatus(m, s)
    BY <1>6, <2>1, <2>3 DEF WithTraffic, Failing
  <2>6. QED
    BY <1>1, <1>2, <1>3, <1>6, <2>2, <2>3, <2>4, <2>5 DEF Sound
<1>7. QED
  BY <1>4, <1>5, <1>6 DEF Traffic

\* The evidence v is no better than w: no provider is in a better state, and what fails in w
\* fails in v.
NoBetter(v, w) ==
    /\ \A p \in Providers :
          /\ State(v, p) = "healthy" => State(w, p) = "healthy"
          /\ State(v, p) \in {"healthy", "degraded"} => State(w, p) \in {"healthy", "degraded"}
    /\ \A name \in Traffic : Failing(w, name) => Failing(v, name)

\* No better evidence, no better status, whatever else the evidence holds.
LEMMA NoBetterStatus ==
    ASSUME NEW v, NEW w, NoBetter(v, w), NEW name \in Traffic
    PROVE  Badness(TrafficStatus(v, name)) >= Badness(TrafficStatus(w, name))
<1>1. Sound(v, name) => Sound(w, name)
  BY DEF NoBetter, Sound, ClassHealthy, Traffic
<1>2. Usable(v) => Usable(w)
  BY DEF NoBetter, Usable
<1>3. Badness("operational") = 0 /\ Badness("degraded") = 1 /\ Badness("unavailable") = 2
  BY DEF Badness
<1>4. QED
  BY <1>1, <1>2, <1>3, StatusIs

\* Any evidence: any report of the providers, any providers under pressure, any number of
\* signals, any verdict and any previous snapshot.
IsEvidence(w) ==
    /\ w = [health |-> w.health, pressed |-> w.pressed, passive |-> w.passive, verdict |-> w.verdict,
            previous |-> w.previous]
    /\ w.health \in [Providers -> HealthStates] /\ w.pressed \subseteq Providers
    /\ \E n \in Nat : DOMAIN w.passive = 1 .. n /\ w.passive = [i \in 1 .. n |-> w.passive[i]]

LEMMA WorldType == ASSUME NEW w \in Worlds PROVE IsEvidence(w)
<1>1. w \in [health : [Providers -> HealthStates], pressed : SUBSET Providers, passive : SignalLists,
             verdict : Verdicts, previous : {NoSnapshot}]
  BY DEF Worlds
<1>2. w.passive \in SignalLists
  BY <1>1
<1>3. w.passive = <<>> \/ \E s : w.passive = <<s>>
  BY <1>2 DEF SignalLists
<1>4. \E n \in Nat : DOMAIN w.passive = 1 .. n /\ w.passive = [i \in 1 .. n |-> w.passive[i]]
  <2>1. CASE w.passive = <<>>
    BY <2>1
  <2>2. ASSUME NEW s, w.passive = <<s>>
        PROVE  DOMAIN w.passive = 1 .. 1 /\ w.passive = [i \in 1 .. 1 |-> w.passive[i]]
    BY <2>2
  <2>3. QED
    BY <1>3, <2>1, <2>2
<1>5. w.health \in [Providers -> HealthStates] /\ w.pressed \subseteq Providers
  BY <1>1
<1>6. w = [health |-> w.health, pressed |-> w.pressed, passive |-> w.passive, verdict |-> w.verdict,
           previous |-> w.previous]
  BY <1>1
<1>7. QED
  BY <1>4, <1>5, <1>6 DEF IsEvidence

\* One more piece of bad evidence makes evidence no better: a provider in a worse state, one
\* under pressure, failing traffic, a failure of the proxy path.
LEMMA WorseHealth ==
    ASSUME NEW w, IsEvidence(w), NEW decline \in Declines(w.health), NEW v, v = [w EXCEPT !.health = decline]
    PROVE  NoBetter(v, w)
<1>1. PICK health \in [Providers -> HealthStates] : health = w.health
  BY DEF IsEvidence
<1>2. PICK p \in Providers : \E s \in HealthStates : /\ Badness(s) > Badness(health[p])
                                                   /\ decline = [health EXCEPT ![p] = s]
  BY <1>1 DEF Declines
<1>3. PICK s \in HealthStates : Badness(s) > Badness(health[p]) /\ v.health = [health EXCEPT ![p] = s]
                               /\ v.pressed = w.pressed /\ v.passive = w.passive /\ v.verdict = w.verdict
  <2>1. v.health = decline /\ v.pressed = w.pressed /\ v.passive = w.passive /\ v.verdict = w.verdict
    BY DEF IsEvidence
  <2>2. QED
    BY <1>2, <2>1
<1>4. \A name \in Traffic : Failing(w, name) => Failing(v, name)
  BY <1>3 DEF Failing, About
<1>5. health[p] \in HealthStates /\ s # "healthy" /\ (s = "degraded" => health[p] = "healthy")
  BY <1>1, <1>3 DEF Badness, HealthStates
<1>6. ASSUME NEW q \in Providers
      PROVE  /\ State(v, q) = "healthy" => State(w, q) = "healthy"
             /\ State(v, q) \in {"healthy", "degraded"} => State(w, q) \in {"healthy", "degraded"}
  <2>1. CASE q = p
    BY <1>1, <1>3, <1>5, <2>1 DEF State, HealthStates
  <2>2. CASE q # p
    BY <1>1, <1>3, <2>2 DEF State
  <2>3. QED
    BY <2>1, <2>2
<1>7. QED
  BY <1>4, <1>6 DEF NoBetter

LEMMA WorsePressure ==
    ASSUME NEW w, IsEvidence(w), NEW p \in Providers, NEW v, v = [w EXCEPT !.pressed = @ \cup {p}]
    PROVE  NoBetter(v, w)
<1>1. /\ v.health = w.health /\ v.pressed = w.pressed \cup {p} /\ v.passive = w.passive /\ v.verdict = w.verdict
  BY DEF IsEvidence
<1>2. \A name \in Traffic : Failing(w, name) => Failing(v, name)
  BY <1>1 DEF Failing, About
<1>3. QED
  BY <1>1, <1>2 DEF NoBetter, State

LEMMA WorseTraffic ==
    ASSUME NEW w, IsEvidence(w), NEW signal, NEW v, v = [w EXCEPT !.passive = Append(@, signal)]
    PROVE  NoBetter(v, w)
<1>1. PICK signals : signals = Append(w.passive, signal)
  OBVIOUS
<1>2. /\ v.health = w.health /\ v.pressed = w.pressed /\ v.passive = signals /\ v.verdict = w.verdict
  BY <1>1 DEF IsEvidence
<1>3. \A i \in DOMAIN w.passive : i \in DOMAIN signals /\ signals[i] = w.passive[i]
  <2>1. PICK n \in Nat : DOMAIN w.passive = 1 .. n /\ w.passive = [i \in 1 .. n |-> w.passive[i]]
    BY DEF IsEvidence
  <2>2. PICK S : S = {w.passive[i] : i \in 1 .. n} \cup {signal}
    OBVIOUS
  <2>3. w.passive \in Seq(S)
    <3>1. w.passive \in [1 .. n -> S]
      BY <2>1, <2>2
    <3>2. QED
      BY <3>1, SeqDef
  <2>4. QED
    BY <1>1, <2>2, <2>3
<1>4. \A name \in Traffic : Failing(w, name) => Failing(v, name)
  BY <1>2, <1>3 DEF Failing, About
<1>5. QED
  BY <1>2, <1>4 DEF NoBetter, State

LEMMA WorseVerdict ==
    ASSUME NEW w, IsEvidence(w), NEW verdict, verdict.outcome = "proxy_failure", NEW v, v = [w EXCEPT !.verdict = verdict]
    PROVE  NoBetter(v, w)
<1>1. v.health = w.health /\ v.pressed = w.pressed /\ v.verdict = verdict
  BY DEF IsEvidence
<1>2. QED
  BY <1>1 DEF NoBetter, State, Failing

LEMMA WorseIsNoBetter == ASSUME NEW w, IsEvidence(w), NEW v \in Worse(w) PROVE NoBetter(v, w)
<1>1. CASE \E decline \in Declines(w.health) : v = [w EXCEPT !.health = decline]
  BY <1>1, WorseHealth
<1>2. CASE \E p \in Providers : v = [w EXCEPT !.pressed = @ \cup {p}]
  BY <1>2, WorsePressure
<1>3. CASE \E c \in Traffic : v = [w EXCEPT !.passive = Append(@, SignalOf(c, "failure"))]
  BY <1>3, WorseTraffic
<1>4. CASE v = [w EXCEPT !.verdict = VerdictOf("proxy_failure")]
  BY <1>4, WorseVerdict DEF VerdictOf
<1>5. QED
  BY <1>1, <1>2, <1>3, <1>4 DEF Worse

LEMMA OutageIffAllUnhealthy ==
    ASSUME NEW w, IsEvidence(w), NEW name \in Traffic
    PROVE  TrafficStatus(w, name) = "unavailable" <=> \A p \in Providers : w.health[p] = "unhealthy"
<1>1. \A p \in Providers : State(w, p) \in {"healthy", "degraded"} <=> w.health[p] # "unhealthy"
  BY DEF IsEvidence, State, HealthStates
<1>2. TrafficStatus(w, name) = "unavailable" <=> ~Usable(w)
  BY StatusIs
<1>3. QED
  BY <1>1, <1>2 DEF Usable

\* One more piece of bad evidence, whatever else there is, improves the status of no traffic
\* capability, and one is unavailable exactly when every provider says it is unhealthy
\* (#buildSnapshot, preferredClassStatus).
THEOREM WorseEvidenceImprovesNoTraffic ==
    ASSUME NEW w, IsEvidence(w), NEW name \in Traffic
    PROVE  /\ TrafficStatus(w, name) = "unavailable" <=> \A p \in Providers : w.health[p] = "unhealthy"
           /\ \A v \in Worse(w) : Badness(TrafficStatus(v, name)) >= Badness(TrafficStatus(w, name))
BY WorseIsNoBetter, NoBetterStatus, OutageIffAllUnhealthy

\* The same of the evidence that the run enumerates, before anything happens
\* (#buildSnapshot).
THEOREM BadEvidenceImprovesNothing == Spec => []StatusFollowsEvidence
<1>1. StatusFollowsEvidence
  BY WorldType, WorseEvidenceImprovesNoTraffic DEF StatusFollowsEvidence
<1>2. QED
  BY <1>1, PTL
===============================================================================
