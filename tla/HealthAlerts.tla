----------------------------- MODULE HealthAlerts -----------------------------
(***************************************************************************)
(* The alerts of ONE capability: the refreshes of the health aggregator    *)
(* that evaluate its status (health-aggregator.ts, HealthAlertCoordinator  *)
(* in alerting.ts), the stored alert state, events and deliveries          *)
(* (dynamo-health-repository.ts), and the notification service that posts  *)
(* the deliveries to webhooks (WebhookNotificationAdapter).                *)
(*                                                                         *)
(* A refresh is started by a timer and by requests; nothing keeps two of   *)
(* them apart.  Every request to the store is a step of its own.           *)
(***************************************************************************)
EXTENDS Integers, Sequences

CONSTANTS
    Refreshes,      \* refreshes that may overlap
    Destinations,   \* destinationIds of the coordinator
    Configured,     \* destinations that the notification service knows
    DegradedDelay,  \* degradedDelayMs
    MaxAttempts,    \* maxAttempts of a delivery
    MaxTime,        \* bound: no snapshot is generated later
    MaxStops        \* bound: evaluations and flushes that stop half-way

ASSUME AlertConstants ==
    /\ Configured \subseteq Destinations
    /\ DegradedDelay \in Nat /\ MaxAttempts \in Nat \ {0}
    /\ MaxTime \in Nat \ {0} /\ MaxStops \in Nat

VARIABLES
    clock,     \* the time
    latest,    \* generatedAt of the latest stored snapshot
    state,     \* the stored HealthAlertState
    events,    \* the stored events, by deduplication key
    delivery,  \* the stored deliveries
    refresh,   \* refresh[r]: a refresh and the await it is suspended at
    notifier,  \* the flush of the notification service
    stops,     \* how many evaluations and flushes have stopped half-way
    seen,      \* history: the last status generated and the number of its episode
    log        \* history: the events in the order of their creation

stored == <<latest, state, events, delivery>>
history == <<seen, log>>
vars == <<clock, stored, refresh, notifier, stops, history>>

Times == 0..MaxTime
Statuses == {"operational", "degraded", "unavailable"}
Keys == [kind : {"alert"}, status : {"degraded", "unavailable"}, since : Times]
        \cup [kind : {"recovery"}, status : {"operational"}, since : Times]

\* status "none": there is no such item.
NoDelivery == [status |-> "none", attempts |-> 0]
NoState == [observed |-> "none", since |-> 0, alerted |-> "none"]
Idle == [pc |-> "idle", now |-> 0, generated |-> 0, status |-> "operational", episode |-> 0,
         next |-> NoState, left |-> {}]
NoFlush == [batch |-> {}, posted |-> {}]

Init ==
    /\ clock = 1 /\ latest = 0
    /\ state = NoState
    /\ events = {}
    /\ delivery = [kd \in Keys \X Destinations |-> NoDelivery]
    /\ refresh = [r \in Refreshes |-> Idle]
    /\ notifier = NoFlush /\ stops = 0
    /\ seen = [status |-> "none", number |-> 0] /\ log = <<>>

At(r, label) == refresh[r].pc = label
Goto(r, label) == refresh' = [refresh EXCEPT ![r].pc = label]

----------------------------------------------------------------------------
(* CapabilityHealthAggregator.refresh                                        *)

\* The time is read here and nowhere else, so it advances here.
Begin(r, now) ==
    /\ At(r, "idle")
    /\ clock' = now
    /\ refresh' = [refresh EXCEPT ![r] = [Idle EXCEPT !.pc = "collecting", !.now = now]]
    /\ UNCHANGED <<stored, notifier, stops, history>>

\* The evidence is collected and the latest snapshot read; a snapshot is generated
\* later than that one.
Generate(r, status) ==
    LET generated == IF refresh[r].now > latest THEN refresh[r].now ELSE latest + 1
        number == seen.number + (IF seen.status = status THEN 0 ELSE 1)
    IN  /\ At(r, "collecting")
        /\ generated <= MaxTime
        /\ refresh' = [refresh EXCEPT ![r] = [@ EXCEPT
               !.pc = "saving", !.generated = generated, !.status = status, !.episode = number]]
        /\ seen' = [status |-> status, number |-> number]
        /\ UNCHANGED <<clock, stored, notifier, stops, log>>

SaveSnapshot(r) ==
    /\ At(r, "saving")
    /\ latest' = IF refresh[r].generated > latest THEN refresh[r].generated ELSE latest
    /\ Goto(r, "reading")
    /\ UNCHANGED <<clock, state, events, delivery, notifier, stops, history>>

----------------------------------------------------------------------------
(* HealthAlertCoordinator.#evaluateCapability                                *)

\* Mutant of Observed: the alert is marked together with the episode.
ObservedAlerted(r) ==
    [observed |-> refresh[r].status,
     since    |-> IF state.observed = refresh[r].status THEN state.since ELSE refresh[r].generated,
     alerted  |-> IF refresh[r].status = "unavailable" THEN "unavailable" ELSE state.alerted]

\* The state with the episode that the snapshot begins or continues.
Observed(r) ==
    [observed |-> refresh[r].status,
     since    |-> IF state.observed = refresh[r].status THEN state.since ELSE refresh[r].generated,
     alerted  |-> state.alerted]

ReadState(r) ==
    /\ At(r, "reading")
    /\ refresh' = [refresh EXCEPT ![r] = [@ EXCEPT !.pc = "observing", !.next = Observed(r)]]
    /\ UNCHANGED <<clock, stored, notifier, stops, history>>

Recovers(r) == refresh[r].status = "operational" /\ refresh[r].next.alerted # "none"

DelaySatisfied(r) ==
    \/ refresh[r].status = "unavailable"
    \/ refresh[r].generated - refresh[r].next.since >= DegradedDelay

Alerts(r) ==
    /\ refresh[r].status # "operational"
    /\ DelaySatisfied(r)
    /\ refresh[r].next.alerted # refresh[r].status

\* Mutant of SaveObserved: the episode is not persisted before the event.
ForgetObserved(r) ==
    /\ At(r, "observing")
    /\ Goto(r, IF Recovers(r) \/ Alerts(r) THEN "emitting" ELSE "finishing")
    /\ UNCHANGED <<clock, stored, notifier, stops, history>>

\* The episode is persisted before an event is emitted.
SaveObserved(r) ==
    /\ At(r, "observing")
    /\ state' = refresh[r].next
    /\ Goto(r, IF Recovers(r) \/ Alerts(r) THEN "emitting" ELSE "finishing")
    /\ UNCHANGED <<clock, latest, events, delivery, notifier, stops, history>>

\* dedupeKey
Key(r) ==
    [kind   |-> IF Recovers(r) THEN "recovery" ELSE "alert",
     status |-> refresh[r].status,
     since  |-> refresh[r].next.since]

\* createHealthAlertEvent: the event is put unless its key exists, and its
\* deliveries follow in either case.
CreateEvent(r) ==
    /\ At(r, "emitting")
    /\ events' = events \cup {Key(r)}
    /\ log' = IF Key(r) \in events
              THEN log
              ELSE Append(log, [kind |-> Key(r).kind, status |-> Key(r).status,
                                episode |-> refresh[r].episode])
    /\ refresh' = [refresh EXCEPT ![r] = [@ EXCEPT !.pc = "delivering", !.left = Destinations]]
    /\ UNCHANGED <<clock, latest, state, delivery, notifier, stops, seen>>

\* Mutant of PutDelivery: the put has no condition.
PutDeliveryAgain(old) == [status |-> "pending", attempts |-> 0]

\* A delivery that exists is left alone.
PutDelivery(old) ==
    IF old.status = "none" THEN [status |-> "pending", attempts |-> 0] ELSE old

CreateDelivery(r, d) ==
    /\ At(r, "delivering") /\ d \in refresh[r].left
    /\ delivery' = [delivery EXCEPT ![<<Key(r), d>>] = PutDelivery(@)]
    /\ refresh' = [refresh EXCEPT ![r].left = @ \ {d}]
    /\ UNCHANGED <<clock, latest, state, events, notifier, stops, history>>

\* No event was due.
SaveFinal(r) ==
    /\ At(r, "finishing")
    /\ state' = refresh[r].next
    /\ refresh' = [refresh EXCEPT ![r] = Idle]
    /\ UNCHANGED <<clock, latest, events, delivery, notifier, stops, history>>

\* #emit is over: the mark of the alert is set or removed.
SaveAlerted(r) ==
    /\ At(r, "delivering") /\ refresh[r].left = {}
    /\ state' = [refresh[r].next EXCEPT
           !.alerted = IF Recovers(r) THEN "none" ELSE refresh[r].status]
    /\ refresh' = [refresh EXCEPT ![r] = Idle]
    /\ UNCHANGED <<clock, latest, events, delivery, notifier, stops, history>>

\* A request is rejected or the process stops: the evaluation is given up.
Stops(r) ==
    /\ ~At(r, "idle") /\ stops < MaxStops
    /\ refresh' = [refresh EXCEPT ![r] = Idle]
    /\ stops' = stops + 1
    /\ UNCHANGED <<clock, stored, notifier, history>>

----------------------------------------------------------------------------
(* WebhookNotificationAdapter                                                *)

\* The pending deliveries are read; a flush works on these copies.
Flush ==
    /\ notifier.batch = {}
    /\ LET pending == {kd \in Keys \X Destinations : delivery[kd].status = "pending"}
       IN  /\ pending # {}
           /\ notifier' = [batch  |-> {<<kd[1], kd[2], delivery[kd].attempts>> : kd \in pending},
                           posted |-> {}]
    /\ UNCHANGED <<clock, stored, refresh, stops, history>>

\* A delivery is posted.  It succeeds, fails, or its answer is lost.
Post(item, ok) ==
    /\ notifier.posted = {} /\ item \in notifier.batch
    /\ item[2] \in Configured
    /\ notifier' = [notifier EXCEPT !.posted = {[item |-> item, ok |-> ok]}]
    /\ UNCHANGED <<clock, stored, refresh, stops, history>>

\* Mutant of Attempted: a failed attempt is not counted.
AttemptedUncounted(attempts, ok) ==
    [status   |-> IF ok THEN "delivered" ELSE IF attempts >= MaxAttempts THEN "failed" ELSE "pending",
     attempts |-> attempts]

Attempted(attempts, ok) ==
    [status   |-> IF ok THEN "delivered" ELSE IF attempts + 1 >= MaxAttempts THEN "failed" ELSE "pending",
     attempts |-> attempts + 1]

SaveAttempt ==
    /\ \E post \in notifier.posted :
          /\ delivery' = [delivery EXCEPT ![<<post.item[1], post.item[2]>>] = Attempted(post.item[3], post.ok)]
          /\ notifier' = [batch |-> notifier.batch \ {post.item}, posted |-> {}]
    /\ UNCHANGED <<clock, latest, state, events, refresh, stops, history>>

\* A destination that is not configured fails at once.
Unconfigured(item) ==
    /\ notifier.posted = {} /\ item \in notifier.batch
    /\ item[2] \notin Configured
    /\ delivery' = [delivery EXCEPT ![<<item[1], item[2]>>] = [status |-> "failed", attempts |-> item[3] + 1]]
    /\ notifier' = [notifier EXCEPT !.batch = @ \ {item}]
    /\ UNCHANGED <<clock, latest, state, events, refresh, stops, history>>

\* A request is rejected or the service stops: the rest of the flush is given up.
NotifierStops ==
    /\ notifier.batch # {} /\ stops < MaxStops
    /\ notifier' = NoFlush /\ stops' = stops + 1
    /\ UNCHANGED <<clock, stored, refresh, history>>

----------------------------------------------------------------------------
Evaluate(r) ==
    \/ ReadState(r) \/ SaveObserved(r) \/ CreateEvent(r) \/ SaveFinal(r) \/ SaveAlerted(r)
    \/ \E d \in Destinations : CreateDelivery(r, d)

Notify ==
    \/ Flush \/ SaveAttempt
    \/ \E item \in notifier.batch : Unconfigured(item) \/ \E ok \in BOOLEAN : Post(item, ok)

Next ==
    \/ \E r \in Refreshes :
          \/ \E now \in clock..MaxTime : Begin(r, now)
          \/ SaveSnapshot(r) \/ Evaluate(r) \/ Stops(r)
          \/ \E status \in Statuses : Generate(r, status)
    \/ Notify \/ NotifierStops

\* The notification service polls, and its requests are answered or time out.
Spec == Init /\ [][Next]_vars /\ WF_vars(Notify)

----------------------------------------------------------------------------
(* Properties                                                                *)

States == [observed : Statuses \cup {"none"}, since : Times,
           alerted : {"none", "degraded", "unavailable"}]
Deliveries == [status : {"none", "pending", "delivered", "failed"}, attempts : 0..MaxAttempts]
Items == Keys \X Destinations \X (0..(MaxAttempts - 1))
Labels == {"idle", "collecting", "saving", "reading", "observing", "emitting",
           "delivering", "finishing"}
Evaluations == [pc : Labels, now : Times, generated : Times, status : Statuses, episode : Nat,
                next : States, left : SUBSET Destinations]

\* The shape of the stored items and of the work in hand; among other things no
\* delivery is attempted more than maxAttempts times, and a flush only holds
\* deliveries that have an attempt left (#deliver, alerting.ts).
TypeOK ==
    /\ clock \in Times /\ latest \in Times
    /\ state \in States
    /\ events \subseteq Keys
    /\ delivery \in [Keys \X Destinations -> Deliveries]
    /\ refresh \in [Refreshes -> Evaluations]
    /\ notifier \in [batch : SUBSET Items, posted : SUBSET [item : Items, ok : BOOLEAN]]
    /\ \A post \in notifier.posted : post.item \in notifier.batch
    /\ seen.number \in Nat

\* One episode of a status causes one alert or recovery at most, although an
\* evaluation may stop between any two of its writes and be repeated: "Persist the
\* episode boundary before emitting. If the process stops between event creation and
\* the final state write, the same dedupe key is retried." (alerting.ts).  It holds
\* for one refresh at a time.
OneEventPerEpisode ==
    \A i, j \in 1..Len(log) : log[i] = log[j] => i = j

\* An alert that is marked as given has its event in the store, and a delivery for
\* every destination: the mark is written last (#evaluateCapability), so that a stop
\* before it repeats the event and never loses it.  It holds for overlapping
\* refreshes as well.
AlertedIsDurable ==
    state.alerted # "none" =>
        \E k \in events :
            /\ k.kind = "alert" /\ k.status = state.alerted
            /\ \A d \in Destinations : delivery[<<k, d>>].status # "none"

\* What was delivered or given up stays so: neither a repeated emission of the same
\* event (createHealthAlertEvent) nor a late write of the notification service
\* schedules it again.
DeliverySettles ==
    [][\A k \in Keys, d \in Destinations :
          delivery[<<k, d>>].status \in {"delivered", "failed"} => delivery'[<<k, d>>] = delivery[<<k, d>>]]_vars

\* The backlog of deliveries is worked off again and again, whatever the endpoints
\* answer and although the service may stop between a post and its record (flush).
\* As the events of a behaviour are finitely many here, every delivery ends.
DeliveriesEnd ==
    []<>(\A k \in Keys, d \in Destinations : delivery[<<k, d>>].status # "pending")
=============================================================================
