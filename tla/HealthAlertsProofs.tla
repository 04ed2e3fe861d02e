-------------------------- MODULE HealthAlertsProofs --------------------------
(***************************************************************************)
(* Proofs about HealthAlerts for any number of overlapping refreshes: the  *)
(* types, that an alert that is marked is durable, and that a settled      *)
(* delivery stays settled; and for refreshes that do not overlap, that an  *)
(* episode causes one event.                                               *)
(***************************************************************************)
EXTENDS HealthAlerts, TLAPS

----------------------------------------------------------------------------
(* Definitions                                                               *)

\* The event of an alert of this status and its deliveries are stored.
Durable(status) ==
    status # "none" =>
        \E k \in events :
            /\ k.kind = "alert" /\ k.status = status
            /\ \A d \in Destinations : delivery[<<k, d>>].status # "none"

\* Every alert that is marked, in the store or in the hands of a refresh, is durable.
MarksDurable == Durable(state.alerted) /\ \A r \in Refreshes : Durable(refresh[r].next.alerted)

\* A refresh that emits has a reason, and what it has put is there.
EmissionOf(r) ==
    /\ At(r, "emitting") \/ At(r, "delivering") => Recovers(r) \/ Alerts(r)
    /\ At(r, "delivering") =>
          /\ Key(r) \in events
          /\ \A d \in Destinations \ refresh[r].left : delivery[<<Key(r), d>>].status # "none"

Emission == \A r \in Refreshes : EmissionOf(r)

\* A delivery that is pending has an attempt left.
AttemptLeft ==
    \A k \in Keys, d \in Destinations :
        delivery[<<k, d>>].status = "pending" => delivery[<<k, d>>].attempts < MaxAttempts

\* The copies of a flush are current.
BatchCurrent ==
    \A item \in notifier.batch :
        /\ delivery[<<item[1], item[2]>>].status = "pending"
        /\ delivery[<<item[1], item[2]>>].attempts = item[3]

IInv == TypeOK /\ MarksDurable /\ Emission /\ AttemptLeft /\ BatchCurrent
----------------------------------------------------------------------------
(* Types and deliveries                                                      *)

DeliveryInv == TypeOK /\ AttemptLeft /\ BatchCurrent

\* The key of an event that a refresh emits.
LEMMA KeyType ==
    ASSUME TypeOK, NEW r \in Refreshes, Recovers(r) \/ Alerts(r)
    PROVE  Key(r) \in Keys
  BY DEF TypeOK, Key, Keys, Evaluations, States, Statuses, Recovers, Alerts

\* A refresh that is not running.
LEMMA IdleType == Idle \in Evaluations
  BY AlertConstants DEF Idle, NoState, Evaluations, Labels, States, Statuses, Times

\* One refresh goes on.
LEMMA RefreshType ==
    ASSUME TypeOK, NEW r \in Refreshes, NEW e \in Evaluations, refresh' = [refresh EXCEPT ![r] = e]
    PROVE  refresh' \in [Refreshes -> Evaluations]
  BY DEF TypeOK

LEMMA GotoType ==
    ASSUME TypeOK, NEW r \in Refreshes, NEW label \in Labels, Goto(r, label)
    PROVE  refresh' \in [Refreshes -> Evaluations]
  BY DEF TypeOK, Goto, Evaluations

\* Two copies of a flush are copies of two deliveries.
LEMMA OtherItem ==
    ASSUME TypeOK, BatchCurrent, NEW x \in notifier.batch, NEW y \in notifier.batch, x # y
    PROVE  <<x[1], x[2]>> # <<y[1], y[2]>>
<1>. SUFFICES ASSUME <<x[1], x[2]>> = <<y[1], y[2]>> PROVE FALSE
  OBVIOUS
<1>1. x \in Items /\ y \in Items
  BY DEF TypeOK
<1>2. x[1] = y[1] /\ x[2] = y[2]
  OBVIOUS
<1>3. x[3] = y[3]
  BY <1>2 DEF BatchCurrent
<1>. QED
  BY <1>1, <1>2, <1>3 DEF Items

LEMMA DeliveryInit == ASSUME Init PROVE DeliveryInv
<1>1. AttemptLeft /\ BatchCurrent
  BY AlertConstants DEF Init, AttemptLeft, BatchCurrent, NoDelivery, NoFlush
<1>2. state \in States /\ delivery \in [Keys \X Destinations -> Deliveries]
  BY AlertConstants DEF Init, States, NoState, Statuses, Times, Deliveries, NoDelivery
<1>. QED
  BY <1>1, <1>2, IdleType, AlertConstants DEF Init, DeliveryInv, TypeOK, NoFlush, Times

\* Every step keeps the types and the copies of a flush current.
LEMMA DeliveryStep == ASSUME DeliveryInv, Emission, [Next]_vars PROVE DeliveryInv'
<1>. USE AlertConstants DEF DeliveryInv, At, stored, history
<1>1. ASSUME NEW r \in Refreshes, NEW now \in clock..MaxTime, Begin(r, now)
      PROVE  DeliveryInv'
  <2>1. now \in Times
    BY DEF TypeOK, Times
  <2>2. [Idle EXCEPT !.pc = "collecting", !.now = now] \in Evaluations
    BY <2>1, IdleType DEF Evaluations, Labels
  <2>3. refresh' \in [Refreshes -> Evaluations]
    BY <1>1, <2>2, RefreshType DEF Begin
  <2>. QED
    BY <1>1, <2>1, <2>3 DEF TypeOK, AttemptLeft, BatchCurrent, Begin
<1>2. ASSUME NEW r \in Refreshes, NEW status \in Statuses, Generate(r, status)
      PROVE  DeliveryInv'
  <2>. DEFINE g == IF refresh[r].now > latest THEN refresh[r].now ELSE latest + 1
              k == seen.number + (IF seen.status = status THEN 0 ELSE 1)
              e == [refresh[r] EXCEPT !.pc = "saving", !.generated = g, !.status = status, !.episode = k]
  <2>1. g \in Times /\ k \in Nat
    BY <1>2 DEF TypeOK, Generate, Times, Evaluations
  <2>2. refresh' = [refresh EXCEPT ![r] = e] /\ seen'.number = k
    BY <1>2 DEF Generate
  <2>3. e \in Evaluations
    <3>. HIDE DEF g, k
    <3>. QED
      BY <2>1 DEF TypeOK, Evaluations, Labels
  <2>4. refresh' \in [Refreshes -> Evaluations]
    BY <2>2, <2>3, RefreshType
  <2>. QED
    BY <1>2, <2>1, <2>2, <2>4 DEF TypeOK, AttemptLeft, BatchCurrent, Generate
<1>3. ASSUME NEW r \in Refreshes, SaveSnapshot(r)
      PROVE  DeliveryInv'
  <2>1. refresh' \in [Refreshes -> Evaluations]
    BY <1>3, GotoType DEF SaveSnapshot, Labels
  <2>2. latest' \in Times
    BY <1>3 DEF SaveSnapshot, TypeOK, Evaluations
  <2>. QED
    BY <1>3, <2>1, <2>2 DEF TypeOK, AttemptLeft, BatchCurrent, SaveSnapshot
<1>4. ASSUME NEW r \in Refreshes, ReadState(r)
      PROVE  DeliveryInv'
  <2>1. Observed(r) \in States
    BY DEF TypeOK, Observed, States, Evaluations
  <2>2. [refresh[r] EXCEPT !.pc = "observing", !.next = Observed(r)] \in Evaluations
    BY <2>1 DEF TypeOK, Evaluations, Labels
  <2>3. refresh' \in [Refreshes -> Evaluations]
    BY <1>4, <2>2, RefreshType DEF ReadState
  <2>. QED
    BY <1>4, <2>3 DEF TypeOK, AttemptLeft, BatchCurrent, ReadState
<1>5. ASSUME NEW r \in Refreshes, SaveObserved(r)
      PROVE  DeliveryInv'
  <2>1. refresh' \in [Refreshes -> Evaluations]
    <3>1. CASE Recovers(r) \/ Alerts(r)
      BY <1>5, <3>1, GotoType DEF SaveObserved, Labels
    <3>2. CASE ~(Recovers(r) \/ Alerts(r))
      BY <1>5, <3>2, GotoType DEF SaveObserved, Labels
    <3>. QED
      BY <3>1, <3>2
  <2>2. state' \in States
    BY <1>5 DEF SaveObserved, TypeOK, Evaluations
  <2>. QED
    BY <1>5, <2>1, <2>2 DEF TypeOK, AttemptLeft, BatchCurrent, SaveObserved
<1>6. ASSUME NEW r \in Refreshes, CreateEvent(r)
      PROVE  DeliveryInv'
  <2>1. [refresh[r] EXCEPT !.pc = "delivering", !.left = Destinations] \in Evaluations
    BY DEF TypeOK, Evaluations, Labels
  <2>2. refresh' \in [Refreshes -> Evaluations]
    BY <1>6, <2>1, RefreshType DEF CreateEvent
  <2>3. events' \subseteq Keys
    BY <1>6, KeyType DEF CreateEvent, Emission, EmissionOf, TypeOK
  <2>. QED
    BY <1>6, <2>2, <2>3 DEF TypeOK, AttemptLeft, BatchCurrent, CreateEvent
<1>7. ASSUME NEW r \in Refreshes, NEW d \in Destinations, CreateDelivery(r, d)
      PROVE  DeliveryInv'
  <2>1. refresh' \in [Refreshes -> Evaluations]
    BY <1>7 DEF CreateDelivery, TypeOK, Evaluations
  <2>2. Key(r) \in Keys
    BY <1>7, KeyType DEF CreateDelivery, Emission, EmissionOf
  <2>3. /\ delivery' \in [Keys \X Destinations -> Deliveries]
        /\ AttemptLeft'
    BY <1>7, <2>2 DEF TypeOK, AttemptLeft, CreateDelivery, PutDelivery, Deliveries
  <2>4. BatchCurrent'
    BY <1>7, <2>2 DEF TypeOK, BatchCurrent, CreateDelivery, PutDelivery, Items
  <2>. QED
    BY <1>7, <2>1, <2>3, <2>4 DEF TypeOK, CreateDelivery
<1>8. ASSUME NEW r \in Refreshes, SaveFinal(r)
      PROVE  DeliveryInv'
  <2>1. refresh' \in [Refreshes -> Evaluations] /\ state' \in States
    BY <1>8, IdleType DEF SaveFinal, TypeOK, Evaluations
  <2>. QED
    BY <1>8, <2>1 DEF TypeOK, AttemptLeft, BatchCurrent, SaveFinal
<1>9. ASSUME NEW r \in Refreshes, SaveAlerted(r)
      PROVE  DeliveryInv'
  <2>1. refresh' \in [Refreshes -> Evaluations]
    BY <1>9, IdleType, RefreshType DEF SaveAlerted
  <2>2. state' \in States
    BY <1>9 DEF SaveAlerted, TypeOK, Evaluations, States, Statuses, Emission, EmissionOf, Recovers, Alerts
  <2>. QED
    BY <1>9, <2>1, <2>2 DEF TypeOK, AttemptLeft, BatchCurrent, SaveAlerted
<1>10. ASSUME NEW r \in Refreshes, Stops(r)
       PROVE  DeliveryInv'
  BY <1>10, IdleType DEF TypeOK, AttemptLeft, BatchCurrent, Stops
<1>11. ASSUME Flush
       PROVE  DeliveryInv'
  <2>1. BatchCurrent' /\ notifier'.batch \subseteq Items
    BY <1>11 DEF Flush, TypeOK, AttemptLeft, BatchCurrent, Items, Deliveries
  <2>. QED
    BY <1>11, <2>1 DEF Flush, TypeOK, AttemptLeft
<1>12. ASSUME NEW item \in notifier.batch, NEW ok \in BOOLEAN, Post(item, ok)
       PROVE  DeliveryInv'
  BY <1>12 DEF TypeOK, AttemptLeft, BatchCurrent, Post
<1>13. ASSUME SaveAttempt
       PROVE  DeliveryInv'
  <2>1. PICK post \in notifier.posted :
            /\ delivery' = [delivery EXCEPT ![<<post.item[1], post.item[2]>>] = Attempted(post.item[3], post.ok)]
            /\ notifier' = [batch |-> notifier.batch \ {post.item}, posted |-> {}]
    BY <1>13 DEF SaveAttempt
  <2>2. post.item \in notifier.batch /\ post.item \in Items /\ post.ok \in BOOLEAN
    BY DEF TypeOK
  <2>3. /\ delivery' \in [Keys \X Destinations -> Deliveries]
        /\ AttemptLeft'
    BY <2>1, <2>2 DEF TypeOK, AttemptLeft, Attempted, Deliveries, Items
  <2>4. BatchCurrent'
    <3>. SUFFICES ASSUME NEW other \in notifier.batch, other # post.item
                  PROVE  delivery'[<<other[1], other[2]>>] = delivery[<<other[1], other[2]>>]
      BY <2>1 DEF BatchCurrent
    <3>. QED
      BY <2>1, <2>2, OtherItem DEF TypeOK, Items
  <2>5. notifier' \in [batch : SUBSET Items, posted : SUBSET [item : Items, ok : BOOLEAN]]
    BY <2>1 DEF TypeOK
  <2>. QED
    BY <1>13, <2>1, <2>3, <2>4, <2>5 DEF TypeOK, SaveAttempt
<1>14. ASSUME NEW item \in notifier.batch, Unconfigured(item)
       PROVE  DeliveryInv'
  <2>1. item \in Items
    BY DEF TypeOK
  <2>2. /\ delivery' \in [Keys \X Destinations -> Deliveries]
        /\ AttemptLeft'
    BY <1>14, <2>1 DEF TypeOK, AttemptLeft, Unconfigured, Deliveries, Items
  <2>3. BatchCurrent'
    <3>. SUFFICES ASSUME NEW other \in notifier.batch, other # item
                  PROVE  delivery'[<<other[1], other[2]>>] = delivery[<<other[1], other[2]>>]
      BY <1>14 DEF BatchCurrent, Unconfigured, TypeOK
    <3>. QED
      BY <1>14, OtherItem DEF TypeOK, Unconfigured, Items
  <2>. QED
    BY <1>14, <2>2, <2>3 DEF TypeOK, Unconfigured
<1>15. ASSUME NotifierStops
       PROVE  DeliveryInv'
  BY <1>15 DEF TypeOK, AttemptLeft, BatchCurrent, NotifierStops, NoFlush
<1>16. CASE UNCHANGED vars
  BY <1>16 DEF vars, TypeOK, AttemptLeft, BatchCurrent
<1>. QED
  BY <1>1, <1>2, <1>3, <1>4, <1>5, <1>6, <1>7, <1>8, <1>9, <1>10, <1>11, <1>12, <1>13, <1>14, <1>15, <1>16
     DEF Next, Evaluate, Notify

----------------------------------------------------------------------------
(* Durable alerts                                                            *)

\* No step removes an event or a delivery.
StoreGrows ==
    /\ events \subseteq events'
    /\ \A kd \in Keys \X Destinations :
          delivery[kd].status # "none" => delivery'[kd].status # "none"

LEMMA StoreStep == ASSUME DeliveryInv, Emission, [Next]_vars PROVE StoreGrows
<1>. USE DEF StoreGrows, stored
<1>1. ASSUME NEW r \in Refreshes, NEW now \in clock..MaxTime, Begin(r, now)
      PROVE  StoreGrows
  BY <1>1 DEF Begin
<1>2. ASSUME NEW r \in Refreshes, NEW status \in Statuses, Generate(r, status)
      PROVE  StoreGrows
  BY <1>2 DEF Generate
<1>3. ASSUME NEW r \in Refreshes, SaveSnapshot(r)
      PROVE  StoreGrows
  BY <1>3 DEF SaveSnapshot
<1>4. ASSUME NEW r \in Refreshes, ReadState(r)
      PROVE  StoreGrows
  BY <1>4 DEF ReadState
<1>5. ASSUME NEW r \in Refreshes, SaveObserved(r)
      PROVE  StoreGrows
  BY <1>5 DEF SaveObserved
<1>6. ASSUME NEW r \in Refreshes, CreateEvent(r)
      PROVE  StoreGrows
  BY <1>6 DEF CreateEvent
<1>7. ASSUME NEW r \in Refreshes, NEW d \in Destinations, CreateDelivery(r, d)
      PROVE  StoreGrows
  <2>1. Key(r) \in Keys
    BY <1>7, KeyType DEF CreateDelivery, Emission, EmissionOf, DeliveryInv
  <2>. QED
    BY <1>7, <2>1 DEF CreateDelivery, PutDelivery, DeliveryInv, TypeOK
<1>8. ASSUME NEW r \in Refreshes, SaveFinal(r)
      PROVE  StoreGrows
  BY <1>8 DEF SaveFinal
<1>9. ASSUME NEW r \in Refreshes, SaveAlerted(r)
      PROVE  StoreGrows
  BY <1>9 DEF SaveAlerted
<1>10. ASSUME NEW r \in Refreshes, Stops(r)
      PROVE  StoreGrows
  BY <1>10 DEF Stops
<1>11. ASSUME Flush
      PROVE  StoreGrows
  BY <1>11 DEF Flush
<1>12. ASSUME NEW item \in notifier.batch, NEW ok \in BOOLEAN, Post(item, ok)
      PROVE  StoreGrows
  BY <1>12 DEF Post
<1>13. ASSUME SaveAttempt
      PROVE  StoreGrows
  BY <1>13 DEF SaveAttempt, Attempted, DeliveryInv, TypeOK
<1>14. ASSUME NEW item \in notifier.batch, Unconfigured(item)
      PROVE  StoreGrows
  BY <1>14 DEF Unconfigured, DeliveryInv, TypeOK
<1>15. ASSUME NotifierStops
      PROVE  StoreGrows
  BY <1>15 DEF NotifierStops
<1>16. CASE UNCHANGED vars
  BY <1>16 DEF vars
<1>. QED
  BY <1>1, <1>2, <1>3, <1>4, <1>5, <1>6, <1>7, <1>8, <1>9, <1>10, <1>11, <1>12, <1>13, <1>14, <1>15, <1>16
     DEF Next, Evaluate, Notify

LEMMA DurableStays ==
    ASSUME TypeOK, StoreGrows, NEW status, Durable(status)
    PROVE  Durable(status)'
  BY DEF TypeOK, StoreGrows, Durable

\* A refresh that takes no step keeps its emission.
LEMMA EmissionStays ==
    ASSUME DeliveryInv, Emission, StoreGrows, NEW r \in Refreshes, refresh'[r] = refresh[r]
    PROVE  EmissionOf(r)'
<1>1. CASE At(r, "delivering")
  <2>1. Key(r) \in Keys /\ Key(r)' = Key(r) /\ Key(r) \in events
    BY <1>1, KeyType DEF Emission, EmissionOf, DeliveryInv, Key, Recovers
  <2>. QED
    BY <1>1, <2>1 DEF Emission, EmissionOf, At, Recovers, Alerts, DelaySatisfied, StoreGrows
<1>2. CASE ~At(r, "delivering")
  BY <1>2 DEF Emission, EmissionOf, At, Recovers, Alerts, DelaySatisfied
<1>. QED
  BY <1>1, <1>2

\* Every step keeps what the refreshes have emitted.
LEMMA EmissionStep == ASSUME DeliveryInv, Emission, [Next]_vars PROVE Emission'
<1>. SUFFICES ASSUME NEW r \in Refreshes, refresh'[r] # refresh[r]
              PROVE  EmissionOf(r)'
  BY StoreStep, EmissionStays DEF Emission
<1>. USE DEF At
<1>1. ASSUME NEW s \in Refreshes, NEW now \in clock..MaxTime, Begin(s, now)
      PROVE  EmissionOf(r)'
  BY <1>1 DEF Begin, Idle, DeliveryInv, TypeOK, EmissionOf
<1>2. ASSUME NEW s \in Refreshes, NEW status \in Statuses, Generate(s, status)
      PROVE  EmissionOf(r)'
  BY <1>2 DEF Generate, DeliveryInv, TypeOK, EmissionOf, Evaluations
<1>3. ASSUME NEW s \in Refreshes, SaveSnapshot(s)
      PROVE  EmissionOf(r)'
  BY <1>3 DEF SaveSnapshot, Goto, DeliveryInv, TypeOK, EmissionOf, Evaluations
<1>4. ASSUME NEW s \in Refreshes, ReadState(s)
      PROVE  EmissionOf(r)'
  BY <1>4 DEF ReadState, DeliveryInv, TypeOK, EmissionOf, Evaluations
<1>5. ASSUME NEW s \in Refreshes, SaveObserved(s)
      PROVE  EmissionOf(r)'
  <2>1. s = r /\ refresh' = [refresh EXCEPT ![r].pc = IF Recovers(r) \/ Alerts(r) THEN "emitting" ELSE "finishing"]
    BY <1>5 DEF SaveObserved, Goto, DeliveryInv, TypeOK
  <2>2. Recovers(r)' = Recovers(r) /\ Alerts(r)' = Alerts(r)
    BY <2>1 DEF DeliveryInv, TypeOK, Evaluations, Recovers, Alerts, DelaySatisfied
  <2>. QED
    BY <2>1, <2>2 DEF DeliveryInv, TypeOK, Evaluations, EmissionOf
<1>6. ASSUME NEW s \in Refreshes, CreateEvent(s)
      PROVE  EmissionOf(r)'
  <2>1. s = r /\ refresh' = [refresh EXCEPT ![r] = [@ EXCEPT !.pc = "delivering", !.left = Destinations]]
    BY <1>6 DEF CreateEvent, DeliveryInv, TypeOK
  <2>2. /\ refresh'[r].status = refresh[r].status /\ refresh'[r].next = refresh[r].next
        /\ refresh'[r].generated = refresh[r].generated /\ refresh'[r].left = Destinations
    BY <2>1 DEF DeliveryInv, TypeOK, Evaluations
  <2>3. Recovers(r)' = Recovers(r) /\ Alerts(r)' = Alerts(r) /\ Key(r)' = Key(r)
    BY <2>2 DEF Recovers, Alerts, DelaySatisfied, Key
  <2>. QED
    BY <1>6, <2>1, <2>2, <2>3 DEF CreateEvent, Emission, EmissionOf
<1>7. ASSUME NEW s \in Refreshes, NEW d \in Destinations, CreateDelivery(s, d)
      PROVE  EmissionOf(r)'
  <2>1. s = r /\ refresh' = [refresh EXCEPT ![r].left = @ \ {d}]
    BY <1>7 DEF CreateDelivery, DeliveryInv, TypeOK
  <2>2. /\ refresh'[r].status = refresh[r].status /\ refresh'[r].next = refresh[r].next
        /\ refresh'[r].generated = refresh[r].generated /\ refresh'[r].left = refresh[r].left \ {d}
        /\ refresh'[r].pc = refresh[r].pc
    BY <2>1 DEF DeliveryInv, TypeOK, Evaluations
  <2>3. Recovers(r)' = Recovers(r) /\ Alerts(r)' = Alerts(r) /\ Key(r)' = Key(r)
    BY <2>2 DEF Recovers, Alerts, DelaySatisfied, Key
  <2>4. /\ refresh[r].pc = "delivering" /\ Key(r) \in Keys /\ Key(r) \in events
        /\ Recovers(r) \/ Alerts(r)
    BY <1>7, <2>1, KeyType DEF CreateDelivery, Emission, EmissionOf, DeliveryInv
  <2>5. ASSUME NEW x \in Destinations \ (refresh[r].left \ {d})
        PROVE  delivery'[<<Key(r), x>>].status # "none"
    <3>1. CASE x = d
      BY <1>7, <2>1, <2>4, <3>1 DEF CreateDelivery, PutDelivery, DeliveryInv, TypeOK
    <3>2. CASE x # d
      BY <2>4, <3>2, StoreStep DEF Emission, EmissionOf, StoreGrows
    <3>. QED
      BY <3>1, <3>2
  <2>6. events' = events
    BY <1>7 DEF CreateDelivery
  <2>. QED
    BY <2>2, <2>3, <2>4, <2>5, <2>6 DEF EmissionOf
<1>8. ASSUME NEW s \in Refreshes, SaveFinal(s)
      PROVE  EmissionOf(r)'
  BY <1>8 DEF SaveFinal, Idle, DeliveryInv, TypeOK, EmissionOf, Evaluations
<1>9. ASSUME NEW s \in Refreshes, SaveAlerted(s)
      PROVE  EmissionOf(r)'
  BY <1>9 DEF SaveAlerted, Idle, DeliveryInv, TypeOK, EmissionOf, Evaluations
<1>10. ASSUME NEW s \in Refreshes, Stops(s)
      PROVE  EmissionOf(r)'
  BY <1>10 DEF Stops, Idle, DeliveryInv, TypeOK, EmissionOf
<1>11. ASSUME Notify \/ NotifierStops \/ UNCHANGED vars
       PROVE  FALSE
  BY <1>11 DEF Notify, Flush, Post, SaveAttempt, Unconfigured, NotifierStops, vars
<1>. QED
  BY <1>1, <1>2, <1>3, <1>4, <1>5, <1>6, <1>7, <1>8, <1>9, <1>10, <1>11
     DEF Next, Evaluate

\* Every step keeps the marks durable.
LEMMA MarksStep == ASSUME IInv, [Next]_vars PROVE MarksDurable'
<1>. USE DEF IInv, MarksDurable
<1>1. DeliveryInv /\ StoreGrows
  BY StoreStep DEF DeliveryInv
<1>2. /\ Durable(state.alerted) /\ Durable("none")'
      /\ \A r \in Refreshes : Durable(refresh[r].next.alerted)
  BY DEF Durable
<1>3. ASSUME NEW r \in Refreshes, ReadState(r)
      PROVE  MarksDurable'
  <2>1. \A x \in Refreshes : refresh'[x].next.alerted \in {refresh[x].next.alerted, state.alerted}
    BY <1>3 DEF ReadState, Observed, TypeOK, Evaluations
  <2>2. state' = state
    BY <1>3 DEF ReadState, stored
  <2>. QED
    BY <1>1, <1>2, <2>1, <2>2, DurableStays
<1>4. ASSUME NEW r \in Refreshes, SaveObserved(r)
      PROVE  MarksDurable'
  <2>1. /\ \A x \in Refreshes : refresh'[x].next.alerted = refresh[x].next.alerted
        /\ state'.alerted = refresh[r].next.alerted
    BY <1>4 DEF SaveObserved, Goto, TypeOK, Evaluations
  <2>. QED
    BY <1>1, <1>2, <2>1, DurableStays
<1>5. ASSUME NEW r \in Refreshes, SaveFinal(r)
      PROVE  MarksDurable'
  <2>1. /\ \A x \in Refreshes : refresh'[x].next.alerted \in {refresh[x].next.alerted, "none"}
        /\ state'.alerted = refresh[r].next.alerted
    BY <1>5 DEF SaveFinal, Idle, NoState, TypeOK
  <2>. QED
    BY <1>1, <1>2, <2>1, DurableStays
<1>6. ASSUME NEW r \in Refreshes, SaveAlerted(r)
      PROVE  MarksDurable'
  <2>1. \A x \in Refreshes : refresh'[x].next.alerted \in {refresh[x].next.alerted, "none"}
    BY <1>6 DEF SaveAlerted, Idle, NoState, TypeOK
  <2>2. state'.alerted = IF Recovers(r) THEN "none" ELSE refresh[r].status
    BY <1>6 DEF SaveAlerted, TypeOK, Evaluations, States
  <2>3. ASSUME ~Recovers(r) PROVE Durable(refresh[r].status)
    <3>1. /\ Key(r) \in events
          /\ \A d \in Destinations : delivery[<<Key(r), d>>].status # "none"
      BY <1>6 DEF SaveAlerted, Emission, EmissionOf
    <3>2. Key(r).kind = "alert" /\ Key(r).status = refresh[r].status
      BY <2>3 DEF Key
    <3>. QED
      BY <3>1, <3>2 DEF Durable
  <2>. QED
    BY <1>1, <1>2, <2>1, <2>2, <2>3, DurableStays
<1>7. ASSUME NEW r \in Refreshes,
             \/ \E now \in clock..MaxTime : Begin(r, now)
             \/ \E status \in Statuses : Generate(r, status)
             \/ SaveSnapshot(r) \/ CreateEvent(r) \/ Stops(r)
             \/ \E d \in Destinations : CreateDelivery(r, d)
      PROVE  MarksDurable'
  <2>1. \A x \in Refreshes : refresh'[x].next.alerted \in {refresh[x].next.alerted, "none"}
    <3>1. CASE \E now \in clock..MaxTime : Begin(r, now)
      <4>1. PICK now \in clock..MaxTime : Begin(r, now)
        BY <3>1
      <4>2. refresh'[r].next.alerted = "none"
        BY <4>1 DEF Begin, Idle, NoState, TypeOK
      <4>. QED
        BY <4>1, <4>2 DEF Begin, TypeOK
    <3>6. CASE Stops(r)
      BY <3>6 DEF Stops, Idle, NoState, TypeOK
    <3>2. CASE SaveSnapshot(r)
      BY <3>2 DEF SaveSnapshot, Goto, TypeOK, Evaluations
    <3>3. CASE CreateEvent(r)
      BY <3>3 DEF CreateEvent, TypeOK, Evaluations
    <3>4. CASE \E d \in Destinations : CreateDelivery(r, d)
      BY <3>4 DEF CreateDelivery, TypeOK, Evaluations
    <3>5. CASE \E status \in Statuses : Generate(r, status)
      BY <3>5 DEF Generate, TypeOK, Evaluations
    <3>. QED
      BY <1>7, <3>1, <3>2, <3>3, <3>4, <3>5, <3>6
  <2>2. state' = state
    BY <1>7 DEF Begin, Generate, SaveSnapshot, CreateEvent, Stops, CreateDelivery, stored
  <2>. QED
    BY <1>1, <1>2, <2>1, <2>2, DurableStays
<1>8. CASE Notify \/ NotifierStops \/ UNCHANGED vars
  <2>1. refresh' = refresh /\ state' = state
    BY <1>8 DEF Notify, Flush, Post, SaveAttempt, Unconfigured, NotifierStops, vars, stored
  <2>. QED
    BY <1>1, <1>2, <2>1, DurableStays
<1>. QED
  BY <1>3, <1>4, <1>5, <1>6, <1>7, <1>8 DEF Next, Evaluate

----------------------------------------------------------------------------
(* Theorems                                                                  *)

LEMMA Inductive == Spec => []IInv
<1>1. ASSUME Init PROVE IInv
  <2>1. MarksDurable /\ Emission
    BY <1>1 DEF Init, MarksDurable, Durable, Emission, EmissionOf, At, Idle, NoState
  <2>. QED
    BY <1>1, <2>1, DeliveryInit DEF IInv, DeliveryInv
<1>2. ASSUME IInv, [Next]_vars PROVE IInv'
  BY <1>2, DeliveryStep, EmissionStep, MarksStep DEF IInv, DeliveryInv
<1>. QED
  BY <1>1, <1>2, PTL DEF Spec

\* The types, with the bound on the attempts of a delivery (#deliver), for any number
\* of overlapping refreshes.
THEOREM AlertTypes == Spec => []TypeOK
<1>1. IInv => TypeOK
  BY DEF IInv
<1>. QED
  BY <1>1, Inductive, PTL

\* An alert that is marked as given (#evaluateCapability) is in the store with its
\* deliveries, for any number of overlapping refreshes and stops.
THEOREM AlertsDurable == Spec => []AlertedIsDurable
<1>1. IInv => AlertedIsDurable
  BY DEF IInv, MarksDurable, Durable, AlertedIsDurable
<1>. QED
  BY <1>1, Inductive, PTL

\* A settled delivery stays settled: every write to it is either a put that requires
\* its absence (createHealthAlertEvent) or the record of an attempt of a pending one
\* (saveHealthAlertDelivery).
THEOREM SettledDeliveries == Spec => DeliverySettles
<1>. DEFINE Settled == \A k \in Keys, d \in Destinations :
          delivery[<<k, d>>].status \in {"delivered", "failed"}
              => delivery'[<<k, d>>] = delivery[<<k, d>>]
<1>1. ASSUME IInv, [Next]_vars PROVE [Settled]_vars
  <2>. USE <1>1 DEF IInv
  <2>1. ASSUME NEW r \in Refreshes, NEW d \in Destinations, CreateDelivery(r, d)
        PROVE  Settled
    <3>1. Key(r) \in Keys
      BY <2>1, KeyType DEF CreateDelivery, Emission, EmissionOf
    <3>. QED
      BY <2>1, <3>1 DEF CreateDelivery, PutDelivery, TypeOK
  <2>2. ASSUME SaveAttempt
        PROVE  Settled
    <3>1. PICK post \in notifier.posted :
            delivery' = [delivery EXCEPT ![<<post.item[1], post.item[2]>>] = Attempted(post.item[3], post.ok)]
      BY <2>2 DEF SaveAttempt
    <3>2. delivery[<<post.item[1], post.item[2]>>].status = "pending"
      BY DEF TypeOK, BatchCurrent
    <3>. QED
      BY <3>1, <3>2 DEF TypeOK
  <2>3. ASSUME NEW item \in notifier.batch, Unconfigured(item)
        PROVE  Settled
    <3>1. delivery[<<item[1], item[2]>>].status = "pending"
      BY DEF TypeOK, BatchCurrent
    <3>. QED
      BY <2>3, <3>1 DEF Unconfigured, TypeOK
  <2>4. ASSUME delivery' = delivery
        PROVE  Settled
    BY <2>4
  <2>5. ASSUME NEW r \in Refreshes,
               \/ \E now \in clock..MaxTime : Begin(r, now)
               \/ \E status \in Statuses : Generate(r, status)
               \/ SaveSnapshot(r) \/ ReadState(r) \/ SaveObserved(r) \/ CreateEvent(r)
               \/ SaveFinal(r) \/ SaveAlerted(r) \/ Stops(r)
        PROVE  delivery' = delivery
    BY <2>5 DEF Begin, Generate, SaveSnapshot, ReadState, SaveObserved, CreateEvent, SaveFinal,
       SaveAlerted, Stops, stored
  <2>6. ASSUME \/ Flush \/ NotifierStops
               \/ \E item \in notifier.batch, ok \in BOOLEAN : Post(item, ok)
               \/ UNCHANGED vars
        PROVE  delivery' = delivery
    BY <2>6 DEF Flush, NotifierStops, Post, vars, stored
  <2>. QED
    BY <2>1, <2>2, <2>3, <2>4, <2>5, <2>6 DEF Next, Evaluate, Notify
<1>2. DeliverySettles <=> [][Settled]_vars
  BY DEF DeliverySettles
<1>. QED
  BY <1>1, <1>2, Inductive, PTL DEF Spec

----------------------------------------------------------------------------
(* One event per episode, when refreshes do not overlap                      *)

OneRefresh == \A r, s \in Refreshes : r = s

Entries == [kind : {"alert", "recovery"}, status : Statuses, episode : Nat]

\* The refresh under way generated the status that was seen last ...
Latest(r) ==
    refresh[r].pc \notin {"idle", "collecting"} =>
        refresh[r].status = seen.status /\ refresh[r].episode = seen.number

\* ... it continues the episode in the store, or begins one ...
Continues(r) ==
    At(r, "observing") =>
        /\ refresh[r].next.observed = refresh[r].status
        /\ state.observed = refresh[r].status => refresh[r].next.since = state.since

\* ... and it emits nothing before the episode is in the store.
Persisted(r) ==
    refresh[r].pc \in {"emitting", "delivering", "finishing"} =>
        /\ refresh[r].next.observed = refresh[r].status
        /\ state.observed = refresh[r].status
        /\ refresh[r].next.since = state.since

\* No event is of a later episode than the last one seen, and the key of an event
\* of that one is the key its repetition would have.
LogCurrent ==
    /\ log \in Seq(Entries)
    /\ \A i \in 1..Len(log) :
          /\ log[i].episode <= seen.number
          /\ log[i].episode = seen.number =>
                /\ log[i].status = seen.status /\ state.observed = seen.status
                /\ [kind |-> log[i].kind, status |-> log[i].status, since |-> state.since] \in events

EpisodeInv ==
    /\ LogCurrent /\ OneEventPerEpisode
    /\ \A r \in Refreshes : Latest(r) /\ Continues(r) /\ Persisted(r)

\* An event of the episode under way.
Current(i) == log[i].episode = seen.number

\* While the log and the episode under way stay, so does what is said of them.
LEMMA LogStays ==
    ASSUME LogCurrent, log' = log, seen' = seen, events \subseteq events',
           ASSUME NEW i \in 1..Len(log), Current(i)
           PROVE  state'.observed = state.observed /\ state'.since = state.since
    PROVE  LogCurrent'
<1>. SUFFICES ASSUME NEW i \in 1..Len(log), Current(i)
              PROVE  /\ state'.observed = seen.status
                     /\ [kind |-> log[i].kind, status |-> log[i].status, since |-> state'.since] \in events'
  BY DEF LogCurrent, Current
<1>. QED
  BY DEF LogCurrent, Current

\* A refresh that does not move keeps its part of the invariant.
LEMMA RefreshStays ==
    ASSUME NEW r \in Refreshes, Latest(r), Continues(r), Persisted(r),
           refresh' = refresh, seen' = seen, state' = state
    PROVE  Latest(r)' /\ Continues(r)' /\ Persisted(r)'
  BY DEF Latest, Continues, Persisted, At

\* The put of an event adds one that the log does not hold.
LEMMA EventStep ==
    ASSUME TypeOK, EpisodeInv, NEW r \in Refreshes, CreateEvent(r)
    PROVE  LogCurrent' /\ OneEventPerEpisode'
<1>. DEFINE entry == [kind |-> Key(r).kind, status |-> Key(r).status, episode |-> refresh[r].episode]
<1>1. /\ refresh[r].status = seen.status /\ refresh[r].episode = seen.number
      /\ state.observed = seen.status /\ refresh[r].next.since = state.since
      /\ refresh[r].status \in Statuses /\ seen.number \in Nat
  BY DEF CreateEvent, EpisodeInv, Latest, Persisted, At, TypeOK, Evaluations
<1>2. seen' = seen /\ state' = state /\ events' = events \cup {Key(r)}
  BY DEF CreateEvent
<1>3. CASE Key(r) \in events
  <2>1. log' = log
    BY <1>3 DEF CreateEvent
  <2>. QED
    BY <1>2, <2>1, LogStays DEF EpisodeInv, OneEventPerEpisode
<1>4. CASE Key(r) \notin events
  <2>1. log' = Append(log, entry)
    BY <1>4 DEF CreateEvent
  <2>2. entry \in Entries /\ entry.status = seen.status /\ entry.episode = seen.number
    BY <1>1 DEF Key, Entries
  <2>3. [kind |-> entry.kind, status |-> entry.status, since |-> state.since] = Key(r)
    BY <1>1 DEF Key
  <2>4. ASSUME NEW i \in 1..Len(log) PROVE log[i] # entry
    <3>. SUFFICES ASSUME log[i] = entry PROVE FALSE
      OBVIOUS
    <3>1. [kind |-> log[i].kind, status |-> log[i].status, since |-> state.since] \in events
      <4>. HIDE DEF entry
      <4>. QED
        BY <2>2 DEF EpisodeInv, LogCurrent
    <3>. QED
      BY <1>4, <2>3, <3>1
  <2>. HIDE DEF entry
  <2>5. /\ log' \in Seq(Entries) /\ Len(log') = Len(log) + 1 /\ Len(log) \in Nat
        /\ log'[Len(log) + 1] = entry
        /\ \A i \in 1..Len(log) : log'[i] = log[i]
    BY <2>1, <2>2 DEF EpisodeInv, LogCurrent
  <2>6. LogCurrent'
    <3>. SUFFICES ASSUME NEW i \in 1..Len(log')
                  PROVE  /\ log'[i].episode <= seen.number
                         /\ log'[i].episode = seen.number =>
                              /\ log'[i].status = seen.status /\ state.observed = seen.status
                              /\ [kind |-> log'[i].kind, status |-> log'[i].status, since |-> state.since]
                                    \in events'
      BY <1>2, <2>5 DEF LogCurrent
    <3>1. CASE i = Len(log) + 1
      BY <1>1, <1>2, <2>2, <2>3, <2>5, <3>1
    <3>2. CASE i \in 1..Len(log)
      BY <1>2, <2>5, <3>2 DEF EpisodeInv, LogCurrent
    <3>. QED
      BY <2>5, <3>1, <3>2
  <2>7. OneEventPerEpisode'
    <3>. SUFFICES ASSUME NEW i \in 1..(Len(log) + 1), NEW j \in 1..(Len(log) + 1), log'[i] = log'[j]
                  PROVE  i = j
      BY <2>5 DEF OneEventPerEpisode
    <3>1. CASE i = Len(log) + 1 \/ j = Len(log) + 1
      BY <2>4, <2>5, <3>1
    <3>2. CASE i \in 1..Len(log) /\ j \in 1..Len(log)
      BY <2>5, <3>2 DEF EpisodeInv, OneEventPerEpisode
    <3>. QED
      BY <2>5, <3>1, <3>2
  <2>. QED
    BY <2>6, <2>7
<1>. QED
  BY <1>3, <1>4

\* Every step keeps the events of the episode under way repeatable.
LEMMA EpisodeStep == ASSUME OneRefresh, IInv, EpisodeInv, [Next]_vars PROVE EpisodeInv'
<1>. USE DEF IInv
<1>1. events \subseteq events'
  BY StoreStep DEF StoreGrows, DeliveryInv
<1>2. ASSUME log' = log PROVE OneEventPerEpisode'
  BY <1>2 DEF EpisodeInv, OneEventPerEpisode
<1>3. ASSUME log' = log, seen' = seen, state' = state PROVE LogCurrent'
  BY <1>1, <1>3, LogStays DEF EpisodeInv
<1>4. ASSUME NEW r \in Refreshes PROVE \A x \in Refreshes : x = r
  BY DEF OneRefresh
<1>5. ASSUME NEW r \in Refreshes, NEW now \in clock..MaxTime, Begin(r, now)
      PROVE  EpisodeInv'
  <2>1. refresh'[r].pc = "collecting"
    BY <1>5 DEF Begin, Idle, TypeOK
  <2>2. Latest(r)' /\ Continues(r)' /\ Persisted(r)'
    BY <2>1 DEF Latest, Continues, Persisted, At
  <2>. QED
    BY <1>2, <1>3, <1>4, <1>5, <2>2 DEF Begin, EpisodeInv, stored, history
<1>6. ASSUME NEW r \in Refreshes, NEW status \in Statuses, Generate(r, status)
      PROVE  EpisodeInv'
  <2>1. /\ refresh'[r].pc = "saving" /\ refresh'[r].status = status
        /\ refresh'[r].episode = seen'.number /\ seen'.status = status
        /\ seen'.number = IF seen.status = status THEN seen.number ELSE seen.number + 1
        /\ log' = log /\ state' = state
    BY <1>6 DEF Generate, TypeOK, Evaluations, stored
  <2>2. Latest(r)' /\ Continues(r)' /\ Persisted(r)'
    BY <2>1 DEF Latest, Continues, Persisted, At
  <2>3. LogCurrent'
    <3>1. CASE seen.status = status
      <4>. SUFFICES ASSUME NEW i \in 1..Len(log)
                    PROVE  /\ log[i].episode <= seen'.number
                           /\ log[i].episode = seen'.number =>
                                /\ log[i].status = seen'.status /\ state.observed = seen'.status
                                /\ [kind |-> log[i].kind, status |-> log[i].status, since |-> state.since]
                                      \in events'
        BY <2>1 DEF EpisodeInv, LogCurrent
      <4>. QED
        BY <1>1, <2>1, <3>1 DEF EpisodeInv, LogCurrent
    <3>2. CASE seen.status # status
      <4>1. ASSUME NEW i \in 1..Len(log)
            PROVE  log[i].episode <= seen'.number /\ log[i].episode # seen'.number
        <5>1. log[i].episode \in Nat /\ log[i].episode <= seen.number /\ seen.number \in Nat
          <6>1. log[i] \in Entries
            BY DEF EpisodeInv, LogCurrent
          <6>2. log[i].episode \in Nat
            BY <6>1 DEF Entries
          <6>. QED
            BY <6>2 DEF EpisodeInv, LogCurrent, TypeOK
        <5>. QED
          BY <2>1, <3>2, <5>1
      <4>. QED
        BY <2>1, <4>1 DEF EpisodeInv, LogCurrent
    <3>. QED
      BY <3>1, <3>2
  <2>. QED
    BY <1>2, <1>4, <2>1, <2>2, <2>3 DEF EpisodeInv
<1>7. ASSUME NEW r \in Refreshes, SaveSnapshot(r)
      PROVE  EpisodeInv'
  <2>1. /\ refresh'[r].pc = "reading" /\ refresh[r].pc = "saving"
        /\ refresh'[r].status = refresh[r].status /\ refresh'[r].episode = refresh[r].episode
    BY <1>7 DEF SaveSnapshot, Goto, At, TypeOK, Evaluations
  <2>2. Latest(r)' /\ Continues(r)' /\ Persisted(r)'
    BY <1>7, <2>1 DEF SaveSnapshot, Latest, Continues, Persisted, At, EpisodeInv, history
  <2>. QED
    BY <1>2, <1>3, <1>4, <1>7, <2>2 DEF SaveSnapshot, EpisodeInv, history
<1>8. ASSUME NEW r \in Refreshes, ReadState(r)
      PROVE  EpisodeInv'
  <2>1. /\ refresh'[r].pc = "observing" /\ refresh[r].pc = "reading"
        /\ refresh'[r].status = refresh[r].status /\ refresh'[r].episode = refresh[r].episode
        /\ refresh'[r].next = Observed(r)
    BY <1>8 DEF ReadState, At, TypeOK, Evaluations
  <2>2. Latest(r)' /\ Continues(r)' /\ Persisted(r)'
    BY <1>8, <2>1 DEF ReadState, Observed, Latest, Continues, Persisted, At, EpisodeInv, stored, history
  <2>. QED
    BY <1>2, <1>3, <1>4, <1>8, <2>2 DEF ReadState, EpisodeInv, stored, history
<1>9. ASSUME NEW r \in Refreshes, SaveObserved(r)
      PROVE  EpisodeInv'
  <2>1. /\ refresh'[r].pc \in {"emitting", "finishing"} /\ refresh[r].pc = "observing"
        /\ refresh'[r].status = refresh[r].status /\ refresh'[r].episode = refresh[r].episode
        /\ refresh'[r].next = refresh[r].next
    BY <1>9 DEF SaveObserved, Goto, At, TypeOK, Evaluations
  <2>2. state' = refresh[r].next /\ log' = log /\ seen' = seen
    BY <1>9 DEF SaveObserved, history
  <2>3. Latest(r)' /\ Continues(r)' /\ Persisted(r)'
    BY <2>1, <2>2 DEF Latest, Continues, Persisted, At, EpisodeInv
  <2>4. ASSUME NEW i \in 1..Len(log), Current(i)
        PROVE  state'.observed = state.observed /\ state'.since = state.since
    <3>1. state.observed = seen.status
      BY <2>4 DEF Current, EpisodeInv, LogCurrent
    <3>. QED
      BY <2>1, <2>2, <3>1 DEF EpisodeInv, Latest, Continues, At
  <2>5. LogCurrent'
    BY <1>1, <2>2, <2>4, LogStays DEF EpisodeInv
  <2>. QED
    BY <1>2, <1>4, <2>2, <2>3, <2>5 DEF EpisodeInv
<1>10. ASSUME NEW r \in Refreshes, CreateEvent(r)
       PROVE  EpisodeInv'
  <2>1. /\ refresh'[r].pc = "delivering" /\ refresh[r].pc = "emitting"
        /\ refresh'[r].status = refresh[r].status /\ refresh'[r].episode = refresh[r].episode
        /\ refresh'[r].next = refresh[r].next
    BY <1>10 DEF CreateEvent, At, TypeOK, Evaluations
  <2>2. Latest(r)' /\ Continues(r)' /\ Persisted(r)'
    BY <1>10, <2>1 DEF CreateEvent, Latest, Continues, Persisted, At, EpisodeInv
  <2>. QED
    BY <1>4, <1>10, <2>2, EventStep DEF EpisodeInv
<1>11. ASSUME NEW r \in Refreshes, NEW d \in Destinations, CreateDelivery(r, d)
       PROVE  EpisodeInv'
  <2>1. /\ refresh'[r].pc = refresh[r].pc /\ refresh[r].pc = "delivering"
        /\ refresh'[r].status = refresh[r].status /\ refresh'[r].episode = refresh[r].episode
        /\ refresh'[r].next = refresh[r].next
    BY <1>11 DEF CreateDelivery, At, TypeOK, Evaluations
  <2>2. Latest(r)' /\ Continues(r)' /\ Persisted(r)'
    BY <1>11, <2>1 DEF CreateDelivery, Latest, Continues, Persisted, At, EpisodeInv, history
  <2>. QED
    BY <1>2, <1>3, <1>4, <1>11, <2>2 DEF CreateDelivery, EpisodeInv, history
<1>12. ASSUME NEW r \in Refreshes, SaveFinal(r) \/ SaveAlerted(r)
       PROVE  EpisodeInv'
  <2>1. refresh'[r].pc = "idle" /\ log' = log /\ seen' = seen
    BY <1>12 DEF SaveFinal, SaveAlerted, Idle, TypeOK, history
  <2>2. Latest(r)' /\ Continues(r)' /\ Persisted(r)'
    BY <2>1 DEF Latest, Continues, Persisted, At
  <2>3. state'.observed = refresh[r].next.observed /\ state'.since = refresh[r].next.since
    BY <1>12 DEF SaveFinal, SaveAlerted, TypeOK, Evaluations, States
  <2>4. state'.observed = state.observed /\ state'.since = state.since
    BY <1>12, <2>3 DEF SaveFinal, SaveAlerted, At, EpisodeInv, Persisted
  <2>5. LogCurrent'
    BY <1>1, <2>1, <2>4, LogStays DEF EpisodeInv
  <2>. QED
    BY <1>2, <1>4, <2>1, <2>2, <2>5 DEF EpisodeInv
<1>13. ASSUME NEW r \in Refreshes, Stops(r)
       PROVE  EpisodeInv'
  <2>1. refresh'[r].pc = "idle"
    BY <1>13 DEF Stops, Idle, TypeOK
  <2>2. Latest(r)' /\ Continues(r)' /\ Persisted(r)'
    BY <2>1 DEF Latest, Continues, Persisted, At
  <2>. QED
    BY <1>2, <1>3, <1>4, <1>13, <2>2 DEF Stops, EpisodeInv, stored, history
<1>14. CASE Notify \/ NotifierStops \/ UNCHANGED vars
  <2>1. log' = log /\ seen' = seen /\ state' = state /\ refresh' = refresh
    BY <1>14 DEF Notify, Flush, Post, SaveAttempt, Unconfigured, NotifierStops, vars, stored, history
  <2>. QED
    BY <1>2, <1>3, <2>1, RefreshStays DEF EpisodeInv
<1>. QED
  BY <1>5, <1>6, <1>7, <1>8, <1>9, <1>10, <1>11, <1>12, <1>13, <1>14 DEF Next, Evaluate

\* One episode of a status causes one event, in spite of the stops between any two
\* writes of #evaluateCapability, as long as its refreshes do not overlap: the
\* hypothesis is the one the comment at the write of the boundary takes for granted.
THEOREM OneEvent == ASSUME OneRefresh PROVE Spec => []OneEventPerEpisode
<1>1. ASSUME Init PROVE EpisodeInv
  BY <1>1 DEF Init, EpisodeInv, LogCurrent, OneEventPerEpisode, Latest, Continues, Persisted, At, Idle
<1>2. ASSUME IInv, EpisodeInv, [Next]_vars PROVE EpisodeInv'
  BY <1>2, EpisodeStep
<1>3. EpisodeInv => OneEventPerEpisode
  BY DEF EpisodeInv
<1>. QED
  BY <1>1, <1>2, <1>3, Inductive, PTL DEF Spec

=============================================================================
