----------------------------- MODULE HttpRequest -----------------------------
(***************************************************************************)
(* ONE plain HTTP request through the proxy (forward-proxy.ts): the        *)
(* attempts to reach a provider, the commitment, and the exchange that is  *)
(* left to the callbacks of the two HTTP streams.                          *)
(*                                                                         *)
(* The attempt is suspended at an await; events of the caller's response,  *)
(* of the provider's socket and of the upstream request happen meanwhile.  *)
(* Budgets are not measured: they expire at any moment (their arithmetic   *)
(* is in TunnelOperation).                                                 *)
(***************************************************************************)
EXTENDS Integers

CONSTANT MaxAttempts  \* retryPolicy.maxAttempts (1 when retries are not allowed)

ASSUME RequestConstants == MaxAttempts \in Nat \ {0}

VARIABLES
    pc,        \* the await at which the handler is suspended
    attempt,   \* attemptIndex
    err,       \* whether the error of the failing attempt is retryable
    late,      \* the operation's deadline has passed
    signal,    \* the AbortSignal of the attempt's budget
    cancelled, \* the caller's AbortController was aborted
    response,  \* the response to the caller
    heads,     \* response heads written so far
    up,        \* up[a]: the provider socket of attempt a
    answering, \* the upstream response of this attempt is being piped
    finished,  \* attemptFinished of this attempt
    sent,      \* attempts whose request was piped to the provider (history)
    leased,    \* leased[a]: the slot lease of attempt a is stored
    lost,      \* attempts whose lease nobody will remove (history)
    records    \* records[a]: usage records of attempt a

handler == <<pc, attempt, err>>
budget == <<late, signal, cancelled>>
answer == <<response, heads>>
exchange == <<answering, sent>>
books == <<finished, leased, lost, records>>
requestVars == <<handler, budget, answer, up, exchange, books>>

Attempts == 0..(MaxAttempts - 1)
Reasons == {"retryable", "fatal"}
Establishing == {"resolving", "connecting", "admitting", "tracking", "failing"}
Before == {"authenticating", "validating"} \cup Establishing

RequestInit ==
    /\ pc = "authenticating" /\ attempt = 0 /\ err = "fatal"
    /\ late = FALSE /\ signal = "none" /\ cancelled = FALSE
    /\ response = "none" /\ heads = 0
    /\ up = [a \in Attempts |-> "none"]
    /\ answering = FALSE /\ sent = {}
    /\ finished = FALSE
    /\ leased = [a \in Attempts |-> FALSE] /\ lost = {}
    /\ records = [a \in Attempts |-> 0]

Goto(label) == pc' = label /\ UNCHANGED <<attempt, err>>

----------------------------------------------------------------------------
(* Answers to the caller and the books of an attempt.                        *)

\* #sendError: a response whose head is out can only be cut off.
SendError ==
    IF response = "none"
    THEN response' = "refused" /\ heads' = heads + 1
    ELSE response' = "destroyed" /\ UNCHANGED heads

\* The lease of the attempt is deleted, or the rejected deletion is ignored.
RemoveLease ==
    \/ leased' = [leased EXCEPT ![attempt] = FALSE] /\ UNCHANGED lost
    \/ leased[attempt] /\ lost' = lost \cup {attempt} /\ UNCHANGED leased

Record == records' = [records EXCEPT ![attempt] = @ + 1]

\* finishAttempt, once per attempt; stopTracking is known after the tracking.
StopTracking == IF pc = "committed" THEN RemoveLease ELSE UNCHANGED <<leased, lost>>

FinishAttempt ==
    IF finished
    THEN UNCHANGED books
    ELSE finished' = TRUE /\ StopTracking /\ Record

\* An error event without a listener ends the task.
TaskDies ==
    /\ pc' = "crashed" /\ UNCHANGED <<attempt, err>>
    /\ response' = "destroyed" /\ cancelled' = TRUE
    /\ up' = [a \in Attempts |-> IF up[a] = "none" THEN "none" ELSE "closed"]
    /\ lost' = {a \in Attempts : leased[a]}
    /\ UNCHANGED <<late, signal, heads, exchange, finished, leased, records>>

----------------------------------------------------------------------------
(* Before the first attempt.                                                 *)

\* beginAttemptBudget: it throws when the operation has no time left.
BeginBudget == signal' = (IF cancelled THEN "caller" ELSE "running") /\ UNCHANGED <<late, cancelled>>

\* The outer catch block.
Refuse ==
    /\ Goto("over") /\ SendError
    /\ signal' = "finished" /\ UNCHANGED <<late, cancelled>>

\* The caller is authenticated and its request is acceptable.
Authenticated ==
    /\ pc = "authenticating"
    /\ \/ late /\ Refuse
       \/ ~late /\ Goto("validating") /\ BeginBudget /\ UNCHANGED answer
    /\ UNCHANGED <<up, exchange, books>>

\* Credentials, protocol or target are refused, or the validation fails.
Refused ==
    /\ pc \in {"authenticating", "validating"}
    /\ Refuse
    /\ UNCHANGED <<up, exchange, books>>

Validated ==
    /\ pc = "validating"
    /\ Goto("resolving")
    /\ UNCHANGED <<budget, answer, up, exchange, books>>

----------------------------------------------------------------------------
(* An attempt.                                                               *)

\* The catch block of the attempt ends the budget and destroys the socket.
Fail(reason) ==
    /\ pc' = "failing" /\ err' = reason /\ UNCHANGED attempt
    /\ signal' = "finished" /\ UNCHANGED <<late, cancelled>>
    /\ up' = [up EXCEPT ![attempt] = IF pc = "resolving" THEN "none" ELSE "closed"]
    /\ UNCHANGED <<answer, exchange>>

\* routes.resolve selects a candidate and claims a lease for it.
ResolveOk ==
    /\ pc = "resolving"
    /\ Goto("connecting")
    /\ up' = [up EXCEPT ![attempt] = "connecting"]
    /\ leased' = [leased EXCEPT ![attempt] = TRUE]
    /\ UNCHANGED <<budget, answer, exchange, finished, lost, records>>

\* resolve() throws without a claim, after removing it, or leaving it behind.
ResolveFails(reason, left) ==
    /\ pc = "resolving"
    /\ Fail(reason)
    /\ leased' = [leased EXCEPT ![attempt] = left]
    /\ lost' = IF left THEN lost \cup {attempt} ELSE lost
    /\ UNCHANGED <<finished, records>>

\* openProviderConnection.  The check of the caller that follows it cannot see
\* more than the budget's signal did.
ConnectOk ==
    /\ pc = "connecting" /\ signal = "running"
    /\ Goto("admitting")
    /\ signal' = "finished"
    /\ up' = [up EXCEPT ![attempt] = "open"]
    /\ UNCHANGED <<late, cancelled, answer, exchange, books>>

ConnectFails(reason) ==
    /\ pc = "connecting" /\ signal = "running"
    /\ Fail(reason)
    /\ UNCHANGED books

\* The budget's signal is aborted.  openProviderConnection detaches its error
\* listener and then destroys the socket with the error.
AbortObserved ==
    /\ signal \in {"timeout", "caller"}
    /\ \/ pc = "validating" /\ Refuse /\ UNCHANGED <<up, exchange, books>>
       \/ /\ pc = "resolving"
          /\ Fail(IF signal = "timeout" THEN "retryable" ELSE "fatal")
          /\ UNCHANGED books
       \/ pc = "connecting" /\ TaskDies

\* assertNewConnectionAllowed; the upstream request is created on the socket.
Admitted ==
    /\ pc = "admitting"
    /\ Goto("tracking")
    /\ UNCHANGED <<budget, answer, up, exchange, books>>

AdmissionFails(reason) ==
    /\ pc = "admitting"
    /\ Fail(reason)
    /\ UNCHANGED books

\* trackActiveConnection is rejected.  The catch block destroys the socket, and
\* the upstream request, which has no error listener yet, reports that it hung up.
TrackFails(reason) ==
    /\ pc = "tracking"
    /\ IF up[attempt] = "open" /\ ~answering
       THEN TaskDies
       ELSE Fail(reason) /\ UNCHANGED books

\* Tracked: the listeners are attached and the request is piped.  An attempt that
\* was finished while it was being tracked is not untracked by anybody.
Commit ==
    /\ pc = "tracking"
    /\ Goto("committed")
    /\ sent' = sent \cup {attempt}
    /\ lost' = IF finished THEN lost \cup {attempt} ELSE lost
    /\ UNCHANGED <<budget, answer, up, answering, finished, leased, records>>

\* Mutant of Retry: the head of the response is not looked at.
RetryBlindly == attempt + 1 < MaxAttempts /\ ~cancelled /\ err = "retryable"

Retry ==
    /\ attempt + 1 < MaxAttempts
    /\ response = "none" /\ ~cancelled
    /\ err = "retryable"

\* Mutant of Release: only what was tracked is released.
ReleaseNothing == UNCHANGED <<leased, lost>>

\* releaseCandidate: nothing to do when resolve() returned no candidate.
Release == IF up[attempt] = "none" THEN UNCHANGED <<leased, lost>> ELSE RemoveLease

\* The rest of the catch block: the failure and the release are stored, the
\* attempt is finished, and the next one begun or the caller refused.
Settle ==
    /\ pc = "failing"
    /\ Release
    /\ IF finished THEN UNCHANGED records ELSE Record
    /\ IF Retry /\ ~late
       THEN /\ pc' = "resolving" /\ attempt' = attempt + 1 /\ UNCHANGED err
            /\ finished' = FALSE /\ answering' = FALSE
            /\ BeginBudget
            /\ UNCHANGED answer
       ELSE /\ Goto("over")
            /\ finished' = TRUE
            /\ SendError
            /\ UNCHANGED <<budget, answering>>
    /\ UNCHANGED <<up, sent>>

----------------------------------------------------------------------------
(* The exchange.                                                             *)

\* The upstream request exists and may be answered, also before it was sent.
Answerable == pc \in {"tracking", "committed"} /\ up[attempt] = "open" /\ ~answering

\* The provider answers: its head is passed on and its body piped ...
HeadArrives ==
    /\ Answerable
    /\ answering' = TRUE
    /\ IF response = "destroyed"
       THEN UNCHANGED answer
       ELSE response' = "streaming" /\ heads' = heads + 1
    /\ UNCHANGED <<handler, budget, up, sent, books>>

\* ... unless it rejects the credentials or resolved an unsafe destination.
HeadRejected ==
    /\ Answerable
    /\ answering' = TRUE
    /\ FinishAttempt
    /\ SendError
    /\ UNCHANGED <<handler, budget, up, sent>>

\* The whole response was written to the caller.
ResponseFinishes ==
    /\ response = "streaming"
    /\ response' = "finished"
    /\ FinishAttempt
    /\ UNCHANGED <<handler, budget, heads, up, exchange>>

\* The error listener of the upstream request, or of its response.  The end of an
\* exchange that is over need not be an error.
ExchangeFails ==
    /\ up' = [up EXCEPT ![attempt] = "closed"]
    /\ FinishAttempt
    /\ SendError \/ (finished /\ UNCHANGED answer)
    /\ UNCHANGED <<handler, budget, exchange>>

\* The connection to the provider breaks or is ended by the provider.  Before the
\* request is committed or answered nobody listens.
UpstreamErrors ==
    /\ up[attempt] = "open"
    /\ \/ pc \in {"admitting", "tracking"} /\ ~answering /\ TaskDies
       \/ (pc = "committed" \/ answering) /\ ExchangeFails

\* Mutant of StreamIdle: the timer is cleared when the caller goes away.
StreamIdleCleared ==
    /\ pc = "committed" /\ up[attempt] = "open" /\ ~cancelled
    /\ ExchangeFails

\* The idle timer of the upstream request destroys it.
StreamIdle ==
    /\ pc = "committed" /\ up[attempt] = "open"
    /\ ExchangeFails

\* An answer that the provider volunteers to a caller who had already gone may be complete:
\* the upstream response ends without an error, the timer goes with the socket, and the
\* listeners of the caller's response were attached after its last event.
AnswerIsDiscarded ==
    /\ answering /\ response = "destroyed" /\ ~finished /\ up[attempt] = "open"
    /\ up' = [up EXCEPT ![attempt] = "closed"]
    /\ UNCHANGED <<handler, budget, answer, exchange, books>>

\* The provider closes an idle connection before the upstream request exists.
ProviderEnds ==
    /\ pc = "admitting" /\ up[attempt] = "open"
    /\ up' = [up EXCEPT ![attempt] = "closed"]
    /\ UNCHANGED <<handler, budget, answer, exchange, books>>

\* cancel(): the budget's signal follows the caller's.
Cancel ==
    /\ cancelled' = TRUE
    /\ signal' = IF signal = "running" THEN "caller" ELSE signal
    /\ UNCHANGED late

\* The caller goes away before it has the whole response.  A committed request is
\* destroyed, which its error listener reports; so does the response's own
\* listener if the provider has answered.
CallerLeaves ==
    /\ response \in {"none", "streaming"} /\ pc # "crashed"
    /\ response' = "destroyed" /\ UNCHANGED heads
    /\ Cancel
    /\ IF (pc = "committed" /\ up[attempt] = "open") \/ answering
       THEN up' = [up EXCEPT ![attempt] = "closed"] /\ FinishAttempt
       ELSE UNCHANGED <<up, books>>
    /\ UNCHANGED <<handler, exchange>>

\* The tracker terminates the connection; a request that has ended reports nothing more.
Terminated ==
    /\ pc = "committed" /\ ~finished
    /\ response' = "destroyed" /\ UNCHANGED heads
    /\ Cancel
    /\ IF up[attempt] = "open" \/ (answering /\ response # "destroyed")
       THEN up' = [up EXCEPT ![attempt] = "closed"] /\ FinishAttempt
       ELSE UNCHANGED <<up, books>>
    /\ UNCHANGED <<handler, exchange>>

----------------------------------------------------------------------------
(* Timers.                                                                   *)

BudgetExpires ==
    /\ signal = "running"
    /\ signal' = "timeout"
    /\ UNCHANGED <<handler, late, cancelled, answer, up, exchange, books>>

DeadlinePasses ==
    /\ ~late /\ pc \in Before
    /\ late' = TRUE
    /\ UNCHANGED <<handler, signal, cancelled, answer, up, exchange, books>>

\* Steps that the handler takes by itself once its request is answered.
Handler ==
    \/ Authenticated \/ Refused \/ Validated
    \/ ResolveOk \/ AbortObserved \/ Admitted \/ Commit \/ Settle

Provider ==
    \/ \E reason \in Reasons :
          \/ \E left \in BOOLEAN : ResolveFails(reason, left)
          \/ ConnectFails(reason) \/ AdmissionFails(reason) \/ TrackFails(reason)
    \/ ConnectOk \/ HeadArrives \/ HeadRejected
    \/ UpstreamErrors \/ StreamIdle \/ AnswerIsDiscarded \/ ProviderEnds

RequestNext ==
    \/ Handler \/ Provider
    \/ ResponseFinishes \/ CallerLeaves \/ Terminated
    \/ BudgetExpires \/ DeadlinePasses

\* Requests to the store are answered, budgets expire, and a stream that nobody
\* reads any more goes idle.
Fairness ==
    /\ WF_requestVars(Handler) /\ WF_requestVars(BudgetExpires)
    /\ WF_requestVars(cancelled /\ StreamIdle)

RequestSpec == RequestInit /\ [][RequestNext]_requestVars /\ Fairness

----------------------------------------------------------------------------
(* Properties.                                                               *)

\* The handler, the streams and the books of the attempts keep their shapes, and no
\* attempt is begun beyond maxAttempts.
RequestTypeOK ==
    /\ pc \in Before \cup {"committed", "over", "crashed"}
    /\ attempt \in Attempts
    /\ err \in Reasons
    /\ late \in BOOLEAN /\ cancelled \in BOOLEAN
    /\ signal \in {"none", "running", "timeout", "caller", "finished"}
    /\ response \in {"none", "streaming", "finished", "refused", "destroyed"}
    /\ heads \in Nat
    /\ up \in [Attempts -> {"none", "connecting", "open", "closed"}]
    /\ answering \in BOOLEAN /\ finished \in BOOLEAN
    /\ sent \in SUBSET Attempts
    /\ leased \in [Attempts -> BOOLEAN] /\ lost \in SUBSET Attempts
    /\ records \in [Attempts -> Nat]

\* Every attempt leaves exactly one usage record: the catch block, the listeners of
\* the response, of the upstream request and of its response all call finishAttempt,
\* in any order, and an attempt that is retried has been recorded before the next.
ExactlyOneRecord ==
    \A a \in Attempts :
        records[a] = IF a < attempt \/ (a = attempt /\ finished) THEN 1 ELSE 0

\* The caller gets one response head, of a provider or of #sendError, and a request
\* that was sent to a provider is never sent to another: what follows the commitment
\* or an early answer may only cut the response off.
CommitIsFinal == heads <= 1 /\ \A a \in sent : a = attempt

\* An attempt has one outcome, for the books and for the caller: it is recorded once, and
\* after it was sent or answered there is neither another attempt nor another head.
OneAnswer == ExactlyOneRecord /\ CommitIsFinal

\* A stored lease belongs to the attempt that is being made or to the exchange that is
\* not finished yet, unless its removal was rejected, resolve() left it behind, the
\* attempt was finished before it was tracked, or the task died.
RequestLeasesSettled ==
    \A a \in Attempts : leased[a] /\ a \notin lost =>
        /\ a = attempt
        /\ pc \in Establishing \/ (pc = "committed" /\ ~finished)

\* An exchange whose caller is gone ends: the abort listener is attached after two awaits
\* and misses a caller who left before, so that the idle timer has to end what it missed.
\* Its attempt is finished with it, unless an answer that was volunteered ended it first.
LeftExchangeEnds ==
    (pc = "committed" /\ cancelled /\ up[attempt] = "open")
        ~> (pc = "committed" /\ up[attempt] = "closed" /\ (finished \/ answering))

\* docs/OPERATIONS.md:372: "Every upstream attempt records an idempotent unsampled event",
\* also the one whose caller left it.  (finishAttempt is called by listeners only once the
\* request is committed, and none may be left to call it.)
LeftAttemptRecorded ==
    (pc = "committed" /\ cancelled /\ up[attempt] = "open") ~> (records[attempt] = 1)

\* A budget that expires is an error of the attempt and never of the task, as
\* openUpstreamTunnel's comment demands for tunnels.
TimeoutHandled == pc = "crashed" => signal # "timeout"
=============================================================================
