--------------------------- MODULE TunnelOperation ---------------------------
(***************************************************************************)
(* ONE tunnel through the proxy, from the accepted connection of a client  *)
(* to its end: the handshake (forward-proxy.ts for CONNECT, socks5-proxy.ts *)
(* for SOCKS5), the establishment budget (establishment-budget.ts), the    *)
(* attempts to open an upstream tunnel (tunnel-operation.ts,               *)
(* upstream-tunnel.ts) and the established stream.                         *)
(*                                                                         *)
(* The handler is suspended at an await; the events of the two sockets and *)
(* of the timers happen meanwhile and are seen only by the listeners that  *)
(* are attached at that moment.                                            *)
(***************************************************************************)
EXTENDS Integers, Sequences, FiniteSets

CONSTANTS
    Protocols,          \* the client protocols of this instance
    UpstreamProtocols,  \* the protocols of the providers' proxies
    MaxAttempts,        \* retryPolicy.maxAttempts (1 when retries are not allowed)
    AttemptTimeout,     \* attemptEstablishmentTimeoutMs
    OperationTimeout,   \* operationEstablishmentTimeoutMs
    MaxTime             \* bound on the clock

ASSUME TunnelConstants ==
    /\ Protocols \subseteq {"https", "socks5"}
    /\ UpstreamProtocols \subseteq {"http", "socks5"}
    /\ MaxAttempts \in Nat \ {0}
    /\ AttemptTimeout \in Nat \ {0} /\ OperationTimeout \in Nat \ {0}
    /\ MaxTime \in Nat

VARIABLES
    kind,      \* the protocol of the client and of the provider
    pc,        \* the await at which the handler is suspended
    attempt,   \* attemptIndex
    err,       \* whether the error of the failing attempt is retryable
    elapsed,   \* the clock, since the connection was accepted
    began,     \* when the budget of this attempt began
    idleFrom,  \* last activity of the client
    signal,    \* the budget's AbortSignal
    client,    \* the client socket
    up,        \* up[a]: the upstream socket of attempt a
    lease,     \* lease[a]: the slot lease of attempt a is stored
    lost,      \* attempts whose lease nobody will remove (history)
    finished,  \* tunnelFinished
    records,   \* records[a]: usage records of attempt a
    replies    \* the final replies written to the client

handler == <<pc, attempt, err>>
clock == <<elapsed, began, idleFrom>>
books == <<lease, lost, records>>
vars == <<kind, handler, clock, signal, client, up, books, finished, replies>>

Attempts == 0..(MaxAttempts - 1)

Reading == {"greeting", "requesting"}
Establishing == {"resolving", "connecting", "negotiating", "succeeding", "admitting",
                 "tracking", "failing"}
Before == Reading \cup {"authenticating", "validating"} \cup Establishing

\* The caller's AbortController fires when the client socket has closed.
Aborted == client \in {"gone", "dropped"}

DeadlinePassed == elapsed >= OperationTimeout
AttemptDeadline ==
    IF began + AttemptTimeout <= OperationTimeout THEN began + AttemptTimeout ELSE OperationTimeout

Init ==
    /\ kind \in [client : Protocols, upstream : UpstreamProtocols]
    /\ pc = IF kind.client = "socks5" THEN "greeting" ELSE "authenticating"
    /\ attempt = 0 /\ err = "fatal"
    /\ elapsed = 0 /\ began = 0 /\ idleFrom = 0
    /\ signal = "none"
    /\ client = "open"
    /\ up = [a \in Attempts |-> "none"]
    /\ lease = [a \in Attempts |-> FALSE] /\ lost = {}
    /\ finished = FALSE
    /\ records = [a \in Attempts |-> 0]
    /\ replies = <<>>

Goto(label) == pc' = label /\ UNCHANGED <<attempt, err>>

----------------------------------------------------------------------------
(* The end of an operation without a tunnel.                                 *)

\* A final reply reaches a client that still reads.
Reply(r) == replies' = IF client \in {"open", "half"} THEN Append(replies, r) ELSE replies

\* end(): the client has all it will get.  A CONNECT client that closed its own
\* side is gone then.
EndClient ==
    client' = CASE client = "open" -> "ended"
                [] client = "half" -> "gone"
                [] OTHER -> client

\* The catch block of the handler, before or after the first attempt.
Refuse(label) ==
    /\ Goto(label)
    /\ Reply("refused")
    /\ EndClient

----------------------------------------------------------------------------
(* The handshake.                                                            *)

Activity == idleFrom' = elapsed /\ UNCHANGED <<elapsed, began>>

\* beginAttemptBudget: it throws when the operation has no time left.
BeginBudget == signal' = (IF Aborted THEN "caller" ELSE "running") /\ began' = elapsed

\* SOCKS5: the greeting and the credentials are read.
Greeted ==
    /\ pc = "greeting" /\ client = "open"
    /\ Goto("authenticating")
    /\ Activity
    /\ UNCHANGED <<kind, signal, client, up, books, finished, replies>>

Authenticated ==
    /\ pc = "authenticating"
    /\ IF kind.client = "socks5"
       THEN Goto("requesting") /\ Activity /\ UNCHANGED <<signal, client, replies>>
       ELSE IF DeadlinePassed
            THEN Refuse("refused") /\ UNCHANGED <<clock, signal>>
            ELSE /\ Goto("validating") /\ BeginBudget
                 /\ UNCHANGED <<elapsed, idleFrom, client, replies>>
    /\ UNCHANGED <<kind, up, books, finished>>

\* SOCKS5: the request is complete, so that errors are answered from here on.
RequestRead ==
    /\ pc = "requesting" /\ client = "open"
    /\ idleFrom' = elapsed /\ UNCHANGED elapsed
    /\ IF DeadlinePassed
       THEN Refuse("refused") /\ UNCHANGED <<began, signal>>
       ELSE Goto("validating") /\ BeginBudget /\ UNCHANGED <<client, replies>>
    /\ UNCHANGED <<kind, up, books, finished>>

\* An invalid greeting, wrong credentials, a protocol that is not allowed, or an
\* unsupported request.  Before its request a SOCKS5 client gets no reply to it,
\* and an invalid greeting ends in a destroyed socket.
HandshakeRefused ==
    /\ pc \in Reading \cup {"authenticating"}
    /\ pc \in Reading => client = "open"
    /\ IF pc = "requesting" \/ kind.client = "https" THEN Reply("refused") ELSE UNCHANGED replies
    /\ Goto("refused")
    /\ EndClient \/ (pc = "greeting" /\ client' = "dropped")
    /\ UNCHANGED <<kind, clock, signal, up, books, finished>>

\* The read of a client that closed its socket throws.
HandshakeEnds ==
    /\ pc \in Reading /\ Aborted
    /\ Goto("refused")
    /\ UNCHANGED <<kind, clock, signal, client, up, books, finished, replies>>

Validated ==
    /\ pc = "validating"
    /\ Goto("resolving")
    /\ UNCHANGED <<kind, clock, signal, client, up, books, finished, replies>>

ValidationFails ==
    /\ pc = "validating"
    /\ Refuse("refused")
    /\ signal' = "finished"
    /\ UNCHANGED <<kind, clock, up, books, finished>>

----------------------------------------------------------------------------
(* An attempt: establishTunnel.                                              *)

\* The catch block of the attempt ends the budget; `left` is the upstream socket.
Fail(reason, left) ==
    /\ pc' = "failing" /\ err' = reason /\ UNCHANGED attempt
    /\ signal' = "finished"
    /\ up' = [up EXCEPT ![attempt] = left]
    /\ UNCHANGED <<kind, clock, client, finished, replies>>

\* routes.resolve selects a candidate and claims a lease for it.
ResolveOk ==
    /\ pc = "resolving"
    /\ Goto("connecting")
    /\ up' = [up EXCEPT ![attempt] = "connecting"]
    /\ lease' = [lease EXCEPT ![attempt] = TRUE]
    /\ UNCHANGED <<kind, clock, signal, client, lost, records, finished, replies>>

\* resolve() throws without a claim, after removing it, or leaving it behind.
ResolveFails(reason, left) ==
    /\ pc = "resolving"
    /\ Fail(reason, "none")
    /\ lease' = [lease EXCEPT ![attempt] = left]
    /\ lost' = IF left THEN lost \cup {attempt} ELSE lost
    /\ UNCHANGED records

ConnectOk ==
    /\ pc = "connecting" /\ signal = "running"
    /\ Goto("negotiating")
    /\ up' = [up EXCEPT ![attempt] = "open"]
    /\ UNCHANGED <<kind, clock, signal, client, books, finished, replies>>

\* The provider refuses, answers with an error or closes the connection; a
\* provider that rejects the credentials is not retried, nor is an unsafe
\* destination.
OpenFails(reason) ==
    /\ pc \in {"connecting", "negotiating"} /\ signal = "running"
    /\ Fail(reason, "closed")
    /\ UNCHANGED books

\* openUpstreamTunnel has a timer of its own beside the budget's.
ConnectTimeout ==
    /\ elapsed >= AttemptDeadline
    /\ OpenFails("retryable")

NegotiateOk ==
    /\ pc = "negotiating" /\ signal = "running"
    /\ Goto("succeeding")
    /\ signal' = "finished"
    /\ UNCHANGED <<kind, clock, client, up, books, finished, replies>>

\* Mutant of AbortStops: nobody listens to the close event of the socket.
AbortUnheard == pc \in {"resolving", "connecting"}

\* Where the handler notices that the budget's signal was aborted.  The abort
\* destroys the upstream socket without an error: the HTTP negotiation listens
\* to its close event, the SOCKS5 negotiation waits for data or an error only.
AbortStops ==
    \/ pc \in {"resolving", "connecting"}
    \/ pc = "negotiating" /\ kind.upstream = "http"

AbortObserved ==
    /\ signal \in {"timeout", "caller"}
    /\ \/ /\ pc = "validating" /\ Refuse("refused")
          /\ signal' = "finished" /\ UNCHANGED <<kind, clock, up, finished>>
       \/ /\ AbortStops
          /\ Fail(IF signal = "timeout" THEN "retryable" ELSE "fatal",
                  IF pc = "resolving" THEN "none" ELSE "closed")
    /\ UNCHANGED books

\* recordCandidateSuccess.  A caller that left meanwhile ends the attempt.
SuccessRecorded ==
    /\ pc = "succeeding"
    /\ \/ Aborted /\ Fail("fatal", "closed")
       \/ /\ ~Aborted /\ Goto("admitting")
          /\ UNCHANGED <<kind, clock, signal, client, up, finished, replies>>
    /\ UNCHANGED books

\* assertNewConnectionAllowed.
Admitted ==
    /\ pc = "admitting"
    /\ Goto("tracking")
    /\ UNCHANGED <<kind, clock, signal, client, up, books, finished, replies>>

AdmissionFails(reason) ==
    /\ pc = "admitting"
    /\ Fail(reason, "closed")
    /\ UNCHANGED books

\* recordCandidateSuccess or trackActiveConnection is rejected: the socket that
\* was opened stays as it is.
StoreFails(reason) ==
    /\ pc \in {"succeeding", "tracking"}
    /\ Fail(reason, up[attempt])
    /\ UNCHANGED books

\* The lease of an attempt is deleted, or the rejected deletion is ignored.
RemoveLease ==
    \/ lease' = [lease EXCEPT ![attempt] = FALSE] /\ UNCHANGED lost
    \/ lease[attempt] /\ lost' = lost \cup {attempt} /\ UNCHANGED lease

Record == records' = [records EXCEPT ![attempt] = @ + 1]

\* Mutant of Finish: every event of the sockets finishes the tunnel.
FinishAgain ==
    /\ finished' = TRUE
    /\ RemoveLease
    /\ Record

\* finishTunnel: the tunnel is untracked and its usage recorded, once.
Finish ==
    IF finished
    THEN UNCHANGED <<finished, books>>
    ELSE finished' = TRUE /\ RemoveLease /\ Record

\* The upstream stream has ended: the pipe ends the client, and one that had
\* closed its own side is closed now.
PipeEnds ==
    /\ EndClient
    /\ IF client = "half" THEN Finish ELSE UNCHANGED <<finished, books>>

\* The tunnel is tracked, acknowledged and piped, and its listeners attached.
Commit ==
    /\ pc = "tracking"
    /\ Goto("committed")
    /\ Reply("established")
    /\ IF up[attempt] = "closed" THEN PipeEnds ELSE UNCHANGED <<client, finished, books>>
    /\ UNCHANGED <<kind, clock, signal, up>>

Retry == ~Aborted /\ attempt + 1 < MaxAttempts /\ err = "retryable"

\* Mutant of Release: a lease is only removed by a tunnel that was tracked.
ReleaseNothing == UNCHANGED <<lease, lost>>

\* releaseCandidate: nothing to do when resolve() returned no candidate.
Release == IF up[attempt] = "none" THEN UNCHANGED <<lease, lost>> ELSE RemoveLease

\* The rest of the catch block: the failure and the release are stored, then it
\* is decided whether to try again.  beginAttemptBudget throws past the deadline.
Settle ==
    /\ pc = "failing"
    /\ Release
    /\ Record
    /\ IF Retry /\ ~DeadlinePassed
       THEN /\ pc' = "resolving" /\ attempt' = attempt + 1 /\ UNCHANGED err
            /\ BeginBudget
            /\ UNCHANGED <<elapsed, idleFrom, client, replies>>
       ELSE Refuse("over") /\ UNCHANGED <<clock, signal>>
    /\ UNCHANGED <<kind, up, finished>>

----------------------------------------------------------------------------
(* The established tunnel.                                                   *)

Live == pc = "committed" /\ ~finished

\* The upstream tunnel is open and nobody negotiates on its socket any more.
Opened == {"succeeding", "admitting", "tracking", "committed"}

\* The listeners of an established tunnel, and nobody before.
Heard == IF pc = "committed" THEN Finish ELSE UNCHANGED <<finished, books>>

\* An error event without a listener ends the task.
TaskDies ==
    /\ pc' = "crashed" /\ UNCHANGED <<attempt, err>>
    /\ client' = IF client = "gone" THEN client ELSE "dropped"
    /\ up' = [a \in Attempts |-> IF up[a] = "none" THEN "none" ELSE "closed"]
    /\ lost' = {a \in Attempts : lease[a]}
    /\ UNCHANGED <<kind, clock, signal, lease, records, finished, replies>>

\* The budget's signal is aborted: an upstream socket that is being opened is
\* destroyed.
Abort(reason) ==
    IF signal = "running"
    THEN /\ signal' = reason
         /\ up' = IF pc \in {"connecting", "negotiating"} THEN [up EXCEPT ![attempt] = "closed"] ELSE up
    ELSE UNCHANGED <<signal, up>>

\* The client socket emits its close event.
Closes(state) ==
    /\ client' = state
    /\ Abort("caller")
    /\ Heard
    /\ UNCHANGED <<kind, handler, clock, replies>>

\* The client closes its side.  The HTTP server keeps the other side of a CONNECT
\* open, which the pipe to the provider then ends; the SOCKS5 server does not.
ClientLeaves ==
    /\ pc # "crashed"
    /\ \/ /\ client = "open" /\ kind.client = "https" /\ client' = "half"
          /\ UNCHANGED <<kind, handler, clock, signal, up, books, finished, replies>>
       \/ /\ client = "ended" \/ (client = "open" /\ kind.client = "socks5")
          /\ Closes("gone")

\* The client resets the connection: an error event, then a close event.  A
\* CONNECT socket has no error listener before the tunnel is established.
ClientResets ==
    /\ client \in {"open", "half", "ended"}
    /\ pc \in Before \cup {"committed"}
    /\ IF kind.client = "https" /\ pc \in Before
       THEN TaskDies
       ELSE /\ client' = "erring"
            /\ Heard
            /\ UNCHANGED <<kind, handler, clock, signal, up, replies>>

ClientCloses == client = "erring" /\ pc # "crashed" /\ Closes("gone")

\* Mutant of ProviderEnds: the pipe does not end the client.
ProviderEndsAlone ==
    /\ pc \in Opened /\ up[attempt] = "open"
    /\ up' = [up EXCEPT ![attempt] = "closed"]
    /\ UNCHANGED <<kind, handler, clock, signal, client, books, finished, replies>>

\* The provider closes the connection; the pipe, once it exists, ends the client.
\* Nobody listens to the close event of the upstream socket.
ProviderEnds ==
    /\ pc \in Opened /\ up[attempt] = "open"
    /\ up' = [up EXCEPT ![attempt] = "closed"]
    /\ IF pc = "committed" THEN PipeEnds ELSE UNCHANGED <<client, books, finished>>
    /\ UNCHANGED <<kind, handler, clock, signal, replies>>

\* The upstream connection breaks, or exceeds the idle timeout.  An open socket
\* has an error listener only while its tunnel is established.  What becomes of
\* the task after the operation is over is not followed.
UpstreamErrors(a) ==
    /\ up[a] = "open" /\ pc \in Before \cup {"committed"}
    /\ pc = "negotiating" => a # attempt
    /\ IF pc = "committed" /\ a = attempt
       THEN /\ up' = [up EXCEPT ![a] = "closed"]
            /\ Finish
            /\ UNCHANGED <<kind, handler, clock, signal, client, replies>>
       ELSE TaskDies

\* A SOCKS5 client socket has a timeout: of an attempt until the tunnel is
\* established, of an idle stream from then on.
ClientTimeout ==
    /\ kind.client = "socks5"
    /\ client \in {"open", "ended"}
    /\ \/ pc \in Before /\ elapsed >= idleFrom + AttemptTimeout
       \/ pc = "committed"
    /\ Closes("dropped")

\* The tracker terminates the connection: both sockets are destroyed, which is an
\* event of the client socket only if that is still open.
Terminated ==
    /\ Live
    /\ up' = [up EXCEPT ![attempt] = "closed"]
    /\ IF client \in {"open", "half", "ended"}
       THEN client' = "dropped" /\ Finish
       ELSE UNCHANGED <<client, finished, books>>
    /\ UNCHANGED <<kind, handler, clock, signal, replies>>

----------------------------------------------------------------------------
(* Timers.                                                                   *)

BudgetExpires ==
    /\ signal = "running" /\ elapsed >= AttemptDeadline
    /\ Abort("timeout")
    /\ UNCHANGED <<kind, handler, clock, client, books, finished, replies>>

\* Time passes while no timer is due.
Tick ==
    /\ pc \in Before /\ elapsed < MaxTime
    /\ signal = "running" => elapsed < AttemptDeadline
    /\ kind.client = "socks5" /\ client = "open" => elapsed < idleFrom + AttemptTimeout
    /\ elapsed' = elapsed + 1
    /\ UNCHANGED <<kind, handler, began, idleFrom, signal, client, up, books, finished, replies>>

Reasons == {"retryable", "fatal"}

\* Steps that the handler takes by itself once its request is answered.
Handler ==
    \/ Authenticated \/ HandshakeEnds \/ Validated \/ ValidationFails
    \/ ResolveOk \/ AbortObserved \/ SuccessRecorded \/ Admitted \/ Commit \/ Settle
    \/ pc = "authenticating" /\ HandshakeRefused

Provider ==
    \/ \E reason \in Reasons :
          \/ \E left \in BOOLEAN : ResolveFails(reason, left)
          \/ OpenFails(reason) \/ AdmissionFails(reason) \/ StoreFails(reason)
    \/ ConnectOk \/ NegotiateOk \/ ProviderEnds
    \/ \E a \in Attempts : UpstreamErrors(a)

Client ==
    \/ Greeted \/ RequestRead \/ HandshakeRefused
    \/ ClientLeaves \/ ClientResets \/ ClientCloses \/ Terminated

Timers == BudgetExpires \/ ConnectTimeout \/ ClientTimeout \/ Tick

Next == Handler \/ Provider \/ Client \/ Timers

\* Requests to the store are answered, due timers fire, and a client whose side
\* of the connection was ended closes it in the end.
Fairness ==
    /\ WF_vars(Handler)
    /\ WF_vars(pc \in Before /\ (BudgetExpires \/ ConnectTimeout))
    /\ WF_vars(pc \in Before /\ ClientTimeout)
    /\ WF_vars(Tick)
    /\ WF_vars(ClientCloses)
    /\ WF_vars(client = "ended" /\ ClientLeaves)

Spec == Init /\ [][Next]_vars /\ Fairness

----------------------------------------------------------------------------
(* Properties.                                                               *)

\* Type invariant: the handler, its timers, the sockets and the books of
\* establishTunnel keep their shapes.
TypeOK ==
    /\ kind \in [client : Protocols, upstream : UpstreamProtocols]
    /\ pc \in Before \cup {"committed", "over", "refused", "crashed"}
    /\ attempt \in Attempts /\ err \in Reasons
    /\ elapsed \in Nat /\ began \in Nat /\ idleFrom \in Nat
    /\ signal \in {"none", "running", "timeout", "caller", "finished"}
    /\ client \in {"open", "half", "ended", "erring", "gone", "dropped"}
    /\ up \in [Attempts -> {"none", "connecting", "open", "closed"}]
    /\ lease \in [Attempts -> BOOLEAN] /\ lost \subseteq Attempts
    /\ finished \in BOOLEAN
    /\ records \in [Attempts -> Nat]
    /\ replies \in Seq({"established", "refused"})

\* Every attempt is accounted for exactly once: whatever events the two sockets
\* emit and in whatever order, an attempt that is over has one usage record, the
\* current one has none yet.
ExactlyOneRecord ==
    \A a \in Attempts :
        records[a] = IF a < attempt \/ (a = attempt /\ (finished \/ pc = "over")) THEN 1 ELSE 0

\* A client gets one final reply, and none after it was told that its tunnel is
\* established: no attempt is made, and no refusal sent, after commitment.
CommitIsFinal ==
    /\ Len(replies) <= 1
    /\ replies = <<"established">> => pc \in {"committed", "crashed"}

\* An attempt has one outcome, for the books and for the client: it is recorded once, and
\* nothing that happens after the client's final reply is an attempt or a reply again.
OneOutcome == ExactlyOneRecord /\ CommitIsFinal

\* No lease is forgotten: the lease of an attempt is stored only while the attempt
\* or its tunnel lasts, unless the store rejected its removal, resolve() threw
\* without releasing it, or the task died.
LeasesSettled ==
    \A a \in Attempts \ lost : lease[a] => a = attempt /\ (pc \in Establishing \/ Live)

\* Establishment ends: the budget gets a client its tunnel or a refusal, however
\* slow the provider is.
EstablishmentEnds == pc \in Establishing ~> pc \notin Establishing

\* A tunnel whose provider closed the connection ends, if its client was still
\* connected.
TunnelEnds ==
    (Live /\ up[attempt] = "closed" /\ ~Aborted) ~> ~Live

=============================================================================
