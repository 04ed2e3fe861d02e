-------------------------- MODULE CapacityCircuit --------------------------
(***************************************************************************)
(* The shared capacity circuit of ONE provider candidate.                  *)
(*                                                                         *)
(* capacity-circuit.ts holds the circuit's three pure transitions;         *)
(* dynamo-runtime-state-repository.ts runs them as read-modify-write       *)
(* sequences under a DynamoDB lock item with a lease; route-service.ts     *)
(* claims the circuit before an upstream attempt and records the attempt's *)
(* outcome after it.  Every await of those sequences is a separate action  *)
(* here, so requests of different proxy tasks interleave between them.     *)
(*                                                                         *)
(* Time is a global clock of abstract ticks.  An instant that the code     *)
(* leaves undefined is NoTime.                                             *)
(***************************************************************************)
EXTENDS Integers, FiniteSets

CONSTANTS
    Workers,           \* concurrent upstream attempts, over all proxy tasks
    NoOwner,           \* owner of a LOCK item that does not exist
    FailureThreshold,  \* capacityCircuitFailureThreshold
    BaseCooldown,      \* capacityCircuitBaseCooldownMs
    MaxCooldown,       \* capacityCircuitMaxCooldownMs
    ProbeLease,        \* capacityCircuitHalfOpenLeaseMs
    Retention,         \* CIRCUIT_RETENTION_MS
    LockLease,         \* seconds an acquired lock item stays valid
    LockWait,          \* how long a request retries a contended lock
    AttemptTimeout,    \* attemptTimeoutMs of the establishment budget
    MaxStall,          \* bound: longest a lock holder is delayed between two requests
    MaxTime,           \* bound on the clock
    MaxFailures        \* bound on the recorded consecutive failures

ASSUME CircuitConstants ==
    /\ NoOwner \notin Workers
    /\ FailureThreshold \in Nat \ {0}
    /\ BaseCooldown \in Nat \ {0}
    /\ MaxCooldown \in Nat \ {0}
    /\ ProbeLease \in Nat
    /\ Retention \in Nat
    /\ LockLease \in Nat
    /\ LockWait \in Nat
    /\ AttemptTimeout \in Nat
    /\ MaxStall \in Nat
    /\ MaxTime \in Nat
    /\ MaxFailures \in Nat

VARIABLES
    now,       \* the wall clock
    circuit,   \* the stored CapacityCircuitState
    lock,      \* the LOCK item beside it
    request,   \* request[w]: the attempt w and the store call it is running
    recorded   \* failures saved since the item was last deleted or found expired (history)

vars == <<now, circuit, lock, request, recorded>>

NoTime == -1

Times == Nat \cup {NoTime}

\* "absent" stands for a missing circuit item.
Circuits ==
    [status : {"absent", "closed", "open", "half_open"},
     consecutiveFailures : Nat, openCount : Nat,
     cooldownUntil : Times, probeExpiresAt : Times,
     updatedAt : Times, expiresAt : Times]

Absent ==
    [status |-> "absent", consecutiveFailures |-> 0, openCount |-> 0,
     cooldownUntil |-> NoTime, probeExpiresAt |-> NoTime,
     updatedAt |-> NoTime, expiresAt |-> NoTime]

NoLock == [owner |-> NoOwner, expiresAt |-> NoTime]

\* A failure is reported as a provider hard limit or as any other retryable
\* reason; only the first opens the circuit by itself.
Failures == {"provider_hard_limit", "other_failure"}
Operations == {"claim"} \cup Failures

InLock == {"reading", "evicting", "saving", "unlocking", "aborting"}
PcValues == {"idle", "screening", "locking", "attempting", "succeeding", "expiring",
             "resetting", "admitting"} \cup InLock

\* pc: the await at which the request is suspended.  op: the store operation.
\* at: the `now` argument it computed before calling the store.  since: when it
\* acquired the lock.  view: the circuit it read (`previous`).  probe: it was
\* admitted as the half-open probe.
Requests ==
    [pc : PcValues, op : Operations, at : Nat, since : Nat,
     view : Circuits, probe : BOOLEAN]

Idle ==
    [pc |-> "idle", op |-> "claim", at |-> 0, since |-> 0,
     view |-> Absent, probe |-> FALSE]

----------------------------------------------------------------------------
(* capacity-circuit.ts                                                      *)

Maximum(a, b) == IF a <= b THEN b ELSE a

\* capacityCircuitAllowsCandidate
AllowsCandidate(state, t) ==
    CASE state.status \in {"absent", "closed"} -> TRUE
      [] state.status = "open" -> state.cooldownUntil # NoTime /\ state.cooldownUntil <= t
      [] state.status = "half_open" -> state.probeExpiresAt # NoTime /\ state.probeExpiresAt <= t

\* Mutants of HalfOpened: the probe has no lease of its own, or the lease is not
\* stored.
HalfOpenedUnleased(state, t) ==
    [state EXCEPT !.status = "half_open", !.probeExpiresAt = t,
                  !.updatedAt = t, !.expiresAt = t + Retention]
HalfOpenedForever(state, t) ==
    [state EXCEPT !.status = "half_open", !.updatedAt = t, !.expiresAt = t + Retention]

\* The state claimCapacityCircuitProbe stores when it admits a candidate whose
\* circuit is open or half-open.
HalfOpened(state, t) ==
    [state EXCEPT !.status = "half_open",
                  !.probeExpiresAt = t + ProbeLease,
                  !.updatedAt = t,
                  !.expiresAt = t + Retention]

\* min(max, base * 2 ** max(0, openCount - 1)): the exponential backoff while it
\* is between the base and the cap, else the cap.
Cooldown(opens) ==
    LET backoff == BaseCooldown * 2^Maximum(0, opens - 1)
    IN  IF backoff \in BaseCooldown..MaxCooldown THEN backoff ELSE MaxCooldown

ShouldOpen(previous, reason) ==
    \/ reason = "provider_hard_limit"
    \/ previous.status = "half_open"
    \/ previous.consecutiveFailures + 1 >= FailureThreshold

\* recordCapacityCircuitFailure
Failed(previous, reason, t) ==
    LET opens == previous.openCount + (IF ShouldOpen(previous, reason) THEN 1 ELSE 0)
    IN  [status |-> IF ShouldOpen(previous, reason) THEN "open" ELSE "closed",
         consecutiveFailures |-> previous.consecutiveFailures + 1,
         openCount |-> opens,
         cooldownUntil |-> IF ShouldOpen(previous, reason) THEN t + Cooldown(opens) ELSE NoTime,
         probeExpiresAt |-> NoTime,
         updatedAt |-> t,
         expiresAt |-> t + Maximum(Retention, Cooldown(opens))]

----------------------------------------------------------------------------
(* The requests.                                                            *)

Init ==
    /\ now = 0
    /\ circuit = Absent
    /\ lock = NoLock
    /\ request = [w \in Workers |-> Idle]
    /\ recorded = 0

Continue(w, r) == request' = [request EXCEPT ![w] = r]

At(w, label) == request[w].pc = label

\* capacityCircuitEligible screens a candidate by reading its circuit WITHOUT the
\* lock.  The read has an effect when the item is past its retention: it is
\* deleted by a second request.
ScreenExpired(w) ==
    /\ At(w, "idle")
    /\ circuit.status # "absent" /\ circuit.expiresAt <= now
    /\ Continue(w, [Idle EXCEPT !.pc = "screening"])
    /\ UNCHANGED <<now, circuit, lock, recorded>>

\* resolve() calls claimCapacityCircuit with the time it read just before.
StartClaim(w) ==
    /\ At(w, "idle")
    /\ Continue(w, [Idle EXCEPT !.pc = "locking", !.op = "claim", !.at = now])
    /\ UNCHANGED <<now, circuit, lock, recorded>>

\* Mutant of LockFree: the Put of the LOCK item has no condition.
LockIgnored == TRUE

LockFree == lock.owner = NoOwner \/ lock.expiresAt < now

\* The conditional Put of the LOCK item succeeds.
AcquireLock(w) ==
    /\ At(w, "locking")
    /\ LockFree
    /\ lock' = [owner |-> w, expiresAt |-> now + LockLease]
    /\ Continue(w, [request[w] EXCEPT !.pc = "reading", !.since = now])
    /\ UNCHANGED <<now, circuit, recorded>>

\* The lock is still contended when the wait is over: the operation throws.
\* A claim that throws fails the attempt before it has an endpoint, so nothing
\* is recorded; a failure that cannot be recorded is swallowed by the caller.
LockTimeout(w) ==
    /\ At(w, "locking")
    /\ ~LockFree
    /\ now >= request[w].at + LockWait
    /\ Continue(w, Idle)
    /\ UNCHANGED <<now, circuit, lock, recorded>>

\* getCapacityCircuit under the lock: an item past its retention counts as
\* missing and is deleted by a second request.
ReadExpired(w) ==
    /\ At(w, "reading")
    /\ circuit.status # "absent" /\ circuit.expiresAt <= request[w].at
    /\ Continue(w, [request[w] EXCEPT !.pc = "evicting"])
    /\ recorded' = 0
    /\ UNCHANGED <<now, circuit, lock>>

ReadCurrent(w) ==
    /\ At(w, "reading")
    /\ circuit.status = "absent" \/ circuit.expiresAt > request[w].at
    /\ Continue(w, [request[w] EXCEPT !.pc = "saving", !.view = circuit])
    /\ UNCHANGED <<now, circuit, lock, recorded>>

DeleteCircuit ==
    /\ circuit' = Absent
    /\ recorded' = 0

Evict(w) ==
    /\ At(w, "evicting")
    /\ DeleteCircuit
    /\ Continue(w, [request[w] EXCEPT !.pc = "saving"])
    /\ UNCHANGED <<now, lock>>

\* A candidate whose circuit is not closed is admitted as the probe only.
NeedsProbe(state) == state.status \notin {"absent", "closed"}

\* claimCapacityCircuit: a missing or closed circuit admits without a write, an
\* open one past its cooldown (or a half-open one past its probe lease) admits
\* this request as the probe, any other refuses.
SaveClaim(w) ==
    LET r == request[w]
        probing == NeedsProbe(r.view) /\ AllowsCandidate(r.view, r.at)
    IN  /\ At(w, "saving") /\ r.op = "claim"
        /\ circuit' = IF probing THEN HalfOpened(r.view, r.at) ELSE circuit
        /\ Continue(w, [r EXCEPT !.pc = "unlocking", !.probe = probing])
        /\ UNCHANGED <<now, lock, recorded>>

\* recordCapacityCircuitFailure: read-modify-write, the Put is unconditional.
SaveFailure(w) ==
    LET r == request[w]
    IN  /\ At(w, "saving") /\ r.op \in Failures
        /\ circuit' = Failed(r.view, r.op, r.at)
        /\ recorded' = recorded + 1
        /\ Continue(w, [r EXCEPT !.pc = "unlocking"])
        /\ UNCHANGED <<now, lock>>

\* getCapacityCircuit swallows a rejected eviction.
EvictRejected(w) ==
    /\ At(w, "evicting")
    /\ Continue(w, [request[w] EXCEPT !.pc = "saving"])
    /\ UNCHANGED <<now, circuit, lock, recorded>>

\* Any other request is rejected.  Under the lock the action throws and the
\* finally block runs; before it is acquired, and in recordCandidateSuccess
\* which never takes it, the call throws.  None of these errors is an upstream
\* failure, so nothing is recorded for them.
RequestError(w) ==
    /\ \/ /\ request[w].pc \in {"reading", "saving"}
          /\ Continue(w, [request[w] EXCEPT !.pc = "aborting"])
       \/ /\ request[w].pc \in {"locking", "succeeding", "resetting"}
          /\ Continue(w, Idle)
    /\ UNCHANGED <<now, circuit, lock, recorded>>

Admitted(r) ==
    /\ r.pc = "unlocking"
    /\ r.op = "claim"
    /\ AllowsCandidate(r.view, r.at)

\* The finally block deletes the LOCK item if this request still owns it (a
\* rejected Delete is swallowed and leaves the item to its lease); an admitted
\* claim then opens the upstream connection.
Unlock(w) ==
    LET r == request[w]
    IN  /\ r.pc \in {"unlocking", "aborting"}
        /\ lock' \in {lock, IF lock.owner = w THEN NoLock ELSE lock}
        /\ Continue(w, IF Admitted(r)
                       THEN [Idle EXCEPT !.pc = "attempting", !.at = r.at, !.probe = r.probe]
                       ELSE Idle)
        /\ UNCHANGED <<now, circuit, recorded>>

\* #recordCapacityFailure, with the time it reads.
ReportFailure(w, reason) ==
    /\ circuit.consecutiveFailures < MaxFailures
    /\ Continue(w, [Idle EXCEPT !.pc = "locking", !.op = reason, !.at = now])
    /\ UNCHANGED <<now, circuit, lock, recorded>>

\* The adapter cannot resolve the candidate: a failure without a claim.
ResolveFails(w, reason) == At(w, "idle") /\ ReportFailure(w, reason)

\* The attempt fails with a retryable error: recordCandidateFailure.
AttemptFails(w, reason) == At(w, "attempting") /\ ReportFailure(w, reason)

\* The tunnel is open, but the attempt fails after all with an error that passes
\* for a retryable one: a store request lost its connection, or the task is at
\* its admission limit.
LateFailure(w) ==
    /\ request[w].pc \in {"succeeding", "resetting", "admitting"}
    /\ ReportFailure(w, "other_failure")

\* The caller disconnects, or the error is not retryable: nothing is recorded.
AttemptCancelled(w) ==
    /\ At(w, "attempting")
    /\ Continue(w, Idle)
    /\ UNCHANGED <<now, circuit, lock, recorded>>

\* The tunnel is open: recordCandidateSuccess.
AttemptSucceeds(w) ==
    /\ At(w, "attempting")
    /\ Continue(w, [Idle EXCEPT !.pc = "succeeding"])
    /\ UNCHANGED <<now, circuit, lock, recorded>>

\* recordCandidateSuccess reads the circuit WITHOUT the lock ...
ReadForReset(w) ==
    /\ At(w, "succeeding")
    /\ Continue(w, [Idle EXCEPT !.pc = CASE circuit.status = "absent" -> "admitting"
                                         [] circuit.status # "absent" /\ circuit.expiresAt <= now
                                              -> "expiring"
                                         [] OTHER -> "resetting"])
    /\ UNCHANGED <<now, circuit, lock, recorded>>

\* ... and the Delete removes whatever is stored by then, again without the lock.
Reset(w) ==
    /\ At(w, "resetting")
    /\ DeleteCircuit
    /\ Continue(w, [Idle EXCEPT !.pc = "admitting"])
    /\ UNCHANGED <<now, lock>>

\* The eviction inside either unlocked read; a rejected one is swallowed.
EvictUnlocked(w) ==
    /\ \/ At(w, "screening") /\ Continue(w, Idle)
       \/ At(w, "expiring") /\ Continue(w, [Idle EXCEPT !.pc = "admitting"])
    /\ DeleteCircuit \/ UNCHANGED <<circuit, recorded>>
    /\ UNCHANGED <<now, lock>>

\* The connection is admitted and tracked, or refused for good.
AttemptEnds(w) ==
    /\ At(w, "admitting")
    /\ Continue(w, Idle)
    /\ UNCHANGED <<now, circuit, lock, recorded>>

\* The task dies: a lock it holds stays until its lease is over.
Crash(w) ==
    /\ ~At(w, "idle")
    /\ Continue(w, Idle)
    /\ UNCHANGED <<now, circuit, lock, recorded>>

\* Time passes.  The establishment budget ends an attempt at its deadline, a
\* request gives up on a contended lock after LockWait, and MaxStall bounds how
\* late a task may be with its next request.
Tick ==
    /\ now < MaxTime
    /\ \A w \in Workers :
          LET r == request[w]
          IN  /\ r.pc = "attempting" => now < r.at + AttemptTimeout
              /\ r.pc = "locking" => now < r.at + LockWait + MaxStall
              /\ r.pc \in InLock => now < r.since + MaxStall
    /\ now' = now + 1
    /\ UNCHANGED <<circuit, lock, request, recorded>>

LockedCall(w) ==
    \/ AcquireLock(w) \/ LockTimeout(w) \/ ReadExpired(w) \/ ReadCurrent(w)
    \/ Evict(w) \/ EvictRejected(w) \/ SaveClaim(w) \/ SaveFailure(w)
    \/ RequestError(w) \/ Unlock(w)

Attempt(w) ==
    \/ ScreenExpired(w) \/ StartClaim(w)
    \/ \E reason \in Failures : ResolveFails(w, reason) \/ AttemptFails(w, reason)
    \/ AttemptCancelled(w) \/ AttemptSucceeds(w)
    \/ ReadForReset(w) \/ Reset(w) \/ EvictUnlocked(w)
    \/ LateFailure(w) \/ AttemptEnds(w)

Next ==
    \/ \E w \in Workers : LockedCall(w) \/ Attempt(w) \/ Crash(w)
    \/ Tick

Spec == Init /\ [][Next]_vars

----------------------------------------------------------------------------
(* Properties.                                                              *)

\* Type invariant: the stored circuit, the lock item and every suspended
\* request of dynamo-runtime-state-repository.ts keep their shapes.
TypeOK ==
    /\ now \in Nat
    /\ circuit \in Circuits
    /\ lock \in [owner : Workers \cup {NoOwner}, expiresAt : Times]
    /\ request \in [Workers -> Requests]
    /\ recorded \in Nat

\* A half-open circuit admits one probe: no two attempts that
\* claimCapacityCircuit admitted as the probe of the candidate are in flight at
\* the same time, whatever stragglers fail, succeed or crash meanwhile.
SingleProbe ==
    \A v, w \in Workers : request[v].probe /\ request[w].probe => v = w

\* No failure that recordCapacityCircuitFailure saved is overwritten by a
\* concurrent claim or failure: once FailureThreshold failures are saved with
\* no deletion or expiry of the circuit in between, the circuit is not closed.
RepeatedFailuresOpen ==
    recorded >= FailureThreshold => circuit.status \in {"open", "half_open"}

\* A circuit is never wedged: whatever sequence of claims, failures and resets
\* produced it, it admits a candidate again once the longest cooldown or the
\* probe lease has passed since it was last written.
NeverWedged ==
    AllowsCandidate(circuit, circuit.updatedAt + Maximum(MaxCooldown, ProbeLease))

\* An open circuit is not forgotten early: the retention that
\* getCapacityCircuit evicts by always covers the cooldown.
RetainedThroughCooldown ==
    circuit.status = "open" => circuit.expiresAt >= circuit.cooldownUntil

============================================================================
