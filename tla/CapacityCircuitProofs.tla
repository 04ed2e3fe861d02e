----------------------- MODULE CapacityCircuitProofs -----------------------
(* Theorems about CapacityCircuit, for every number of concurrent attempts,  *)
(* every policy and every value of the bounds on time and failures.          *)
EXTENDS CapacityCircuit, TLAPS

----------------------------------------------------------------------------
(* The pure transitions of capacity-circuit.ts.                              *)

\* The backoff is never negative and never above the cap.
LEMMA CooldownBounded ==
    ASSUME NEW opens
    PROVE  Cooldown(opens) \in Nat /\ Cooldown(opens) <= MaxCooldown
BY CircuitConstants DEF Cooldown

\* A recorded failure is a circuit.
LEMMA FailedType ==
    ASSUME NEW previous \in Circuits, NEW reason \in Failures, NEW t \in Nat
    PROVE  Failed(previous, reason, t) \in Circuits
<1> DEFINE opens == previous.openCount + (IF ShouldOpen(previous, reason) THEN 1 ELSE 0)
<1>1. opens \in Nat /\ previous.consecutiveFailures + 1 \in Nat
  BY DEF Circuits
<1>2. Cooldown(opens) \in Nat
  BY CooldownBounded
<1>3. Maximum(Retention, Cooldown(opens)) \in Nat
  BY <1>2, CircuitConstants DEF Maximum
<1> QED
  BY <1>1, <1>2, <1>3 DEF Failed, Circuits, Times, NoTime

\* A claimed probe is a circuit.
LEMMA HalfOpenedType ==
    ASSUME NEW state \in Circuits, NEW t \in Nat
    PROVE  HalfOpened(state, t) \in Circuits
<1>1. t \in Times /\ t + ProbeLease \in Times /\ t + Retention \in Times
  BY CircuitConstants DEF Times
<1>2. \A p, u, e \in Times :
        [state EXCEPT !.status = "half_open", !.probeExpiresAt = p,
                      !.updatedAt = u, !.expiresAt = e] \in Circuits
  BY DEF Circuits
<1> QED
  BY <1>1, <1>2 DEF HalfOpened

LEMMA AbsentType == Absent \in Circuits
BY DEF Absent, Circuits, Times, NoTime

LEMMA IdleType == Idle \in Requests
BY AbsentType DEF Idle, Requests, Operations, PcValues

----------------------------------------------------------------------------
(* Types.                                                                    *)

\* Every label a request is moved to is one of its labels.
LEMMA MoveType ==
    ASSUME NEW r \in Requests, NEW label \in PcValues
    PROVE  [r EXCEPT !.pc = label] \in Requests
BY DEF Requests

LEMMA TypeInit == Init => TypeOK
BY IdleType, AbsentType, CircuitConstants DEF Init, TypeOK, NoLock, Times, NoTime

\* Every step keeps the shapes of the items and of the suspended requests.
LEMMA TypeStep == TypeOK /\ [Next]_vars => TypeOK'
<1> SUFFICES ASSUME TypeOK, [Next]_vars PROVE TypeOK'
  OBVIOUS
<1> USE DEF TypeOK, Continue
<1>1. ASSUME NEW w \in Workers PROVE request[w] \in Requests
  OBVIOUS
<1>2. ASSUME NEW w \in Workers, StartClaim(w) PROVE TypeOK'
  <2>1. [Idle EXCEPT !.pc = "locking", !.op = "claim", !.at = now] \in Requests
    BY IdleType DEF Requests, PcValues, Operations
  <2> QED
    BY <1>2, <2>1 DEF StartClaim
<1>3. ASSUME NEW w \in Workers, AcquireLock(w) PROVE TypeOK'
  <2>1. [request[w] EXCEPT !.pc = "reading", !.since = now] \in Requests
    BY <1>1 DEF Requests, PcValues, InLock
  <2>2. now + LockLease \in Times
    BY CircuitConstants DEF Times
  <2> QED
    BY <1>3, <2>1, <2>2 DEF AcquireLock
<1>4. ASSUME NEW w \in Workers, LockTimeout(w) PROVE TypeOK'
  BY <1>4, IdleType DEF LockTimeout
<1>5. ASSUME NEW w \in Workers, ReadExpired(w) PROVE TypeOK'
  BY <1>1, <1>5, MoveType DEF ReadExpired, PcValues, InLock
<1>6. ASSUME NEW w \in Workers, ReadCurrent(w) PROVE TypeOK'
  <2>1. [request[w] EXCEPT !.pc = "saving", !.view = circuit] \in Requests
    BY <1>1 DEF Requests, PcValues, InLock
  <2> QED
    BY <1>6, <2>1 DEF ReadCurrent
<1>7. ASSUME NEW w \in Workers, Evict(w) PROVE TypeOK'
  BY <1>1, <1>7, MoveType, AbsentType DEF Evict, DeleteCircuit, PcValues, InLock
<1>8. ASSUME NEW w \in Workers, EvictRejected(w) PROVE TypeOK'
  BY <1>1, <1>8, MoveType DEF EvictRejected, PcValues, InLock
<1>9. ASSUME NEW w \in Workers, SaveClaim(w) PROVE TypeOK'
  <2> DEFINE probing == NeedsProbe(request[w].view) /\ AllowsCandidate(request[w].view, request[w].at)
  <2>1. ASSUME NEW b \in BOOLEAN
        PROVE  [request[w] EXCEPT !.pc = "unlocking", !.probe = b] \in Requests
    BY <1>1 DEF Requests, PcValues, InLock
  <2>2. probing \in BOOLEAN
    BY DEF NeedsProbe
  <2>3. HalfOpened(request[w].view, request[w].at) \in Circuits
    BY <1>1, HalfOpenedType DEF Requests
  <2> HIDE DEF probing
  <2>4. /\ circuit' = IF probing THEN HalfOpened(request[w].view, request[w].at) ELSE circuit
        /\ request' = [request EXCEPT ![w] = [request[w] EXCEPT !.pc = "unlocking", !.probe = probing]]
        /\ UNCHANGED <<now, lock, recorded>>
    BY <1>9 DEF SaveClaim, probing
  <2>5. [request[w] EXCEPT !.pc = "unlocking", !.probe = probing] \in Requests
    BY <2>1, <2>2
  <2> QED
    BY <2>3, <2>4, <2>5
<1>10. ASSUME NEW w \in Workers, SaveFailure(w) PROVE TypeOK'
  <2>1. Failed(request[w].view, request[w].op, request[w].at) \in Circuits
    BY <1>1, <1>10, FailedType DEF Requests, SaveFailure
  <2>2. [request[w] EXCEPT !.pc = "unlocking"] \in Requests
    BY <1>1, MoveType DEF PcValues, InLock
  <2>3. /\ circuit' = Failed(request[w].view, request[w].op, request[w].at)
        /\ recorded' = recorded + 1
        /\ request' = [request EXCEPT ![w] = [request[w] EXCEPT !.pc = "unlocking"]]
        /\ UNCHANGED <<now, lock>>
    BY <1>10 DEF SaveFailure
  <2> QED
    BY <2>1, <2>2, <2>3
<1>11. ASSUME NEW w \in Workers, RequestError(w) PROVE TypeOK'
  <2>1. [request[w] EXCEPT !.pc = "aborting"] \in Requests
    BY <1>1, MoveType DEF PcValues, InLock
  <2> QED
    BY <1>11, <2>1, IdleType DEF RequestError
<1>12. ASSUME NEW w \in Workers, Unlock(w) PROVE TypeOK'
  <2>1. [Idle EXCEPT !.pc = "attempting", !.at = request[w].at, !.probe = request[w].probe] \in Requests
    BY <1>1, IdleType DEF Requests, PcValues
  <2>2. NoLock \in [owner : Workers \cup {NoOwner}, expiresAt : Times]
    BY DEF NoLock, Times, NoTime
  <2> QED
    BY <1>12, <2>1, <2>2, IdleType DEF Unlock
<1>13. ASSUME NEW w \in Workers, NEW reason \in Failures, ReportFailure(w, reason) PROVE TypeOK'
  <2>1. [Idle EXCEPT !.pc = "locking", !.op = reason, !.at = now] \in Requests
    BY IdleType DEF Requests, PcValues, Operations
  <2> QED
    BY <1>13, <2>1 DEF ReportFailure
<1>14. ASSUME NEW w \in Workers,
              \/ LateFailure(w)
              \/ \E reason \in Failures : ResolveFails(w, reason) \/ AttemptFails(w, reason)
       PROVE  TypeOK'
  <2>1. "other_failure" \in Failures
    BY DEF Failures
  <2> QED
    BY <1>13, <1>14, <2>1 DEF LateFailure, ResolveFails, AttemptFails
<1>15. ASSUME NEW w \in Workers, AttemptCancelled(w) \/ AttemptEnds(w) PROVE TypeOK'
  BY <1>15, IdleType DEF AttemptCancelled, AttemptEnds
<1>16. ASSUME NEW w \in Workers,
              ScreenExpired(w) \/ AttemptSucceeds(w) \/ ReadForReset(w)
       PROVE  TypeOK'
  BY <1>16, IdleType, MoveType DEF ScreenExpired, AttemptSucceeds, ReadForReset, PcValues
<1>17. ASSUME NEW w \in Workers, Reset(w) \/ EvictUnlocked(w) PROVE TypeOK'
  BY <1>17, IdleType, MoveType, AbsentType DEF Reset, EvictUnlocked, DeleteCircuit, PcValues
<1>18. ASSUME NEW w \in Workers, Crash(w) PROVE TypeOK'
  BY <1>18, IdleType DEF Crash
<1>19. ASSUME Tick PROVE TypeOK'
  BY <1>19 DEF Tick
<1>20. ASSUME UNCHANGED vars PROVE TypeOK'
  BY <1>20 DEF vars
<1> QED
  BY <1>2, <1>3, <1>4, <1>5, <1>6, <1>7, <1>8, <1>9, <1>10, <1>11, <1>12, <1>13, <1>14,
     <1>15, <1>16, <1>17, <1>18, <1>19, <1>20
     DEF Next, LockedCall, Attempt

\* The stored circuit, the lock item and every suspended request keep their
\* shapes (capacity-circuit.ts, dynamo-runtime-state-repository.ts).
THEOREM Types == Spec => []TypeOK
BY TypeInit, TypeStep, PTL DEF Spec

----------------------------------------------------------------------------
(* What the stored circuit says of itself, whoever wrote it last.           *)

\* An open circuit names a cooldown within the cap, counted from its last
\* write, and the retention covers it; a half-open one names the end of its
\* probe lease, counted from its last write.
WellFormed(state) ==
    /\ state.status = "open" =>
          /\ state.cooldownUntil # NoTime
          /\ state.cooldownUntil <= state.updatedAt + MaxCooldown
          /\ state.expiresAt >= state.cooldownUntil
    /\ state.status = "half_open" =>
          /\ state.probeExpiresAt # NoTime
          /\ state.probeExpiresAt <= state.updatedAt + ProbeLease

\* recordCapacityCircuitFailure returns a well-formed circuit, from any other.
LEMMA FailedWellFormed ==
    ASSUME NEW previous \in Circuits, NEW reason \in Failures, NEW t \in Nat
    PROVE  WellFormed(Failed(previous, reason, t))
<1> DEFINE opens == previous.openCount + (IF ShouldOpen(previous, reason) THEN 1 ELSE 0)
           cooldown == Cooldown(opens)
<1>1. cooldown \in Nat /\ cooldown <= MaxCooldown
  BY CooldownBounded
<1>2. /\ Failed(previous, reason, t).status \in {"open", "closed"}
      /\ Failed(previous, reason, t).status = "open"
           => Failed(previous, reason, t).cooldownUntil = t + cooldown
      /\ Failed(previous, reason, t).updatedAt = t
      /\ Failed(previous, reason, t).expiresAt = t + Maximum(Retention, cooldown)
  BY DEF Failed
<1>3. Maximum(Retention, cooldown) \in Nat /\ Maximum(Retention, cooldown) >= cooldown
  BY <1>1, CircuitConstants DEF Maximum
<1> HIDE DEF cooldown
<1> QED
  BY <1>1, <1>2, <1>3, CircuitConstants DEF WellFormed, NoTime

\* claimCapacityCircuitProbe returns a well-formed circuit, from any other.
LEMMA HalfOpenedWellFormed ==
    ASSUME NEW state \in Circuits, NEW t \in Nat
    PROVE  WellFormed(HalfOpened(state, t))
<1>1. /\ HalfOpened(state, t).status = "half_open"
      /\ HalfOpened(state, t).probeExpiresAt = t + ProbeLease
      /\ HalfOpened(state, t).updatedAt = t
  BY DEF HalfOpened, Circuits
<1> QED
  BY <1>1, CircuitConstants DEF WellFormed, NoTime

\* Every write of the stored circuit is a deletion, a claim or a failure.
LEMMA CircuitWrites ==
    ASSUME TypeOK, [Next]_vars
    PROVE  \/ circuit' = circuit
           \/ circuit' = Absent
           \/ \E state \in Circuits, t \in Nat : circuit' = HalfOpened(state, t)
           \/ \E state \in Circuits, reason \in Failures, t \in Nat :
                 circuit' = Failed(state, reason, t)
<1>1. ASSUME NEW w \in Workers, SaveClaim(w)
      PROVE  \/ circuit' = circuit
             \/ \E state \in Circuits, t \in Nat : circuit' = HalfOpened(state, t)
  <2>1. request[w].view \in Circuits /\ request[w].at \in Nat
    BY DEF TypeOK, Requests
  <2>2. circuit' = circuit \/ circuit' = HalfOpened(request[w].view, request[w].at)
    BY <1>1 DEF SaveClaim
  <2> QED
    BY <2>1, <2>2
<1>2. ASSUME NEW w \in Workers, SaveFailure(w)
      PROVE  \E state \in Circuits, reason \in Failures, t \in Nat :
               circuit' = Failed(state, reason, t)
  <2>1. request[w].view \in Circuits /\ request[w].at \in Nat
    BY DEF TypeOK, Requests
  <2>2. request[w].op \in Failures /\ circuit' = Failed(request[w].view, request[w].op, request[w].at)
    BY <1>2 DEF SaveFailure
  <2> QED
    BY <2>1, <2>2
<1>3. CASE \E w \in Workers : Evict(w) \/ Reset(w) \/ EvictUnlocked(w)
  BY <1>3 DEF Evict, Reset, EvictUnlocked, DeleteCircuit
<1>4. CASE \E w \in Workers : SaveClaim(w) \/ SaveFailure(w)
  BY <1>1, <1>2, <1>4
<1>5. CASE /\ ~\E w \in Workers : Evict(w) \/ Reset(w) \/ EvictUnlocked(w)
           /\ ~\E w \in Workers : SaveClaim(w) \/ SaveFailure(w)
  <2> circuit' = circuit
    BY <1>5 DEF Next, LockedCall, Attempt, StartClaim, AcquireLock, LockTimeout, ReadExpired,
       ReadCurrent, EvictRejected, RequestError, Unlock, ResolveFails, AttemptFails, LateFailure,
       ReportFailure, AttemptCancelled, AttemptSucceeds, AttemptEnds, ScreenExpired, ReadForReset,
       Crash, Tick, vars
  <2> QED
    OBVIOUS
<1> QED
  BY <1>3, <1>4, <1>5

LEMMA WellFormedStep == TypeOK /\ WellFormed(circuit) /\ [Next]_vars => WellFormed(circuit)'
<1> SUFFICES ASSUME TypeOK, WellFormed(circuit), [Next]_vars PROVE WellFormed(circuit')
  BY DEF WellFormed
<1>1. WellFormed(Absent)
  BY DEF WellFormed, Absent
<1> QED
  BY <1>1, CircuitWrites, FailedWellFormed, HalfOpenedWellFormed

LEMMA AlwaysWellFormed == Spec => []WellFormed(circuit)
<1>1. Init => WellFormed(circuit)
  BY DEF Init, WellFormed, Absent
<1> QED
  BY <1>1, WellFormedStep, Types, PTL DEF Spec

\* A circuit always admits a candidate again once the longest cooldown or the
\* probe lease has passed since its last write: no sequence of claims, failures,
\* lost probes and resets closes a candidate for good.
THEOREM CircuitNeverWedged == Spec => []NeverWedged
<1>1. TypeOK /\ WellFormed(circuit) => NeverWedged
  <2> SUFFICES ASSUME TypeOK, WellFormed(circuit) PROVE NeverWedged
    OBVIOUS
  <2>1. circuit \in Circuits
    BY DEF TypeOK
  <2>2. /\ circuit.status \in {"absent", "closed", "open", "half_open"}
        /\ circuit.cooldownUntil \in Int /\ circuit.probeExpiresAt \in Int
        /\ circuit.updatedAt \in Int
    BY <2>1 DEF Circuits, Times, NoTime
  <2> DEFINE t == circuit.updatedAt + Maximum(MaxCooldown, ProbeLease)
  <2>3. t \in Int /\ t >= circuit.updatedAt + MaxCooldown /\ t >= circuit.updatedAt + ProbeLease
    BY <2>2, CircuitConstants DEF Maximum
  <2>4. CASE circuit.status \in {"absent", "closed"}
    BY <2>4 DEF NeverWedged, AllowsCandidate
  <2>5. CASE circuit.status = "open"
    <3>1. circuit.cooldownUntil # NoTime /\ circuit.cooldownUntil <= t
      BY <2>2, <2>3, <2>5, CircuitConstants DEF WellFormed
    <3> QED
      BY <2>5, <3>1 DEF NeverWedged, AllowsCandidate
  <2>6. CASE circuit.status = "half_open"
    <3>1. circuit.probeExpiresAt # NoTime /\ circuit.probeExpiresAt <= t
      BY <2>2, <2>3, <2>6, CircuitConstants DEF WellFormed
    <3> QED
      BY <2>6, <3>1 DEF NeverWedged, AllowsCandidate
  <2> QED
    BY <2>2, <2>4, <2>5, <2>6
<1> QED
  BY <1>1, Types, AlwaysWellFormed, PTL

\* The eviction inside getCapacityCircuit never forgets an open circuit before
\* its cooldown is over.
THEOREM CooldownRetained == Spec => []RetainedThroughCooldown
<1>1. WellFormed(circuit) => RetainedThroughCooldown
  BY DEF WellFormed, RetainedThroughCooldown
<1> QED
  BY <1>1, AlwaysWellFormed, PTL

----------------------------------------------------------------------------
(* No failure is lost, provided no lock holder outlives its lease.          *)

\* A request between lock and unlock owns the LOCK item, and the lease still
\* runs: it began when the request acquired the lock.
LockHeld ==
    \A w \in Workers : request[w].pc \in InLock =>
        /\ lock.owner = w
        /\ lock.expiresAt = request[w].since + LockLease
        /\ now <= request[w].since + MaxStall

\* No failure saved since the last deletion is missing from the stored count,
\* nor from the count a request is about to write back.
FailuresKept ==
    /\ circuit.consecutiveFailures >= recorded
    /\ \A w \in Workers :
          /\ request[w].pc = "evicting" => recorded = 0
          /\ request[w].pc = "saving" => request[w].view.consecutiveFailures >= recorded

\* Only a circuit below the failure threshold is closed or missing.
ClosedBelowThreshold ==
    circuit.status \in {"absent", "closed"} => circuit.consecutiveFailures < FailureThreshold

\* The inductive invariant behind RepeatedFailuresOpen.
FailureInv == TypeOK /\ LockHeld /\ FailuresKept /\ ClosedBelowThreshold

LEMMA FailureInvInit == Init => FailureInv
<1> SUFFICES ASSUME Init PROVE FailureInv
  OBVIOUS
<1>1. TypeOK
  BY TypeInit
<1>2. \A w \in Workers : request[w].pc = "idle"
  BY DEF Init, Idle
<1>3. circuit.consecutiveFailures = 0 /\ recorded = 0
  BY DEF Init, Absent
<1> QED
  BY <1>1, <1>2, <1>3, CircuitConstants
     DEF FailureInv, LockHeld, FailuresKept, ClosedBelowThreshold, InLock

\* A lease that outlasts every stall is not expired while its holder works, so
\* the lock excludes.
LEMMA Exclusion ==
    ASSUME MaxStall <= LockLease, TypeOK, LockHeld,
           NEW w \in Workers, request[w].pc \in InLock
    PROVE  /\ ~LockFree
           /\ \A v \in Workers : request[v].pc \in InLock => v = w
<1>1. /\ lock.owner = w
      /\ lock.expiresAt = request[w].since + LockLease
      /\ now <= request[w].since + MaxStall
  BY DEF LockHeld
<1>2. request[w].since \in Nat /\ now \in Nat
  BY DEF TypeOK, Requests
<1>3. lock.expiresAt >= now
  BY <1>1, <1>2, CircuitConstants
<1> QED
  BY <1>1, <1>2, <1>3, CircuitConstants DEF LockFree, LockHeld

LEMMA LockHeldStep ==
    ASSUME MaxStall <= LockLease, TypeOK, LockHeld, [Next]_vars
    PROVE  LockHeld'
<1> USE DEF LockHeld, Continue
\* A request that moves on within the lock, or anywhere outside it.
<1>1. ASSUME NEW w \in Workers, NEW r, request' = [request EXCEPT ![w] = r],
             UNCHANGED <<now, lock>>,
             r.pc \in InLock => request[w].pc \in InLock /\ r.since = request[w].since
      PROVE  LockHeld'
  <2> SUFFICES ASSUME NEW v \in Workers, request'[v].pc \in InLock
               PROVE  /\ lock.owner = v
                      /\ lock.expiresAt = request'[v].since + LockLease
                      /\ now <= request'[v].since + MaxStall
    BY <1>1
  <2>1. request'[v] = IF v = w THEN r ELSE request[v]
    BY <1>1 DEF TypeOK
  <2> QED
    BY <1>1, <2>1
<1>2. ASSUME NEW w \in Workers, AcquireLock(w) PROVE LockHeld'
  <2> SUFFICES ASSUME NEW v \in Workers, request'[v].pc \in InLock
               PROVE  /\ lock'.owner = v
                      /\ lock'.expiresAt = request'[v].since + LockLease
                      /\ now' <= request'[v].since + MaxStall
    OBVIOUS
  <2>1. v = w
    BY <1>2, Exclusion DEF AcquireLock, TypeOK
  <2>2. request'[w].since = now
    BY <1>2 DEF AcquireLock, TypeOK, Requests
  <2> QED
    BY <1>2, <2>1, <2>2, CircuitConstants DEF AcquireLock, TypeOK
<1>3. ASSUME NEW w \in Workers, Unlock(w) PROVE LockHeld'
  <2>1. request'[w].pc \notin InLock /\ request[w].pc \in InLock
    BY <1>3 DEF Unlock, Idle, InLock, TypeOK
  <2>2. \A v \in Workers : v # w => request'[v].pc \notin InLock
    BY <1>3, <2>1, Exclusion DEF Unlock, TypeOK
  <2> QED
    BY <2>1, <2>2
<1>4. ASSUME Tick PROVE LockHeld'
  <2> SUFFICES ASSUME NEW v \in Workers, request[v].pc \in InLock
               PROVE  now + 1 <= request[v].since + MaxStall
    BY <1>4 DEF Tick
  <2>1. now < request[v].since + MaxStall
    BY <1>4 DEF Tick
  <2>2. now \in Nat /\ request[v].since \in Nat
    BY DEF TypeOK, Requests
  <2> QED
    BY <2>1, <2>2, CircuitConstants
<1>5. ASSUME NEW w \in Workers,
             ReadExpired(w) \/ ReadCurrent(w) \/ Evict(w) \/ EvictRejected(w)
      PROVE  LockHeld'
  <2>1. request[w] \in Requests /\ request[w].pc \in {"reading", "evicting"}
    BY <1>5 DEF TypeOK, ReadExpired, ReadCurrent, Evict, EvictRejected, At
  <2>2. UNCHANGED <<now, lock>>
    BY <1>5 DEF ReadExpired, ReadCurrent, Evict, EvictRejected
  <2>3. \E r : request' = [request EXCEPT ![w] = r] /\ r.since = request[w].since
    BY <1>5, <2>1 DEF ReadExpired, ReadCurrent, Evict, EvictRejected, Requests
  <2> QED
    BY <1>1, <2>1, <2>2, <2>3 DEF InLock
<1>6. ASSUME NEW w \in Workers, SaveClaim(w) \/ SaveFailure(w) \/ RequestError(w)
      PROVE  LockHeld'
  <2>1. request[w] \in Requests
    BY DEF TypeOK
  <2>2. UNCHANGED <<now, lock>>
    BY <1>6 DEF SaveClaim, SaveFailure, RequestError
  <2>3. CASE request[w].pc \in {"reading", "saving"}
    <3>1. \E r : request' = [request EXCEPT ![w] = r] /\ r.since = request[w].since
      BY <1>6, <2>1, <2>3 DEF SaveClaim, SaveFailure, RequestError, Requests
    <3> QED
      BY <1>1, <2>2, <2>3, <3>1 DEF InLock
  <2>4. CASE request[w].pc \notin {"reading", "saving"}
    <3>1. request' = [request EXCEPT ![w] = Idle]
      BY <1>6, <2>4 DEF SaveClaim, SaveFailure, RequestError, At
    <3> QED
      BY <1>1, <2>2, <3>1 DEF InLock, Idle
  <2> QED
    BY <2>3, <2>4
<1>7. ASSUME NEW w \in Workers,
             \/ StartClaim(w) \/ LateFailure(w)
             \/ \E reason \in Failures : ResolveFails(w, reason) \/ AttemptFails(w, reason)
      PROVE  LockHeld'
  <2>1. /\ UNCHANGED <<now, lock>>
        /\ \E o \in Operations :
             request' = [request EXCEPT ![w] = [Idle EXCEPT !.pc = "locking", !.op = o, !.at = now]]
    BY <1>7 DEF StartClaim, LateFailure, ResolveFails, AttemptFails, ReportFailure,
       Operations, Failures
  <2>2. \A o \in Operations : [Idle EXCEPT !.pc = "locking", !.op = o, !.at = now].pc = "locking"
    BY DEF Idle
  <2> QED
    BY <1>1, <2>1, <2>2 DEF InLock
<1>8. ASSUME NEW w \in Workers,
             \/ LockTimeout(w) \/ AttemptCancelled(w) \/ AttemptSucceeds(w) \/ AttemptEnds(w)
             \/ ScreenExpired(w) \/ ReadForReset(w) \/ Reset(w) \/ EvictUnlocked(w) \/ Crash(w)
      PROVE  LockHeld'
  <2>1. /\ UNCHANGED <<now, lock>>
        /\ \E r : /\ request' = [request EXCEPT ![w] = r]
                  /\ r.pc \in {"idle", "screening", "succeeding", "expiring", "resetting", "admitting"}
    BY <1>8 DEF LockTimeout, AttemptCancelled, AttemptSucceeds, AttemptEnds, ScreenExpired,
       ReadForReset, Reset, EvictUnlocked, Crash, Idle
  <2> QED
    BY <1>1, <2>1 DEF InLock
<1>9. CASE UNCHANGED vars
  BY <1>9 DEF vars
<1> QED
  BY <1>2, <1>3, <1>4, <1>5, <1>6, <1>7, <1>8, <1>9 DEF Next, LockedCall, Attempt

\* What a recorded failure counts.
LEMMA FailedCount ==
    ASSUME NEW previous \in Circuits, NEW reason \in Failures, NEW t \in Nat
    PROVE  /\ Failed(previous, reason, t).consecutiveFailures = previous.consecutiveFailures + 1
           /\ Failed(previous, reason, t).status = "closed"
                => previous.consecutiveFailures + 1 < FailureThreshold
           /\ Failed(previous, reason, t).status # "absent"
BY CircuitConstants DEF Failed, ShouldOpen, Circuits

LEMMA ClosedBelowStep ==
    ASSUME TypeOK, ClosedBelowThreshold, [Next]_vars
    PROVE  ClosedBelowThreshold'
<1>1. CASE circuit' = circuit
  BY <1>1 DEF ClosedBelowThreshold
<1>2. CASE circuit' = Absent
  BY <1>2, CircuitConstants DEF ClosedBelowThreshold, Absent
<1>3. CASE \E state \in Circuits, t \in Nat : circuit' = HalfOpened(state, t)
  BY <1>3 DEF ClosedBelowThreshold, HalfOpened, Circuits
<1>4. CASE \E state \in Circuits, reason \in Failures, t \in Nat :
             circuit' = Failed(state, reason, t)
  BY <1>4, FailedCount DEF ClosedBelowThreshold
<1> QED
  BY <1>1, <1>2, <1>3, <1>4, CircuitWrites

LEMMA FailuresKeptStep ==
    ASSUME MaxStall <= LockLease, TypeOK, LockHeld, FailuresKept, [Next]_vars
    PROVE  FailuresKept'
<1> USE DEF FailuresKept, Continue
<1>0. /\ recorded \in Nat /\ circuit.consecutiveFailures \in Nat
      /\ \A w \in Workers :
            /\ request[w] \in Requests
            /\ request[w].view \in Circuits
            /\ request[w].view.consecutiveFailures \in Nat
  BY DEF TypeOK, Requests, Circuits
\* A step that writes neither the circuit nor the count, and moves its request
\* to a label other than the two that carry a count.
<1>1. ASSUME NEW w \in Workers, NEW r, request' = [request EXCEPT ![w] = r],
             r.pc \notin {"evicting", "saving"}, UNCHANGED <<circuit, recorded>>
      PROVE  FailuresKept'
  <2>1. \A v \in Workers : request'[v] = IF v = w THEN r ELSE request[v]
    BY <1>1 DEF TypeOK
  <2> QED
    BY <1>1, <2>1
\* A deletion resets the count, so nothing can be missing.
<1>2. ASSUME DeleteCircuit, \A v \in Workers : request'[v].view.consecutiveFailures \in Nat
      PROVE  FailuresKept'
  BY <1>2 DEF DeleteCircuit, Absent
<1>3. \A v \in Workers : request'[v].view.consecutiveFailures \in Nat
  <2>1. TypeOK'
    BY TypeStep
  <2> QED
    BY <2>1 DEF TypeOK, Requests, Circuits
<1>4. ASSUME NEW w \in Workers, ReadExpired(w) PROVE FailuresKept'
  BY <1>0, <1>3, <1>4 DEF ReadExpired
<1>5. ASSUME NEW w \in Workers, ReadCurrent(w) PROVE FailuresKept'
  <2>1. /\ UNCHANGED <<circuit, recorded>>
        /\ request' = [request EXCEPT ![w] = [request[w] EXCEPT !.pc = "saving", !.view = circuit]]
    BY <1>5 DEF ReadCurrent
  <2>2. request'[w].view = circuit /\ request'[w].pc = "saving"
    BY <1>0, <2>1 DEF TypeOK, Requests
  <2>3. \A v \in Workers : v # w => request'[v] = request[v]
    BY <2>1 DEF TypeOK
  <2> QED
    BY <2>1, <2>2, <2>3
<1>6. ASSUME NEW w \in Workers, Evict(w) PROVE FailuresKept'
  BY <1>2, <1>3, <1>6 DEF Evict
<1>7. ASSUME NEW w \in Workers, Reset(w) \/ EvictUnlocked(w) PROVE FailuresKept'
  <2>1. CASE DeleteCircuit
    BY <1>2, <1>3, <2>1
  <2>2. CASE EvictUnlocked(w) /\ UNCHANGED <<circuit, recorded>>
    <3>1. \E r : request' = [request EXCEPT ![w] = r] /\ r.pc \in {"idle", "admitting"}
      BY <2>2 DEF EvictUnlocked, Idle
    <3> QED
      BY <1>1, <2>2, <3>1
  <2> QED
    BY <1>7, <2>1, <2>2 DEF Reset, EvictUnlocked
<1>8. ASSUME NEW w \in Workers, EvictRejected(w) PROVE FailuresKept'
  <2>1. recorded = 0 /\ UNCHANGED <<circuit, recorded>>
    BY <1>8 DEF EvictRejected, At
  <2> QED
    BY <1>0, <1>3, <2>1
<1>9. ASSUME NEW w \in Workers, SaveClaim(w) PROVE FailuresKept'
  <2>1. /\ recorded' = recorded
        /\ request[w].pc = "saving"
        /\ circuit' = circuit \/ circuit' = HalfOpened(request[w].view, request[w].at)
    BY <1>9 DEF SaveClaim, At
  <2>2. HalfOpened(request[w].view, request[w].at).consecutiveFailures
          = request[w].view.consecutiveFailures
    BY <1>0 DEF HalfOpened, Circuits
  <2>3. circuit'.consecutiveFailures >= recorded
    BY <2>1, <2>2
  <2>4. \A v \in Workers : v # w => request'[v] = request[v]
    BY <1>9 DEF SaveClaim, TypeOK
  <2>5. request'[w].pc = "unlocking"
    BY <1>0, <1>9 DEF SaveClaim, TypeOK, Requests
  <2> QED
    BY <2>1, <2>3, <2>4, <2>5
\* The only step that adds to the count: no other request is inside the lock.
<1>10. ASSUME NEW w \in Workers, SaveFailure(w) PROVE FailuresKept'
  <2>1. /\ recorded' = recorded + 1
        /\ request[w].pc = "saving" /\ request[w].op \in Failures
        /\ circuit' = Failed(request[w].view, request[w].op, request[w].at)
        /\ request' = [request EXCEPT ![w] = [request[w] EXCEPT !.pc = "unlocking"]]
    BY <1>10 DEF SaveFailure, At
  <2>2. circuit'.consecutiveFailures = request[w].view.consecutiveFailures + 1
    BY <1>0, <2>1, FailedCount DEF Requests
  <2>3. request'[w].pc = "unlocking" /\ \A v \in Workers : v # w => request'[v] = request[v]
    BY <1>0, <2>1 DEF TypeOK, Requests
  <2>4. \A v \in Workers : v # w => request[v].pc \notin InLock
    BY <2>1, Exclusion DEF InLock
  <2> QED
    BY <1>0, <2>1, <2>2, <2>3, <2>4 DEF InLock
<1>11. ASSUME NEW w \in Workers, AcquireLock(w) \/ RequestError(w) \/ Unlock(w)
       PROVE  FailuresKept'
  <2>1. CASE AcquireLock(w)
    <3>1. [request[w] EXCEPT !.pc = "reading", !.since = now].pc = "reading"
      BY <1>0 DEF Requests
    <3> QED
      BY <1>1, <2>1, <3>1 DEF AcquireLock
  <2>2. CASE RequestError(w)
    <3>1. [request[w] EXCEPT !.pc = "aborting"].pc = "aborting" /\ Idle.pc = "idle"
      BY <1>0 DEF Requests, Idle
    <3> QED
      BY <1>1, <2>2, <3>1 DEF RequestError
  <2>3. CASE Unlock(w)
    <3>1. /\ Idle.pc = "idle"
          /\ [Idle EXCEPT !.pc = "attempting", !.at = request[w].at, !.probe = request[w].probe].pc
               = "attempting"
      BY DEF Idle
    <3> QED
      BY <1>1, <2>3, <3>1 DEF Unlock
  <2> QED
    BY <1>11, <2>1, <2>2, <2>3
<1>12. ASSUME NEW w \in Workers,
             \/ StartClaim(w) \/ LateFailure(w)
             \/ \E reason \in Failures : ResolveFails(w, reason) \/ AttemptFails(w, reason)
       PROVE  FailuresKept'
  <2>1. /\ UNCHANGED <<circuit, recorded>>
        /\ \E o \in Operations :
             request' = [request EXCEPT ![w] = [Idle EXCEPT !.pc = "locking", !.op = o, !.at = now]]
    BY <1>12 DEF StartClaim, LateFailure, ResolveFails, AttemptFails, ReportFailure,
       Operations, Failures
  <2>2. \A o \in Operations : [Idle EXCEPT !.pc = "locking", !.op = o, !.at = now].pc = "locking"
    BY DEF Idle
  <2> QED
    BY <1>1, <2>1, <2>2
<1>13. ASSUME NEW w \in Workers,
             \/ LockTimeout(w) \/ AttemptCancelled(w) \/ AttemptSucceeds(w) \/ AttemptEnds(w)
             \/ ScreenExpired(w) \/ ReadForReset(w) \/ Crash(w)
      PROVE  FailuresKept'
  <2>1. /\ UNCHANGED <<circuit, recorded>>
        /\ \E r : /\ request' = [request EXCEPT ![w] = r]
                  /\ r.pc \in {"idle", "screening", "succeeding", "expiring", "resetting", "admitting"}
    BY <1>13 DEF LockTimeout, AttemptCancelled, AttemptSucceeds, AttemptEnds, ScreenExpired,
       ReadForReset, Crash, Idle
  <2> QED
    BY <1>1, <2>1
<1>14. CASE Tick \/ UNCHANGED vars
  BY <1>14 DEF Tick, vars
<1> QED
  BY <1>4, <1>5, <1>6, <1>7, <1>8, <1>9, <1>10, <1>11, <1>12, <1>13, <1>14
     DEF Next, LockedCall, Attempt

\* As long as no task stalls inside the lock for longer than the lock's lease,
\* no saved failure is ever overwritten by a concurrent claim or failure: after
\* FailureThreshold of them the circuit is not closed.
THEOREM FailuresOpenCircuit ==
    ASSUME MaxStall <= LockLease
    PROVE  Spec => []RepeatedFailuresOpen
<1>1. FailureInv /\ [Next]_vars => FailureInv'
  BY TypeStep, LockHeldStep, FailuresKeptStep, ClosedBelowStep DEF FailureInv
<1>2. FailureInv => RepeatedFailuresOpen
  <2> SUFFICES ASSUME FailureInv, recorded >= FailureThreshold
               PROVE  circuit.status \in {"open", "half_open"}
    BY DEF RepeatedFailuresOpen
  <2>1. /\ recorded \in Nat /\ circuit.consecutiveFailures \in Nat
        /\ circuit.status \in {"absent", "closed", "open", "half_open"}
    BY DEF FailureInv, TypeOK, Circuits
  <2>2. circuit.consecutiveFailures >= FailureThreshold
    BY <2>1, CircuitConstants DEF FailureInv, FailuresKept
  <2> QED
    BY <2>1, <2>2, CircuitConstants DEF FailureInv, ClosedBelowThreshold
<1> QED
  BY <1>1, <1>2, FailureInvInit, PTL DEF Spec

----------------------------------------------------------------------------
(* One probe at a time, provided the probe's lease and the shortest cooldown *)
(* outlast whatever a probe and a straggler can take.                        *)

\* The shortest cooldown a failure sets.
LeastCooldown == IF BaseCooldown <= MaxCooldown THEN BaseCooldown ELSE MaxCooldown

\* The longest a request waits for the lock after it read its time.
LockDelay == LockWait + MaxStall

\* The longest a probe is in flight after the time its claim was saved with.
ProbeSpan == Maximum(AttemptTimeout, LockDelay + MaxStall)

\* What the program's durations satisfy: with stalls of at most the 10 s of the
\* lock lease, a probe lasts at most 25 s of its 30 s, and a straggler that began
\* before it another 15 s within the cooldown of 60 s.
ProbeDurations ==
    /\ MaxStall <= LockLease
    /\ ProbeSpan < ProbeLease
    /\ ProbeSpan + LockDelay < LeastCooldown

\* No request is older than its budget, its wait for the lock or its hold of it,
\* and none has a circuit before it has read one.
OnPace(r, t) ==
    /\ r.at <= t
    /\ r.pc \in {"locking", "reading", "evicting"} => r.view = Absent
    /\ r.pc = "locking" => t <= r.at + LockDelay
    /\ r.pc \in InLock => r.since <= r.at + LockDelay
    /\ r.probe => r.pc \in {"unlocking", "attempting"} /\ t <= r.at + ProbeSpan
Paced == \A w \in Workers : OnPace(request[w], now)

\* A circuit that admits no probe as long as one admitted at t is in flight.
Shut(state, t) ==
    /\ state.status = "half_open" => state.probeExpiresAt > t + ProbeSpan
    /\ state.status = "open" => state.cooldownUntil > t + ProbeSpan

\* While a probe is in flight the circuit is shut, and so is it in the eyes of
\* everyone who has read it; whoever is in the lock entered it after the probe.
Guarded ==
    \A w, u \in Workers : request[w].probe =>
        /\ Shut(circuit, request[w].at)
        /\ request[u].pc = "saving" => Shut(request[u].view, request[w].at)
        /\ request[u].pc \in InLock /\ u # w => request[u].since >= request[w].at

\* The inductive invariant behind SingleProbe.
ProbeInv == TypeOK /\ LockHeld /\ Paced /\ Guarded /\ SingleProbe

LEMMA SpanFacts ==
    /\ ProbeSpan \in Nat /\ LockDelay \in Nat
    /\ AttemptTimeout <= ProbeSpan /\ LockDelay + MaxStall <= ProbeSpan
BY CircuitConstants DEF ProbeSpan, LockDelay, Maximum

LEMMA PacedStep ==
    ASSUME TypeOK, LockHeld, Paced, [Next]_vars
    PROVE  Paced'
<1> USE DEF Continue
<1>0. /\ now \in Nat
      /\ \A w \in Workers : /\ request[w] \in Requests /\ OnPace(request[w], now)
                            /\ request[w].at \in Nat /\ request[w].since \in Nat
  BY DEF TypeOK, Requests, Paced
\* A step of one request that leaves it on pace.
<1>1. ASSUME NEW w \in Workers, NEW r, request' = [request EXCEPT ![w] = r],
             UNCHANGED now, OnPace(r, now)
      PROVE  Paced'
  BY <1>0, <1>1 DEF Paced, TypeOK
<1>2. ASSUME NEW w \in Workers, AcquireLock(w) PROVE Paced'
  <2> DEFINE r == [request[w] EXCEPT !.pc = "reading", !.since = now]
  <2>1. /\ r.pc = "reading" /\ r.since = now
        /\ r.at = request[w].at /\ r.probe = request[w].probe /\ r.view = request[w].view
    BY <1>0 DEF Requests
  <2>2. request[w].pc = "locking" /\ UNCHANGED now /\ request' = [request EXCEPT ![w] = r]
    BY <1>2 DEF AcquireLock, At
  <2> HIDE DEF r
  <2>3. OnPace(r, now)
    BY <1>0, <2>1, <2>2 DEF OnPace
  <2> QED
    BY <1>1, <2>2, <2>3
\* Within the lock: no request but one that has saved its claim is a probe.
<1>3. ASSUME NEW w \in Workers, NEW r, request' = [request EXCEPT ![w] = r], UNCHANGED now,
             request[w].pc \in {"reading", "evicting", "saving"}, r.pc \in InLock,
             r.at = request[w].at, r.since = request[w].since, r.probe = request[w].probe,
             r.pc = "evicting" => request[w].pc = "reading" /\ r.view = request[w].view,
             r.pc # "reading"
      PROVE  Paced'
  <2>1. OnPace(r, now)
    BY <1>0, <1>3 DEF OnPace, InLock
  <2> QED
    BY <1>1, <1>3, <2>1
<1>4. ASSUME NEW w \in Workers,
             ReadExpired(w) \/ ReadCurrent(w) \/ Evict(w) \/ EvictRejected(w) \/ SaveFailure(w)
      PROVE  Paced'
  <2>1. request[w].pc \in {"reading", "evicting", "saving"} /\ UNCHANGED now
    BY <1>4 DEF ReadExpired, ReadCurrent, Evict, EvictRejected, SaveFailure, At
  <2>2. ASSUME NEW l \in {"evicting", "saving", "unlocking"}, l = "evicting" => request[w].pc = "reading",
               request' = [request EXCEPT ![w] = [request[w] EXCEPT !.pc = l]]
        PROVE  Paced'
    <3> DEFINE r == [request[w] EXCEPT !.pc = l]
    <3>1. /\ r.pc = l /\ r.at = request[w].at /\ r.since = request[w].since
          /\ r.probe = request[w].probe /\ r.view = request[w].view
      BY <1>0 DEF Requests
    <3> HIDE DEF r
    <3> QED
      BY <1>3, <2>1, <2>2, <3>1 DEF r, InLock
  <2>3. CASE ReadCurrent(w)
    <3> DEFINE r == [request[w] EXCEPT !.pc = "saving", !.view = circuit]
    <3>1. /\ r.pc = "saving" /\ r.at = request[w].at /\ r.since = request[w].since
          /\ r.probe = request[w].probe
      BY <1>0 DEF Requests
    <3>2. request' = [request EXCEPT ![w] = r]
      BY <2>3 DEF ReadCurrent
    <3> HIDE DEF r
    <3> QED
      BY <1>3, <2>1, <3>1, <3>2 DEF InLock
  <2>4. CASE ReadExpired(w)
    BY <2>2, <2>4 DEF ReadExpired, At
  <2>5. CASE Evict(w) \/ EvictRejected(w)
    BY <2>2, <2>5 DEF Evict, EvictRejected
  <2>6. CASE SaveFailure(w)
    BY <2>2, <2>6 DEF SaveFailure
  <2> QED
    BY <1>4, <2>3, <2>4, <2>5, <2>6
<1>5. ASSUME NEW w \in Workers, RequestError(w) PROVE Paced'
  <2> DEFINE r == [request[w] EXCEPT !.pc = "aborting"]
  <2>1. /\ r.pc = "aborting" /\ r.since = request[w].since
        /\ r.at = request[w].at /\ r.probe = request[w].probe
    BY <1>0 DEF Requests
  <2>2. OnPace(Idle, now)
    BY <1>0 DEF OnPace, Idle, InLock
  <2>3. /\ UNCHANGED now
        /\ \/ request[w].pc \in {"reading", "saving"} /\ request' = [request EXCEPT ![w] = r]
           \/ request' = [request EXCEPT ![w] = Idle]
    BY <1>5 DEF RequestError
  <2> HIDE DEF r
  <2> QED
    BY <1>1, <1>3, <2>1, <2>2, <2>3 DEF InLock
\* A claim is saved before the time of a probe is over.
<1>6. ASSUME NEW w \in Workers, SaveClaim(w) PROVE Paced'
  <2> DEFINE saved(b) == [request[w] EXCEPT !.pc = "unlocking", !.probe = b]
             probing == NeedsProbe(request[w].view) /\ AllowsCandidate(request[w].view, request[w].at)
  <2>1. request' = [request EXCEPT ![w] = saved(probing)]
    BY <1>6 DEF SaveClaim
  <2>2. /\ saved(probing).pc = "unlocking"
        /\ saved(probing).at = request[w].at /\ saved(probing).since = request[w].since
    BY <1>0 DEF Requests
  <2>3. request[w].pc = "saving" /\ UNCHANGED now
    BY <1>6 DEF SaveClaim, At
  <2> HIDE DEF saved
  <2>4. now <= request[w].at + ProbeSpan
    BY <1>0, <2>3, SpanFacts, CircuitConstants DEF OnPace, LockHeld, InLock
  <2>5. OnPace(saved(probing), now)
    BY <1>0, <2>2, <2>3, <2>4 DEF OnPace, InLock
  <2> QED
    BY <1>1, <2>1, <2>3, <2>5
<1>7. ASSUME NEW w \in Workers, Unlock(w) PROVE Paced'
  <2> DEFINE r == [Idle EXCEPT !.pc = "attempting", !.at = request[w].at, !.probe = request[w].probe]
  <2>1. r.pc = "attempting" /\ r.at = request[w].at /\ r.probe = request[w].probe
    BY DEF Idle
  <2>2. OnPace(Idle, now)
    BY <1>0 DEF OnPace, Idle, InLock
  <2>3. /\ UNCHANGED now
        /\ request' = [request EXCEPT ![w] = r] \/ request' = [request EXCEPT ![w] = Idle]
    BY <1>7 DEF Unlock
  <2> HIDE DEF r
  <2>4. OnPace(r, now)
    BY <1>0, <2>1 DEF OnPace, InLock
  <2> QED
    BY <1>1, <2>2, <2>3, <2>4
<1>8. ASSUME NEW w \in Workers,
             \/ StartClaim(w) \/ LateFailure(w)
             \/ \E reason \in Failures : ResolveFails(w, reason) \/ AttemptFails(w, reason)
      PROVE  Paced'
  <2>1. /\ UNCHANGED now
        /\ \E o \in Operations :
             request' = [request EXCEPT ![w] = [Idle EXCEPT !.pc = "locking", !.op = o, !.at = now]]
    BY <1>8 DEF StartClaim, LateFailure, ResolveFails, AttemptFails, ReportFailure,
       Operations, Failures
  <2>2. \A o \in Operations : OnPace([Idle EXCEPT !.pc = "locking", !.op = o, !.at = now], now)
    BY <1>0, SpanFacts DEF Idle, OnPace, InLock
  <2> QED
    BY <1>1, <2>1, <2>2
<1>9. ASSUME NEW w \in Workers,
             \/ LockTimeout(w) \/ AttemptCancelled(w) \/ AttemptSucceeds(w) \/ AttemptEnds(w)
             \/ ScreenExpired(w) \/ ReadForReset(w) \/ Reset(w) \/ EvictUnlocked(w) \/ Crash(w)
      PROVE  Paced'
  <2>1. /\ UNCHANGED now
        /\ \E r : /\ request' = [request EXCEPT ![w] = r] /\ r.at = 0 /\ ~r.probe
                  /\ r.pc \in {"idle", "screening", "succeeding", "expiring", "resetting", "admitting"}
    BY <1>9 DEF LockTimeout, AttemptCancelled, AttemptSucceeds, AttemptEnds, ScreenExpired,
       ReadForReset, Reset, EvictUnlocked, Crash, Idle
  <2>2. ASSUME NEW r, r.at = 0, ~r.probe,
               r.pc \in {"idle", "screening", "succeeding", "expiring", "resetting", "admitting"}
        PROVE  OnPace(r, now)
    BY <1>0, <2>2 DEF OnPace, InLock
  <2> QED
    BY <1>1, <2>1, <2>2
\* Time does not pass a deadline.
<1>10. CASE Tick
  <2> SUFFICES ASSUME NEW w \in Workers PROVE OnPace(request[w], now + 1)
    BY <1>10 DEF Tick, Paced
  <2>1. /\ request[w].pc = "attempting" => now < request[w].at + AttemptTimeout
        /\ request[w].pc = "locking" => now < request[w].at + LockWait + MaxStall
        /\ request[w].pc \in InLock => now < request[w].since + MaxStall
    BY <1>10 DEF Tick
  <2> QED
    BY <1>0, <2>1, SpanFacts, CircuitConstants DEF OnPace, InLock, LockDelay
<1>11. CASE UNCHANGED vars
  BY <1>11 DEF vars, Paced
<1> QED
  BY <1>2, <1>4, <1>5, <1>6, <1>7, <1>8, <1>9, <1>10, <1>11 DEF Next, LockedCall, Attempt

LEMMA AbsentShut == ASSUME NEW t PROVE Shut(Absent, t)
BY DEF Shut, Absent

\* A circuit that is shut admits nobody as its probe in time.
LEMMA ShutRefuses ==
    ASSUME NEW state \in Circuits, NEW t \in Nat, NEW at \in Nat,
           Shut(state, t), at <= t + ProbeSpan
    PROVE  ~(NeedsProbe(state) /\ AllowsCandidate(state, at))
<1>1. /\ state.status \in {"absent", "closed", "open", "half_open"}
      /\ state.cooldownUntil \in Int /\ state.probeExpiresAt \in Int
  BY DEF Circuits, Times, NoTime
<1>2. CASE state.status = "open"
  BY <1>1, <1>2, SpanFacts DEF Shut, AllowsCandidate
<1>3. CASE state.status = "half_open"
  BY <1>1, <1>3, SpanFacts DEF Shut, AllowsCandidate
<1> QED
  BY <1>1, <1>2, <1>3 DEF NeedsProbe

LEMMA HalfOpenedShut ==
    ASSUME ProbeDurations, NEW state \in Circuits, NEW t \in Nat
    PROVE  Shut(HalfOpened(state, t), t)
<1>1. HalfOpened(state, t).status = "half_open" /\ HalfOpened(state, t).probeExpiresAt = t + ProbeLease
  BY DEF HalfOpened, Circuits
<1> QED
  BY <1>1, SpanFacts, CircuitConstants DEF Shut, ProbeDurations

\* Also a straggler's failure leaves the circuit shut.
LEMMA FailedShut ==
    ASSUME ProbeDurations, NEW previous \in Circuits, NEW reason \in Failures,
           NEW at \in Nat, NEW t \in Nat, t <= at + LockDelay
    PROVE  Shut(Failed(previous, reason, at), t)
<1> DEFINE opens == previous.openCount + (IF ShouldOpen(previous, reason) THEN 1 ELSE 0)
<1>1. Cooldown(opens) \in Nat /\ Cooldown(opens) >= LeastCooldown
  BY CooldownBounded, CircuitConstants DEF Cooldown, LeastCooldown
<1>2. /\ Failed(previous, reason, at).status \in {"open", "closed"}
      /\ Failed(previous, reason, at).status = "open" =>
           Failed(previous, reason, at).cooldownUntil = at + Cooldown(opens)
  BY DEF Failed
<1>3. LeastCooldown \in Nat
  BY CircuitConstants DEF LeastCooldown
<1> QED
  BY <1>1, <1>2, <1>3, SpanFacts DEF Shut, ProbeDurations

LEMMA ProbeStep ==
    ASSUME ProbeDurations, TypeOK, LockHeld, Paced, Guarded, SingleProbe, [Next]_vars
    PROVE  Guarded' /\ SingleProbe'
<1> USE DEF Continue
<1>0. /\ now \in Nat
      /\ \A w \in Workers : /\ request[w] \in Requests /\ OnPace(request[w], now)
                            /\ request[w].at \in Nat /\ request[w].since \in Nat
  BY DEF TypeOK, Requests, Paced
\* A step that writes nothing or deletes the circuit, and makes no new probe.
<1>1. ASSUME NEW w \in Workers, NEW r, request' = [request EXCEPT ![w] = r],
             circuit' \in {circuit, Absent},
             r.probe => request[w].probe /\ r.at = request[w].at,
             r.pc = "saving" => r.view \in {circuit, Absent},
             r.pc \in InLock => \/ request[w].pc \in InLock /\ r.since = request[w].since
                                \/ r.since = now
      PROVE  Guarded' /\ SingleProbe'
  <2>1. \A v \in Workers : request'[v] = IF v = w THEN r ELSE request[v]
    BY <1>1 DEF TypeOK
  <2>2. ASSUME NEW v \in Workers, request'[v].probe
        PROVE  request[v].probe /\ request'[v].at = request[v].at
    BY <1>1, <2>1, <2>2
  <2>3. SingleProbe'
    BY <2>2 DEF SingleProbe
  <2>4. ASSUME NEW v \in Workers, NEW u \in Workers, request'[v].probe
        PROVE  /\ Shut(circuit', request'[v].at)
               /\ request'[u].pc = "saving" => Shut(request'[u].view, request'[v].at)
               /\ request'[u].pc \in InLock /\ u # v => request'[u].since >= request'[v].at
    <3>1. request[v].probe /\ request'[v].at = request[v].at
      BY <2>2, <2>4
    <3>2. Shut(circuit, request[v].at) /\ Shut(Absent, request[v].at)
      BY <3>1, AbsentShut DEF Guarded
    <3>3. CASE u # w
      BY <1>1, <2>1, <3>1, <3>2, <3>3 DEF Guarded
    <3>4. CASE u = w
      <4>1. request'[u] = r /\ request[v].at <= now
        BY <1>0, <2>1, <3>4 DEF OnPace
      <4> QED
        BY <1>0, <1>1, <3>1, <3>2, <3>4, <4>1 DEF Guarded
    <3> QED
      BY <3>3, <3>4
  <2> QED
    BY <2>3, <2>4 DEF Guarded
<1>2. ASSUME NEW w \in Workers, SaveClaim(w) PROVE Guarded' /\ SingleProbe'
  <2> DEFINE saved(b) == [request[w] EXCEPT !.pc = "unlocking", !.probe = b]
             probing == NeedsProbe(request[w].view) /\ AllowsCandidate(request[w].view, request[w].at)
  <2>1. /\ request' = [request EXCEPT ![w] = saved(probing)]
        /\ circuit' = IF probing THEN HalfOpened(request[w].view, request[w].at) ELSE circuit
    BY <1>2 DEF SaveClaim
  <2>2. \A b : /\ saved(b).pc = "unlocking" /\ saved(b).probe = b
               /\ saved(b).at = request[w].at /\ saved(b).since = request[w].since
    BY <1>0 DEF Requests
  <2>3. request[w].pc = "saving" /\ request[w].view \in Circuits
    BY <1>0, <1>2 DEF SaveClaim, At, Requests
  <2>4. \A v \in Workers : v # w => request'[v] = request[v] /\ request[v].pc \notin InLock
    BY <2>1, <2>3, Exclusion DEF ProbeDurations, InLock, TypeOK
  <2>5. CASE ~probing
    <3> HIDE DEF saved
    <3>1. ~saved(probing).probe
      BY <2>2, <2>5
    <3> QED
      BY <1>1, <2>1, <2>2, <2>3, <2>5, <3>1 DEF InLock
  <2>6. CASE probing
    \* Another probe in flight would have shut the circuit this one has read.
    <3>1. ASSUME NEW v \in Workers PROVE ~request[v].probe
      <4> SUFFICES ASSUME request[v].probe PROVE FALSE
        OBVIOUS
      <4>1. Shut(request[w].view, request[v].at)
        BY <2>3 DEF Guarded
      <4>2. request[w].at <= request[v].at + ProbeSpan
        BY <1>0, SpanFacts DEF OnPace
      <4> QED
        BY <1>0, <2>3, <2>6, <4>1, <4>2, ShutRefuses
    <3>2. request'[w] = saved(probing)
      BY <2>1 DEF TypeOK
    <3>3. request'[w].at = request[w].at /\ request'[w].pc = "unlocking"
      BY <2>2, <3>2
    <3>4. Shut(circuit', request'[w].at)
      BY <1>0, <2>1, <2>3, <2>6, <3>3, HalfOpenedShut
    <3> HIDE DEF saved, probing
    <3> QED
      BY <2>4, <3>1, <3>3, <3>4 DEF Guarded, SingleProbe, InLock
  <2> QED
    BY <2>5, <2>6
\* The straggler entered the lock after the probe, and alone.
<1>3. ASSUME NEW w \in Workers, SaveFailure(w) PROVE Guarded' /\ SingleProbe'
  <2> DEFINE r == [request[w] EXCEPT !.pc = "unlocking"]
  <2>1. /\ request[w].pc = "saving" /\ request[w].op \in Failures /\ request[w].view \in Circuits
        /\ circuit' = Failed(request[w].view, request[w].op, request[w].at)
        /\ request' = [request EXCEPT ![w] = r]
    BY <1>0, <1>3 DEF SaveFailure, At, Requests
  <2>2. r.pc = "unlocking" /\ r.probe = request[w].probe
    BY <1>0 DEF Requests
  <2>3. ~request[w].probe
    BY <1>0, <2>1 DEF OnPace
  <2> HIDE DEF r
  <2>4. request'[w] = r /\ \A v \in Workers : v # w => request'[v] = request[v]
    BY <2>1 DEF TypeOK
  <2>5. \A v \in Workers : v # w => request[v].pc \notin InLock
    BY <2>1, Exclusion DEF ProbeDurations, InLock
  <2>6. ASSUME NEW v \in Workers, request'[v].probe
        PROVE  v # w /\ request[v].probe /\ Shut(circuit', request'[v].at)
    <3>1. v # w /\ request[v].probe /\ request'[v].at = request[v].at
      BY <2>2, <2>3, <2>4, <2>6
    <3>2. request[v].at <= request[w].since /\ request[w].since <= request[w].at + LockDelay
      BY <1>0, <2>1, <3>1 DEF Guarded, OnPace, InLock
    <3> QED
      BY <1>0, <2>1, <3>1, <3>2, SpanFacts, FailedShut
  <2>7. SingleProbe'
    BY <2>6 DEF SingleProbe
  <2>8. \A u \in Workers : request'[u].pc # "saving" /\ (u # w => request'[u].pc \notin InLock)
    BY <2>2, <2>4, <2>5 DEF InLock
  <2>9. \A v \in Workers : request'[v].probe => request'[v].at <= request'[w].since
    <3>1. r.since = request[w].since
      BY <1>0 DEF r, Requests
    <3> QED
      BY <2>1, <2>4, <2>6, <3>1 DEF Guarded, InLock
  <2> QED
    BY <1>0, <2>4, <2>6, <2>7, <2>8, <2>9 DEF Guarded
<1>4. ASSUME NEW w \in Workers, AcquireLock(w) PROVE Guarded' /\ SingleProbe'
  <2> DEFINE r == [request[w] EXCEPT !.pc = "reading", !.since = now]
  <2>1. /\ request' = [request EXCEPT ![w] = r] /\ circuit' = circuit
        /\ r.pc = "reading" /\ r.since = now /\ r.at = request[w].at /\ r.probe = request[w].probe
    BY <1>0, <1>4 DEF AcquireLock, Requests
  <2> HIDE DEF r
  <2> QED
    BY <1>1, <2>1
\* A request that stays in the lock under another label.
<1>5. ASSUME NEW w \in Workers, NEW l, request' = [request EXCEPT ![w] = [request[w] EXCEPT !.pc = l]],
             request[w].pc \in InLock, circuit' \in {circuit, Absent},
             l = "saving" => request[w].view = Absent
      PROVE  Guarded' /\ SingleProbe'
  <2> DEFINE r == [request[w] EXCEPT !.pc = l]
  <2>1. /\ r.pc = l /\ r.since = request[w].since /\ r.at = request[w].at
        /\ r.probe = request[w].probe /\ r.view = request[w].view
    BY <1>0 DEF Requests
  <2> HIDE DEF r
  <2> QED
    BY <1>1, <1>5, <2>1 DEF r
<1>6. ASSUME NEW w \in Workers, ReadExpired(w) \/ Evict(w) \/ EvictRejected(w)
      PROVE  Guarded' /\ SingleProbe'
  <2>1. request[w].pc \in {"reading", "evicting"}
    BY <1>6 DEF ReadExpired, Evict, EvictRejected, At
  <2>2. request[w].view = Absent /\ request[w].pc \in InLock
    BY <1>0, <2>1 DEF OnPace, InLock
  <2>3. /\ circuit' \in {circuit, Absent}
        /\ \/ request' = [request EXCEPT ![w] = [request[w] EXCEPT !.pc = "evicting"]]
           \/ request' = [request EXCEPT ![w] = [request[w] EXCEPT !.pc = "saving"]]
    BY <1>6 DEF ReadExpired, Evict, EvictRejected, DeleteCircuit
  <2> QED
    BY <1>5, <2>2, <2>3
<1>7. ASSUME NEW w \in Workers, ReadCurrent(w) PROVE Guarded' /\ SingleProbe'
  <2> DEFINE r == [request[w] EXCEPT !.pc = "saving", !.view = circuit]
  <2>1. /\ request' = [request EXCEPT ![w] = r] /\ circuit' = circuit /\ request[w].pc \in InLock
        /\ r.pc = "saving" /\ r.since = request[w].since /\ r.at = request[w].at
        /\ r.probe = request[w].probe /\ r.view = circuit
    BY <1>0, <1>7 DEF ReadCurrent, At, InLock, Requests
  <2> HIDE DEF r
  <2> QED
    BY <1>1, <2>1
\* A request that leaves the lock, or moves outside it.
<1>8. ASSUME NEW w \in Workers, NEW r, request' = [request EXCEPT ![w] = r],
             circuit' \in {circuit, Absent}, r.pc \notin InLock,
             r.probe => request[w].probe /\ r.at = request[w].at
      PROVE  Guarded' /\ SingleProbe'
  BY <1>1, <1>8 DEF InLock
<1>9. ASSUME NEW w \in Workers, RequestError(w) PROVE Guarded' /\ SingleProbe'
  <2>1. Idle.pc \notin InLock /\ ~Idle.probe
    BY DEF Idle, InLock
  <2>2. CASE /\ request[w].pc \in {"reading", "saving"}
             /\ request' = [request EXCEPT ![w] = [request[w] EXCEPT !.pc = "aborting"]]
    BY <1>5, <1>9, <2>2 DEF RequestError, InLock
  <2>3. CASE request' = [request EXCEPT ![w] = Idle]
    BY <1>8, <1>9, <2>1, <2>3 DEF RequestError
  <2> QED
    BY <1>9, <2>2, <2>3 DEF RequestError
<1>10. ASSUME NEW w \in Workers, Unlock(w) PROVE Guarded' /\ SingleProbe'
  <2> DEFINE r == [Idle EXCEPT !.pc = "attempting", !.at = request[w].at, !.probe = request[w].probe]
  <2>1. /\ r.pc \notin InLock /\ r.at = request[w].at /\ r.probe = request[w].probe
        /\ Idle.pc \notin InLock /\ ~Idle.probe
    BY DEF Idle, InLock
  <2>2. /\ circuit' = circuit
        /\ request' = [request EXCEPT ![w] = r] \/ request' = [request EXCEPT ![w] = Idle]
    BY <1>10 DEF Unlock
  <2> HIDE DEF r
  <2> QED
    BY <1>8, <2>1, <2>2
<1>11. ASSUME NEW w \in Workers,
             \/ StartClaim(w) \/ LateFailure(w)
             \/ \E reason \in Failures : ResolveFails(w, reason) \/ AttemptFails(w, reason)
       PROVE  Guarded' /\ SingleProbe'
  <2>1. /\ circuit' = circuit
        /\ \E o \in Operations :
             request' = [request EXCEPT ![w] = [Idle EXCEPT !.pc = "locking", !.op = o, !.at = now]]
    BY <1>11 DEF StartClaim, LateFailure, ResolveFails, AttemptFails, ReportFailure,
       Operations, Failures
  <2>2. \A o \in Operations : LET r == [Idle EXCEPT !.pc = "locking", !.op = o, !.at = now]
                              IN  r.pc \notin InLock /\ ~r.probe
    BY DEF Idle, InLock
  <2> QED
    BY <1>8, <2>1, <2>2
<1>12. ASSUME NEW w \in Workers,
             \/ LockTimeout(w) \/ AttemptCancelled(w) \/ AttemptSucceeds(w) \/ AttemptEnds(w)
             \/ ScreenExpired(w) \/ ReadForReset(w) \/ Reset(w) \/ EvictUnlocked(w) \/ Crash(w)
       PROVE  Guarded' /\ SingleProbe'
  <2>1. /\ circuit' \in {circuit, Absent}
        /\ \E r : /\ request' = [request EXCEPT ![w] = r] /\ ~r.probe
                  /\ r.pc \in {"idle", "screening", "succeeding", "expiring", "resetting", "admitting"}
    BY <1>12 DEF LockTimeout, AttemptCancelled, AttemptSucceeds, AttemptEnds, ScreenExpired,
       ReadForReset, Reset, EvictUnlocked, Crash, DeleteCircuit, Idle
  <2> QED
    BY <1>8, <2>1 DEF InLock
<1>13. CASE Tick \/ UNCHANGED vars
  BY <1>13 DEF Tick, vars, Guarded, SingleProbe
<1> QED
  BY <1>2, <1>3, <1>4, <1>6, <1>7, <1>9, <1>10, <1>11, <1>12, <1>13 DEF Next, LockedCall, Attempt

LEMMA ProbeInvInit == Init => ProbeInv
<1> SUFFICES ASSUME Init PROVE ProbeInv
  OBVIOUS
<1>1. TypeOK /\ LockHeld
  BY FailureInvInit DEF FailureInv
<1>2. now = 0 /\ \A w \in Workers : request[w] = Idle
  BY DEF Init
<1> QED
  BY <1>1, <1>2 DEF ProbeInv, Paced, OnPace, Guarded, SingleProbe, Idle, InLock

\* With the program's durations a half-open circuit admits one probe at a time:
\* until the attempt of an admitted probe is over, whatever stragglers fail,
\* succeed or crash meanwhile, claimCapacityCircuit admits no second one.
THEOREM OneProbe ==
    ASSUME ProbeDurations
    PROVE  Spec => []SingleProbe
<1>1. ProbeInv /\ [Next]_vars => ProbeInv'
  BY TypeStep, LockHeldStep, PacedStep, ProbeStep DEF ProbeInv, ProbeDurations
<1>2. ProbeInv => SingleProbe
  BY DEF ProbeInv
<1> QED
  BY <1>1, <1>2, ProbeInvInit, PTL DEF Spec
============================================================================
