-------------------------- MODULE TerminationProofs --------------------------
(***************************************************************************)
(* Why connections are ended.  Proofs about DeploymentDrain for any number *)
(* of deployments, tunnels, overlapping runs of the coordinator, shifts    *)
(* and extensions, and any policy: the types, that tunnels are cut when    *)
(* they are due, and that the processes stop in order (ServiceLifecycle).  *)
(* Proofs about KillSwitch for any number of connections, grants, sessions *)
(* and control-plane requests: the types, and that routine revocations let *)
(* connections drain.  The two modules share no name and no state.         *)
(***************************************************************************)
EXTENDS DeploymentDrain, KillSwitch, SequenceTheorems, FiniteSetTheorems, TLAPS

----------------------------------------------------------------------------
(* Definitions                                                               *)

\* A tunnel that was opened is some deployment's, also when it has ended.
Opened ==
    \A t \in Tunnels :
        /\ tunnel[t].state = "none" => tunnel[t] = NoTunnel
        /\ tunnel[t].state # "none" => tunnel[t].deployment \in Deployments

\* A tunnel of d had started by then.
Anchored(d, at) == \E t \in Tunnels : tunnel[t].deployment = d /\ tunnel[t].startedAt <= at

Due(d) == \E t \in Tunnels : tunnel[t].deployment = d /\ clock - tunnel[t].startedAt >= TerminateAfter

\* What a drain state of d rests on, whether it is stored or about to be: it began with a
\* tunnel, decides a termination that is due, and honours what is still promised.
Sound(d, state) ==
    /\ state.startedAt # Never => Anchored(d, state.startedAt)
    /\ state.terminateRemaining => Due(d)
    /\ granted[d] > clock => state.extensionUntil >= granted[d] /\ ~state.terminateRemaining

RunSound(r) ==
    /\ run[r].now <= clock
    /\ \A item \in run[r].left : Anchored(item.deployment, item.earliest)
    /\ run[r].pc = "saving" => run[r].deployment \in Deployments /\ Sound(run[r].deployment, run[r].state)

DrainInv ==
    /\ TypeOK /\ Opened
    /\ \A d \in Deployments : Sound(d, drain[d])
    /\ \A r \in Runs : RunSound(r)

----------------------------------------------------------------------------
(* The least of some times                                                   *)

\* Every set of natural numbers that is not empty has a least member (the intervals that
\* end in it are ordered by inclusion, which is well-founded).
LEMMA LeastExists ==
    ASSUME NEW S \in SUBSET Nat, S # {}
    PROVE  \E x \in S : \A y \in S : x <= y
<1>1. PICK R, F : R = StrictSubsetOrdering(Nat) /\ F = FiniteSubsetsOf(Nat)
  OBVIOUS
<1>2. IsWellFoundedOn(R, F)
  BY <1>1, FS_StrictSubsetOrderingWellFounded
<1>3. PICK T : T = {1 .. x : x \in S}
  OBVIOUS
<1>4. T \subseteq F /\ T # {}
  <2>1. ASSUME NEW x \in S PROVE 1 .. x \in F
    <3>1. IsFiniteSet(1 .. x) /\ 1 .. x \subseteq Nat
      BY FS_Interval
    <3>. QED
      BY <1>1, <3>1 DEF FiniteSubsetsOf
  <2>. QED
    BY <1>3, <2>1
<1>5. PICK t \in T : \A u \in T : ~(<<u, t>> \in R)
  BY <1>2, <1>4, WFMin
<1>6. PICK x \in S : t = 1 .. x
  BY <1>3
<1>7. ASSUME NEW y \in S, y < x PROVE FALSE
  <2>1. 1 .. y \in T /\ 1 .. y \in SUBSET Nat /\ 1 .. x \in SUBSET Nat
    BY <1>3
  <2>2. 1 .. y \subseteq 1 .. x /\ x \in 1 .. x /\ x \notin 1 .. y
    BY <1>7
  <2>3. <<1 .. y, 1 .. x>> \in R
    BY <1>1, <2>1, <2>2 DEF StrictSubsetOrdering
  <2>. QED
    BY <1>5, <1>6, <2>1, <2>3
<1>. QED
  BY <1>7

LEMMA MinIsLeast ==
    ASSUME NEW S \in SUBSET Nat, S # {}
    PROVE  Min(S) \in S /\ \A y \in S : Min(S) <= y
BY LeastExists DEF Min

----------------------------------------------------------------------------
(* Types                                                                     *)

Tunnel == [state : {"none", "open", "ended"}, deployment : Deployments \cup {None},
           startedAt : Nat, recorded : BOOLEAN]

Item == [deployment : Deployments, earliest : Nat]

Run == [pc : {"idle", "reading", "saving", "notifying"}, now : Nat, left : SUBSET Item,
        deployment : Deployments \cup {None}, state : DrainState, notifies : BOOLEAN]

LEMMA EmptyTypes ==
    /\ NoTunnel \in Tunnel /\ NoTunnel.state = "none" /\ NoTunnel.deployment = None /\ ~NoTunnel.recorded
    /\ NoDrain \in DrainState /\ NoDrain.startedAt = Never /\ ~NoDrain.terminateRemaining
    /\ NoRun \in Run /\ NoRun.pc = "idle" /\ NoRun.now = 0 /\ NoRun.left = {}
BY DEF NoTunnel, Tunnel, NoDrain, DrainState, NoRun, Run, Never, None

LEMMA OnwardType ==
    ASSUME TypeOK, NEW r \in Runs
    PROVE  /\ Onward(r) \in Run
           /\ Onward(r).pc \in {"idle", "reading"}
           /\ Onward(r).now \in {0, run[r].now} /\ Onward(r).left \in {{}, run[r].left}
<1>1. run[r] \in Run
  BY DEF TypeOK, Run, Item
<1>2. CASE run[r].left = {}
  BY <1>2, EmptyTypes DEF Onward
<1>3. CASE run[r].left # {}
  <2>1. Onward(r) = [NoRun EXCEPT !.pc = "reading", !.now = run[r].now, !.left = run[r].left]
    BY <1>3 DEF Onward
  <2>. QED
    BY <1>1, <2>1, EmptyTypes DEF NoRun, Run
<1>. QED
  BY <1>2, <1>3

LEMMA EvaluatedType ==
    ASSUME NEW now \in Nat, NEW startedAt \in Nat, NEW existing \in DrainState
    PROVE  Evaluated(now, startedAt, existing) \in DrainState
<1>1. /\ existing.terminateRemaining \in BOOLEAN /\ existing.lastNotificationAt \in Nat
      /\ existing.extensionUntil \in Nat
  BY DEF DrainState
<1>2. PICK action : action = evaluateDeploymentDrain(now, startedAt, existing)
  OBVIOUS
<1>3. (existing.terminateRemaining \/ action = "terminate") \in BOOLEAN
  OBVIOUS
<1>. QED
  BY <1>1, <1>2, <1>3 DEF Evaluated, DrainState

\* What a run reads and decides.
LEMMA ReadType ==
    ASSUME TypeOK, NEW r \in Runs, NEW item, ReadDrain(r, item)
    PROVE  LET startedAt == IF drain[item.deployment].startedAt = Never THEN item.earliest
                                                                        ELSE drain[item.deployment].startedAt
           IN  /\ item \in Item /\ item \in run[r].left /\ startedAt \in Nat
               /\ drain[item.deployment] \in DrainState
               /\ \/ run' = [run EXCEPT ![r] = NoRun]
                  \/ /\ run[r].now >= startedAt
                     /\ \E q \in Run :
                           /\ run' = [run EXCEPT ![r] = q]
                           /\ q.now = run[r].now /\ q.left \subseteq run[r].left
                           /\ q.pc = "saving" /\ q.deployment = item.deployment
                           /\ q.state = Evaluated(run[r].now, startedAt, drain[item.deployment])
<1>. DEFINE existing == drain[item.deployment]
            startedAt == IF existing.startedAt = Never THEN item.earliest ELSE existing.startedAt
            state == Evaluated(run[r].now, startedAt, existing)
            notifies == evaluateDeploymentDrain(run[r].now, startedAt, existing) # "wait"
<1>0. /\ run[r].now < startedAt => run' = [run EXCEPT ![r] = NoRun]
      /\ ~(run[r].now < startedAt) =>
            run' = [run EXCEPT ![r] =
                      [run[r] EXCEPT !.pc = "saving", !.left = run[r].left \ {item},
                                     !.deployment = item.deployment, !.state = state,
                                     !.notifies = notifies]]
  <2>1. PICK next : next = [run[r] EXCEPT !.pc = "saving", !.left = run[r].left \ {item},
                                          !.deployment = item.deployment, !.state = state,
                                          !.notifies = notifies]
    OBVIOUS
  <2>2. run' = [run EXCEPT ![r] = IF run[r].now < startedAt THEN NoRun ELSE next]
    BY <2>1 DEF ReadDrain
  <2>. QED
    BY <2>1, <2>2
<1>1. run[r] \in Run /\ item \in run[r].left
  BY DEF TypeOK, Run, Item, ReadDrain
<1>2. item \in Item
  BY <1>1 DEF Run
<1>3. existing \in DrainState
  BY <1>2 DEF TypeOK, Item
<1>4. startedAt \in Nat
  BY <1>2, <1>3 DEF Item, DrainState
<1>. HIDE DEF startedAt, state, notifies
<1>5. CASE run[r].now < startedAt
  <2>1. run' = [run EXCEPT ![r] = NoRun]
    BY <1>0, <1>5
  <2>. QED
    BY <1>1, <1>2, <1>3, <1>4, <2>1 DEF startedAt
<1>6. CASE ~(run[r].now < startedAt)
  <2>1. PICK q : q = [run[r] EXCEPT !.pc = "saving", !.left = run[r].left \ {item},
                                    !.deployment = item.deployment, !.state = state,
                                    !.notifies = notifies]
    OBVIOUS
  <2>2. run' = [run EXCEPT ![r] = q]
    BY <1>0, <1>6, <2>1
  <2>3. run[r].now \in Nat
    BY <1>1 DEF Run
  <2>4. state \in DrainState /\ notifies \in BOOLEAN
    BY <1>3, <1>4, <2>3, EvaluatedType DEF state, notifies
  <2>5. q \in Run
    BY <1>1, <1>2, <2>1, <2>4 DEF Run, Item
  <2>6. /\ q.now = run[r].now /\ q.left \subseteq run[r].left
        /\ q.pc = "saving" /\ q.deployment = item.deployment /\ q.state = state
    BY <1>1, <2>1 DEF Run
  <2>7. run[r].now >= startedAt
    BY <1>4, <1>6, <2>3
  <2>. QED
    BY <1>1, <1>2, <1>3, <1>4, <2>2, <2>5, <2>6, <2>7 DEF startedAt, state
<1>. QED
  BY <1>5, <1>6

\* The deployments that a run finds to be retiring.
LEMMA BeginType ==
    ASSUME TypeOK, Opened, NEW r \in Runs, BeginRun(r)
    PROVE  \E q \in Run :
              /\ run' = [run EXCEPT ![r] = q]
              /\ q.pc = "reading" /\ q.now = clock
              /\ \A item \in q.left : Anchored(item.deployment, item.earliest)
<1>. DEFINE earliest(t) == Min({tunnel[u].startedAt : u \in RetiringOn(tunnel[t].deployment)})
            left == {[deployment |-> tunnel[t].deployment, earliest |-> earliest(t)] : t \in Retiring}
<1>1. ASSUME NEW t \in Retiring
      PROVE  /\ t \in Tunnels /\ tunnel[t].deployment \in Deployments
             /\ earliest(t) \in Nat /\ Anchored(tunnel[t].deployment, earliest(t))
  <2>1. t \in Tunnels /\ tunnel[t].recorded
    BY DEF Retiring
  <2>2. tunnel[t].deployment \in Deployments
    BY <2>1, EmptyTypes DEF Opened
  <2>3. PICK S : S = {tunnel[u].startedAt : u \in RetiringOn(tunnel[t].deployment)}
    OBVIOUS
  <2>4. S \subseteq Nat /\ S # {}
    <3>1. RetiringOn(tunnel[t].deployment) \subseteq Tunnels
      BY DEF RetiringOn, Retiring
    <3>2. t \in RetiringOn(tunnel[t].deployment)
      BY DEF RetiringOn
    <3>3. \A u \in Tunnels : tunnel[u].startedAt \in Nat
      BY DEF TypeOK
    <3>. QED
      BY <2>3, <3>1, <3>2, <3>3
  <2>5. Min(S) \in S
    BY <2>4, MinIsLeast
  <2>6. PICK u \in RetiringOn(tunnel[t].deployment) : Min(S) = tunnel[u].startedAt
    BY <2>3, <2>5
  <2>7. u \in Tunnels /\ tunnel[u].deployment = tunnel[t].deployment /\ Min(S) \in Nat
    BY <2>4, <2>5 DEF RetiringOn, Retiring
  <2>8. earliest(t) = Min(S)
    BY <2>3
  <2>. HIDE DEF earliest
  <2>9. Anchored(tunnel[t].deployment, earliest(t))
    BY <2>6, <2>7, <2>8 DEF Anchored
  <2>. QED
    BY <2>1, <2>2, <2>7, <2>8, <2>9
<1>2. run' = [run EXCEPT ![r] = [NoRun EXCEPT !.pc = "reading", !.now = clock, !.left = left]]
  BY DEF BeginRun
<1>. HIDE DEF earliest
<1>3. left \in SUBSET Item
  BY <1>1 DEF Item
<1>4. \A item \in left : Anchored(item.deployment, item.earliest)
  <2>1. ASSUME NEW item \in left PROVE Anchored(item.deployment, item.earliest)
    <3>1. PICK t \in Retiring : item = [deployment |-> tunnel[t].deployment, earliest |-> earliest(t)]
      OBVIOUS
    <3>2. item.deployment = tunnel[t].deployment /\ item.earliest = earliest(t)
      BY <3>1
    <3>. QED
      BY <1>1, <3>2
  <2>. QED
    BY <2>1
<1>. HIDE DEF left
<1>5. PICK q : q = [NoRun EXCEPT !.pc = "reading", !.now = clock, !.left = left]
  OBVIOUS
<1>6. q \in Run /\ q.pc = "reading" /\ q.now = clock /\ q.left = left
  BY <1>3, <1>5, EmptyTypes DEF TypeOK, NoRun, Run
<1>. QED
  BY <1>2, <1>4, <1>5, <1>6

----------------------------------------------------------------------------
(* Tunnels                                                                   *)

LEMMA EndedType ==
    ASSUME TypeOK, Opened, NEW ts, \A t \in ts \cap Tunnels : tunnel[t].state = "open",
           NEW recorded \in BOOLEAN, tunnel' = Ended(ts, recorded)
    PROVE  /\ tunnel' \in [Tunnels -> Tunnel]
           /\ \A t \in Tunnels :
                 \/ tunnel'[t] = tunnel[t]
                 \/ /\ tunnel[t].state # "none" /\ tunnel'[t].state # "none"
                    /\ tunnel'[t].deployment = tunnel[t].deployment
                    /\ tunnel'[t].startedAt = tunnel[t].startedAt
<1>1. ASSUME NEW t \in Tunnels
      PROVE  /\ tunnel'[t] \in Tunnel
             /\ \/ tunnel'[t] = tunnel[t]
                \/ /\ tunnel[t].state # "none" /\ tunnel'[t].state # "none"
                   /\ tunnel'[t].deployment = tunnel[t].deployment
                   /\ tunnel'[t].startedAt = tunnel[t].startedAt
  <2>1. tunnel[t] \in Tunnel
    BY DEF TypeOK, Tunnel
  <2>2. CASE t \in ts
    <3>1. tunnel'[t] = [tunnel[t] EXCEPT !.state = "ended", !.recorded = recorded]
      BY <2>2 DEF Ended
    <3>2. tunnel[t].state = "open"
      BY <2>2
    <3>. QED
      BY <2>1, <3>1, <3>2 DEF Tunnel
  <2>3. CASE t \notin ts
    BY <2>1, <2>3 DEF Ended
  <2>. QED
    BY <2>2, <2>3
<1>. QED
  BY <1>1 DEF Ended

\* What the tunnels do: they are opened by a deployment, and keep its name and the time.
TunnelsGoOn ==
    /\ tunnel' \in [Tunnels -> Tunnel]
    /\ \A t \in Tunnels :
          \/ tunnel'[t] = tunnel[t]
          \/ /\ tunnel'[t].state # "none" /\ tunnel'[t].deployment \in Deployments
             /\ \/ tunnel[t] = NoTunnel
                \/ /\ tunnel'[t].deployment = tunnel[t].deployment
                   /\ tunnel'[t].startedAt = tunnel[t].startedAt

LEMMA TunnelStep ==
    ASSUME TypeOK, Opened,
           \/ UNCHANGED tunnel
           \/ \E t \in Tunnels : Open(t) \/ Close(t) \/ Expire(t)
           \/ \E d \in Deployments : Crash(d) \/ PollDeployment(d)
    PROVE  TunnelsGoOn
<1>t. tunnel \in [Tunnels -> Tunnel]
  BY DEF TypeOK, Tunnel
<1>a. ASSUME NEW ts, \A t \in ts \cap Tunnels : tunnel[t].state = "open",
             NEW recorded \in BOOLEAN, tunnel' = Ended(ts, recorded)
      PROVE  TunnelsGoOn
  BY <1>a, EndedType DEF TunnelsGoOn, Opened
<1>1. CASE UNCHANGED tunnel
  BY <1>1, <1>t DEF TunnelsGoOn
<1>2. ASSUME NEW t \in Tunnels, Open(t) PROVE TunnelsGoOn
  <2>1. PICK new : new = [state |-> "open", deployment |-> current, startedAt |-> clock, recorded |-> TRUE]
    OBVIOUS
  <2>2. tunnel' = [tunnel EXCEPT ![t] = new] /\ tunnel[t] = NoTunnel /\ current # None
    BY <1>2, <2>1 DEF Open
  <2>3. new \in Tunnel /\ new.state # "none" /\ new.deployment \in Deployments
    BY <2>1, <2>2 DEF TypeOK, Tunnel
  <2>. QED
    BY <1>t, <2>2, <2>3 DEF TunnelsGoOn
<1>3. ASSUME NEW t \in Tunnels, Close(t) PROVE TunnelsGoOn
  <2>1. PICK recorded \in BOOLEAN : tunnel' = Ended({t}, recorded)
    BY <1>3 DEF Close
  <2>. QED
    BY <1>3, <1>a, <2>1 DEF Close
<1>4. ASSUME NEW t \in Tunnels, Expire(t) PROVE TunnelsGoOn
  <2>1. PICK new : new = [tunnel[t] EXCEPT !.recorded = FALSE]
    OBVIOUS
  <2>2. tunnel' = [tunnel EXCEPT ![t] = new] /\ tunnel[t].state = "ended"
    BY <1>4, <2>1 DEF Expire
  <2>3. /\ new \in Tunnel /\ new.state = "ended"
        /\ new.deployment = tunnel[t].deployment /\ new.startedAt = tunnel[t].startedAt
    BY <1>t, <2>1, <2>2 DEF Tunnel
  <2>4. tunnel[t].deployment \in Deployments
    BY <2>2 DEF Opened
  <2>. QED
    BY <1>t, <2>2, <2>3, <2>4 DEF TunnelsGoOn
<1>5. ASSUME NEW d \in Deployments, Crash(d) PROVE TunnelsGoOn
  <2>1. tunnel' = Ended(OpenOn(d), TRUE)
    BY <1>5 DEF Crash
  <2>. QED
    BY <1>a, <2>1 DEF OpenOn
<1>6. ASSUME NEW d \in Deployments, PollDeployment(d) PROVE TunnelsGoOn
  <2>1. tunnel' = Ended(OpenOn(d), FALSE)
    BY <1>6 DEF PollDeployment
  <2>. QED
    BY <1>a, <2>1 DEF OpenOn
<1>. QED
  BY <1>1, <1>2, <1>3, <1>4, <1>5, <1>6

\* A tunnel that had started has, and what was due is.
LEMMA AnchorsHold ==
    ASSUME TypeOK, TunnelsGoOn, clock' \in Nat, clock <= clock', NEW d \in Deployments
    PROVE  /\ \A at \in Nat : Anchored(d, at) => Anchored(d, at)'
           /\ Due(d) => Due(d)'
<1>t. tunnel \in [Tunnels -> Tunnel] /\ clock \in Nat /\ TerminateAfter \in Nat
  BY DrainConstants DEF TypeOK, Tunnel
<1>1. ASSUME NEW t \in Tunnels, tunnel[t].deployment = d
      PROVE  /\ tunnel'[t].deployment = d /\ tunnel'[t].startedAt = tunnel[t].startedAt
             /\ tunnel[t].startedAt \in Nat
  <2>1. tunnel[t] # NoTunnel
    BY <1>1, DrainConstants, EmptyTypes DEF None, Deployments
  <2>. QED
    BY <1>1, <1>t, <2>1 DEF TunnelsGoOn, Tunnel
<1>2. ASSUME NEW at \in Nat, Anchored(d, at) PROVE Anchored(d, at)'
  BY <1>1, <1>2 DEF Anchored
<1>3. ASSUME Due(d) PROVE Due(d)'
  <2>1. PICK t \in Tunnels : tunnel[t].deployment = d /\ clock - tunnel[t].startedAt >= TerminateAfter
    BY <1>3 DEF Due
  <2>2. clock' - tunnel[t].startedAt >= TerminateAfter
    BY <1>1, <1>t, <2>1
  <2>. QED
    BY <1>1, <2>1, <2>2 DEF Due
<1>. QED
  BY <1>2, <1>3

LEMMA SoundHolds ==
    ASSUME TypeOK, TunnelsGoOn, clock' \in Nat, clock <= clock', UNCHANGED granted,
           NEW d \in Deployments, NEW state \in DrainState, Sound(d, state)
    PROVE  Sound(d, state)'
<1>1. state.startedAt \in Nat /\ granted[d] \in Nat /\ clock \in Nat
  BY DEF DrainState, TypeOK
<1>2. granted'[d] > clock' => granted[d] > clock
  BY <1>1
<1>. QED
  BY <1>1, <1>2, AnchorsHold DEF Sound

\* Nothing happens but to the tunnels, the clock and the shifts.
LEMMA WorldStep ==
    ASSUME DrainInv, TunnelsGoOn, clock' \in Nat, clock <= clock',
           current' \in Deployments \cup {None},
           spent' \in [shifts : Nat, extensions : Nat],
           UNCHANGED <<drain, run, granted>>
    PROVE  DrainInv'
<1>t. TypeOK /\ Opened
  BY DEF DrainInv
<1>1. TypeOK'
  BY <1>t DEF TypeOK, TunnelsGoOn, Tunnel
<1>2. Opened'
  BY <1>t, EmptyTypes DEF Opened, TunnelsGoOn
<1>3. ASSUME NEW d \in Deployments PROVE Sound(d, drain[d])'
  <2>1. drain[d] \in DrainState /\ Sound(d, drain[d])
    BY <1>t DEF TypeOK, DrainInv
  <2>. QED
    BY <1>t, <2>1, SoundHolds DEF Sound
<1>4. ASSUME NEW r \in Runs PROVE RunSound(r)'
  <2>1. run[r] \in Run /\ RunSound(r)
    BY <1>t DEF TypeOK, Run, Item, DrainInv
  <2>2. run'[r].now <= clock'
    BY <1>t, <2>1 DEF Run, RunSound, TypeOK
  <2>3. ASSUME NEW item \in run[r].left PROVE Anchored(item.deployment, item.earliest)'
    <3>1. item.deployment \in Deployments /\ item.earliest \in Nat
      BY <2>1 DEF Run, Item
    <3>2. Anchored(item.deployment, item.earliest)
      BY <2>1 DEF RunSound
    <3>3. PICK d \in Deployments, at \in Nat : d = item.deployment /\ at = item.earliest
      BY <3>1
    <3>4. Anchored(d, at)'
      BY <1>t, <3>2, <3>3, AnchorsHold
    <3>. QED
      BY <3>3, <3>4 DEF Anchored
  <2>4. ASSUME run[r].pc = "saving"
        PROVE  run[r].deployment \in Deployments /\ Sound(run[r].deployment, run[r].state)'
    <3>1. PICK d \in Deployments, state \in DrainState : d = run[r].deployment /\ state = run[r].state
      BY <2>1, <2>4 DEF RunSound, Run
    <3>2. Sound(d, state)'
      BY <1>t, <2>1, <2>4, <3>1, SoundHolds DEF RunSound
    <3>. QED
      BY <3>1, <3>2 DEF Sound, Anchored, Due
  <2>. QED
    BY <2>2, <2>3, <2>4 DEF RunSound, Sound, Anchored, Due
<1>. QED
  BY <1>1, <1>2, <1>3, <1>4 DEF DrainInv

\* Nothing happens but to the runs.
LEMMA RunsStep ==
    ASSUME DrainInv, NEW r \in Runs, NEW q \in Run, run' = [run EXCEPT ![r] = q],
           q.now <= clock,
           \A item \in q.left : Anchored(item.deployment, item.earliest),
           q.pc = "saving" => q.deployment \in Deployments /\ Sound(q.deployment, q.state),
           UNCHANGED <<clock, current, tunnel, spent, granted>>,
           drain' \in [Deployments -> DrainState],
           \A d \in Deployments : Sound(d, drain'[d])
    PROVE  DrainInv'
<1>t. TypeOK /\ Opened
  BY DEF DrainInv
<1>1. TypeOK'
  BY <1>t DEF TypeOK, Run, Item
<1>2. Opened'
  BY <1>t DEF Opened
<1>3. \A d \in Deployments : Sound(d, drain[d])'
  BY DEF Sound, Anchored, Due
<1>4. ASSUME NEW s \in Runs PROVE RunSound(s)'
  <2>1. CASE s = r
    <3>1. run'[s] = q
      BY <2>1, <1>t DEF TypeOK
    <3>. QED
      BY <3>1 DEF RunSound, Sound, Anchored, Due
  <2>2. CASE s # r
    <3>1. run'[s] = run[s]
      BY <2>2, <1>t DEF TypeOK
    <3>2. RunSound(s)
      BY DEF DrainInv
    <3>. QED
      BY <3>1, <3>2 DEF RunSound, Sound, Anchored, Due
  <2>. QED
    BY <2>1, <2>2
<1>. QED
  BY <1>1, <1>2, <1>3, <1>4 DEF DrainInv

----------------------------------------------------------------------------
(* The coordinator and its operators                                         *)

\* What a run makes of a sound state is sound: it terminates what is due, counted from a
\* tunnel, and not while an extension holds.
LEMMA EvaluatedSound ==
    ASSUME TypeOK, NEW d \in Deployments, NEW now \in Nat, now <= clock,
           NEW startedAt \in Nat, Anchored(d, startedAt), startedAt <= now,
           NEW existing \in DrainState, Sound(d, existing)
    PROVE  Sound(d, Evaluated(now, startedAt, existing))
<1>. DEFINE action == evaluateDeploymentDrain(now, startedAt, existing)
            state == Evaluated(now, startedAt, existing)
<1>t. /\ clock \in Nat /\ granted[d] \in Nat /\ existing.extensionUntil \in Nat
      /\ existing.terminateRemaining \in BOOLEAN /\ TerminateAfter \in Nat
  BY DrainConstants DEF TypeOK, DrainState
<1>1. /\ state.startedAt = startedAt /\ state.extensionUntil = existing.extensionUntil
      /\ state.terminateRemaining = (existing.terminateRemaining \/ action = "terminate")
  BY DEF Evaluated
<1>2. action = "terminate" => ~(existing.extensionUntil > now) /\ now - startedAt >= TerminateAfter
  <2>1. CASE ~Extended(now, existing) /\ now - startedAt >= TerminateAfter
    BY <2>1 DEF Extended
  <2>2. CASE ~(~Extended(now, existing) /\ now - startedAt >= TerminateAfter)
    BY <2>2 DEF evaluateDeploymentDrain
  <2>. QED
    BY <2>1, <2>2
<1>. HIDE DEF action, state
<1>3. now - startedAt >= TerminateAfter => Due(d)
  <2>1. PICK t \in Tunnels : tunnel[t].deployment = d /\ tunnel[t].startedAt <= startedAt
    BY DEF Anchored
  <2>2. tunnel[t].startedAt \in Nat
    BY DEF TypeOK
  <2>3. now - startedAt >= TerminateAfter => clock - tunnel[t].startedAt >= TerminateAfter
    BY <1>t, <2>1, <2>2
  <2>. QED
    BY <2>1, <2>3 DEF Due
<1>4. state.terminateRemaining => Due(d)
  BY <1>t, <1>1, <1>2, <1>3 DEF Sound
<1>5. ASSUME granted[d] > clock
      PROVE  existing.extensionUntil >= granted[d] /\ ~state.terminateRemaining
  <2>1. existing.extensionUntil >= granted[d] /\ ~existing.terminateRemaining
    BY <1>5 DEF Sound
  <2>2. existing.extensionUntil > now
    BY <1>t, <1>5, <2>1
  <2>. QED
    BY <1>t, <1>1, <1>2, <2>1, <2>2
<1>6. Sound(d, state)
  BY <1>1, <1>4, <1>5 DEF Sound
<1>. QED
  BY <1>6 DEF state

LEMMA CoordinatingStep ==
    ASSUME DrainInv, NEW r \in Runs, Coordinating(r)
    PROVE  DrainInv'
<1>t. TypeOK /\ Opened /\ run[r] \in Run /\ RunSound(r) /\ run \in [Runs -> Run]
  BY DEF DrainInv, TypeOK, Run, Item
<1>d. drain \in [Deployments -> DrainState] /\ \A d \in Deployments : Sound(d, drain[d])
  BY DEF DrainInv, TypeOK
<1>n. clock \in Nat /\ run[r].now \in Nat /\ run[r].now <= clock
  BY <1>t DEF TypeOK, Run, RunSound
<1>a. ASSUME NEW q \in Run, run' = [run EXCEPT ![r] = q], q.pc # "saving",
             q.now \in {0, run[r].now}, q.left \in {{}, run[r].left},
             UNCHANGED <<clock, current, tunnel, spent, granted>>,
             drain' \in [Deployments -> DrainState], \A d \in Deployments : Sound(d, drain'[d])
      PROVE  DrainInv'
  <2>1. q.now <= clock
    BY <1>a, <1>n
  <2>2. \A item \in q.left : Anchored(item.deployment, item.earliest)
    BY <1>a, <1>t DEF RunSound
  <2>. QED
    BY <1>a, <2>1, <2>2, RunsStep
<1>1. CASE BeginRun(r)
  <2>1. PICK q \in Run : /\ run' = [run EXCEPT ![r] = q]
                         /\ q.pc = "reading" /\ q.now = clock
                         /\ \A item \in q.left : Anchored(item.deployment, item.earliest)
    BY <1>1, <1>t, BeginType
  <2>2. q.now <= clock
    BY <2>1, <1>n
  <2>3. UNCHANGED <<clock, current, tunnel, drain, spent, granted>>
    BY <1>1 DEF BeginRun
  <2>. QED
    BY <1>d, <2>1, <2>2, <2>3, RunsStep
<1>2. ASSUME NEW item \in run[r].left, ReadDrain(r, item) PROVE DrainInv'
  <2>. DEFINE existing == drain[item.deployment]
              startedAt == IF existing.startedAt = Never THEN item.earliest ELSE existing.startedAt
  <2>1. /\ item \in Item /\ startedAt \in Nat /\ existing \in DrainState
        /\ \/ run' = [run EXCEPT ![r] = NoRun]
           \/ /\ run[r].now >= startedAt
              /\ \E q \in Run :
                    /\ run' = [run EXCEPT ![r] = q]
                    /\ q.now = run[r].now /\ q.left \subseteq run[r].left
                    /\ q.pc = "saving" /\ q.deployment = item.deployment
                    /\ q.state = Evaluated(run[r].now, startedAt, existing)
    BY <1>2, <1>t, ReadType
  <2>2. UNCHANGED <<clock, current, tunnel, drain, spent, granted>>
    BY <1>2 DEF ReadDrain
  <2>3. item.deployment \in Deployments /\ Sound(item.deployment, existing)
    BY <1>d, <2>1 DEF Item
  <2>4. Anchored(item.deployment, startedAt)
    BY <1>2, <1>t, <2>3 DEF Sound, RunSound
  <2>. HIDE DEF startedAt, existing
  <2>5. CASE run' = [run EXCEPT ![r] = NoRun]
    BY <1>a, <1>d, <2>2, <2>5, EmptyTypes
  <2>6. CASE run' # [run EXCEPT ![r] = NoRun]
    <3>1. PICK q \in Run : /\ run' = [run EXCEPT ![r] = q]
                           /\ q.now = run[r].now /\ q.left \subseteq run[r].left
                           /\ q.pc = "saving" /\ q.deployment = item.deployment
                           /\ q.state = Evaluated(run[r].now, startedAt, existing)
      BY <2>1, <2>6
    <3>2. startedAt <= run[r].now
      BY <2>1, <2>6, <1>n
    <3>3. Sound(item.deployment, q.state)
      BY <1>n, <1>t, <2>1, <2>3, <2>4, <3>1, <3>2, EvaluatedSound
    <3>4. \A other \in q.left : Anchored(other.deployment, other.earliest)
      BY <1>t, <3>1 DEF RunSound
    <3>5. q.now <= clock
      BY <1>n, <3>1
    <3>. QED
      BY <1>d, <2>2, <2>3, <3>1, <3>3, <3>4, <3>5, RunsStep
  <2>. QED
    BY <2>5, <2>6
<1>3. CASE SaveDrain(r)
  <2>1. /\ run[r].pc = "saving" /\ drain' = [drain EXCEPT ![run[r].deployment] = run[r].state]
        /\ UNCHANGED <<clock, current, tunnel, spent, granted>>
    BY <1>3 DEF SaveDrain
  <2>2. /\ run[r].deployment \in Deployments /\ run[r].state \in DrainState
        /\ Sound(run[r].deployment, run[r].state)
    BY <1>t, <2>1 DEF RunSound, Run
  <2>3. drain' \in [Deployments -> DrainState] /\ \A d \in Deployments : Sound(d, drain'[d])
    BY <1>d, <2>1, <2>2
  <2>4. PICK q : q = [Onward(r) EXCEPT !.pc = IF run[r].notifies THEN "notifying" ELSE Onward(r).pc]
    OBVIOUS
  <2>5. run' = [run EXCEPT ![r] = q]
    BY <1>3, <2>4 DEF SaveDrain
  <2>6. /\ q \in Run /\ q.pc # "saving" /\ q.now \in {0, run[r].now} /\ q.left \in {{}, run[r].left}
    BY <1>t, <2>4, OnwardType DEF Run
  <2>. QED
    BY <1>a, <2>1, <2>3, <2>5, <2>6
<1>4. CASE Notify(r)
  <2>1. PICK q \in {Onward(r), NoRun} : run' = [run EXCEPT ![r] = q]
    BY <1>4 DEF Notify
  <2>2. q \in Run /\ q.pc # "saving" /\ q.now \in {0, run[r].now} /\ q.left \in {{}, run[r].left}
    BY <1>t, OnwardType, EmptyTypes
  <2>3. UNCHANGED <<clock, current, tunnel, drain, spent, granted>>
    BY <1>4 DEF Notify
  <2>. QED
    BY <1>a, <1>d, <2>1, <2>2, <2>3
<1>. QED
  BY <1>1, <1>2, <1>3, <1>4 DEF Coordinating

\* An extension is promised against every state that is there or about to be put.
LEMMA ExtendStep ==
    ASSUME DrainInv, NEW d \in Deployments, NEW until \in clock + 1 .. MaxTime, Extend(d, until)
    PROVE  DrainInv'
<1>t. TypeOK /\ Opened /\ clock \in Nat /\ granted[d] \in Nat /\ drain[d] \in DrainState /\ MaxTime \in Int
  <2>1. MaxTime \in Int
    BY DrainConstants
  <2>. QED
    BY <2>1 DEF DrainInv, TypeOK
<1>u. until \in Nat /\ until > clock
  BY <1>t
<1>1. PICK new : new = [drain[d] EXCEPT !.extensionUntil = until]
  OBVIOUS
<1>2. /\ new \in DrainState /\ new.startedAt = drain[d].startedAt
      /\ new.terminateRemaining = drain[d].terminateRemaining /\ new.extensionUntil = until
  BY <1>1, <1>t, <1>u DEF DrainState
<1>3. /\ drain' = [drain EXCEPT ![d] = new]
      /\ UNCHANGED <<clock, current, tunnel, run>>
  BY <1>1 DEF Extend
<1>4. spent' \in [shifts : Nat, extensions : Nat]
  BY <1>t DEF Extend, TypeOK
<1>. DEFINE Keeping == drain[d].terminateRemaining \/ \E r \in Runs : run[r].pc = "saving" /\ run[r].deployment = d
<1>5. /\ granted' = [granted EXCEPT ![d] = IF Keeping /\ granted[d] <= until THEN granted[d] ELSE until]
      /\ granted' \in [Deployments -> Nat]
  BY <1>t, <1>u DEF Extend, TypeOK
<1>. HIDE DEF Keeping
<1>6. \A e \in Deployments \ {d} : granted'[e] = granted[e] /\ drain'[e] = drain[e]
  BY <1>3, <1>5, <1>t DEF TypeOK
<1>7. granted'[d] \in Nat /\ granted'[d] <= until /\ (Keeping => granted'[d] <= granted[d])
  BY <1>t, <1>u, <1>5 DEF TypeOK
<1>8. drain'[d] = new
  BY <1>3, <1>t DEF TypeOK
<1>9. TypeOK'
  BY <1>t, <1>2, <1>3, <1>4, <1>5 DEF TypeOK
<1>10. Opened'
  BY <1>t, <1>3 DEF Opened
<1>11. ASSUME NEW e \in Deployments PROVE Sound(e, drain[e])'
  <2>1. Sound(e, drain[e])
    BY DEF DrainInv
  <2>2. CASE e # d
    BY <1>3, <1>6, <2>1, <2>2 DEF Sound, Anchored, Due
  <2>3. CASE e = d
    <3>1. granted'[d] > clock => ~drain[d].terminateRemaining
      BY <1>t, <1>7, <2>1, <2>3 DEF Sound, Keeping
    <3>2. /\ drain'[d].startedAt # Never => Anchored(d, drain'[d].startedAt)
          /\ drain'[d].terminateRemaining => Due(d)
      BY <1>2, <1>8, <2>1, <2>3 DEF Sound
    <3>3. granted'[d] > clock => drain'[d].extensionUntil >= granted'[d] /\ ~drain'[d].terminateRemaining
      BY <1>2, <1>7, <1>8, <1>u, <3>1
    <3>. QED
      BY <1>3, <2>3, <3>2, <3>3 DEF Sound, Anchored, Due
  <2>. QED
    BY <2>2, <2>3
<1>12. ASSUME NEW r \in Runs PROVE RunSound(r)'
  <2>1. run[r] \in Run /\ RunSound(r)
    BY <1>t DEF TypeOK, Run, Item, DrainInv
  <2>2. ASSUME run[r].pc = "saving"
        PROVE  /\ run[r].deployment \in Deployments
               /\ LET e == run[r].deployment IN
                  granted'[e] > clock =>
                      run[r].state.extensionUntil >= granted'[e] /\ ~run[r].state.terminateRemaining
    <3>1. /\ run[r].deployment \in Deployments /\ Sound(run[r].deployment, run[r].state)
          /\ run[r].state.extensionUntil \in Nat
      BY <2>1, <2>2 DEF RunSound, Run, DrainState
    <3>2. CASE run[r].deployment # d
      BY <1>6, <3>1, <3>2 DEF Sound
    <3>3. CASE run[r].deployment = d
      <4>1. granted'[d] <= granted[d]
        BY <1>7, <2>2, <3>3 DEF Keeping
      <4>. QED
        BY <1>t, <1>7, <3>1, <3>3, <4>1 DEF Sound
    <3>. QED
      BY <3>1, <3>2, <3>3
  <2>. QED
    BY <1>3, <2>1, <2>2 DEF RunSound, Sound, Anchored, Due
<1>. QED
  BY <1>9, <1>10, <1>11, <1>12 DEF DrainInv

LEMMA DrainNext ==
    ASSUME DrainInv, [Next]_vars
    PROVE  DrainInv'
<1>t. TypeOK /\ Opened /\ clock \in Nat
  BY DEF DrainInv, TypeOK
<1>s. current \in Deployments \cup {None} /\ spent \in [shifts : Nat, extensions : Nat]
  BY <1>t DEF TypeOK
<1>a. ASSUME TunnelsGoOn, UNCHANGED <<clock, current, drain, run, spent, granted>> PROVE DrainInv'
  BY <1>a, <1>t, <1>s, WorldStep
<1>b. ASSUME UNCHANGED <<tunnel, clock, current, drain, run, spent, granted>> PROVE DrainInv'
  BY <1>a, <1>b, <1>t, TunnelStep
<1>1. ASSUME NEW d \in Deployments, Deploy(d) \/ Starting(d) \/ Retire(d) \/ Stopping(d) PROVE DrainInv'
  <2>1. UNCHANGED tunnel /\ Quiet
    BY <1>1 DEF Deploy, Starting, Retire, Stopping
  <2>. QED
    BY <2>1, <1>b DEF Quiet
<1>2. ASSUME NEW d \in Deployments, Shift(d) PROVE DrainInv'
  <2>1. current' = d /\ UNCHANGED <<clock, tunnel, drain, run, granted>>
    BY <1>2 DEF Shift
  <2>2. spent' \in [shifts : Nat, extensions : Nat]
    BY <1>2, <1>s DEF Shift
  <2>3. TunnelsGoOn
    BY <1>t, <2>1, TunnelStep
  <2>. QED
    BY <1>t, <2>1, <2>2, <2>3, WorldStep
<1>3. ASSUME NEW d \in Deployments, Crash(d) \/ PollDeployment(d) PROVE DrainInv'
  <2>1. TunnelsGoOn
    BY <1>3, <1>t, TunnelStep
  <2>. QED
    BY <1>3, <1>a, <2>1 DEF Crash, PollDeployment, Quiet
<1>4. ASSUME NEW t \in Tunnels, Open(t) \/ Close(t) \/ Expire(t) PROVE DrainInv'
  <2>1. TunnelsGoOn
    BY <1>4, <1>t, TunnelStep
  <2>. QED
    BY <1>4, <1>a, <2>1 DEF Open, Close, Expire, Quiet
<1>5. CASE Tick
  <2>1. clock' = clock + 1 /\ UNCHANGED <<current, tunnel, drain, run, spent, granted>>
    BY <1>5 DEF Tick
  <2>2. clock' \in Nat /\ clock <= clock'
    BY <1>t, <2>1
  <2>3. TunnelsGoOn
    BY <1>t, <2>1, TunnelStep
  <2>. QED
    BY <1>s, <2>1, <2>2, <2>3, WorldStep
<1>6. CASE UNCHANGED vars
  BY <1>6, <1>b DEF vars
<1>. QED
  BY <1>1, <1>2, <1>3, <1>4, <1>5, <1>6, CoordinatingStep, ExtendStep DEF Next

LEMMA DrainInit == Init => DrainInv
<1>. SUFFICES ASSUME Init PROVE DrainInv
  OBVIOUS
<1>1. /\ clock = 1 /\ current \in Deployments \cup {None}
      /\ tunnel = [t \in Tunnels |-> NoTunnel] /\ drain = [d \in Deployments |-> NoDrain]
      /\ run = [r \in Runs |-> NoRun] /\ spent = [shifts |-> 0, extensions |-> 0]
      /\ granted = [d \in Deployments |-> 0]
  BY DrainConstants DEF Init, Never, Deployments
<1>2. TypeOK
  BY <1>1, EmptyTypes DEF TypeOK, Tunnel, Run, Item
<1>3. Opened
  BY <1>1, EmptyTypes DEF Opened
<1>4. \A d \in Deployments : Sound(d, drain[d])
  BY <1>1, EmptyTypes DEF Sound
<1>5. \A r \in Runs : RunSound(r)
  BY <1>1, EmptyTypes DEF RunSound
<1>. QED
  BY <1>2, <1>3, <1>4, <1>5 DEF DrainInv

LEMMA DrainInvariant == Spec => []DrainInv
<1>1. DrainInv /\ [Next]_vars => DrainInv'
  BY DrainNext
<1>. QED
  BY <1>1, DrainInit, PTL DEF Spec

\* The tunnels, the stored drains and the runs that overlap keep their shapes.
THEOREM DrainTypes == Spec => []TypeOK
<1>1. DrainInv => TypeOK
  BY DEF DrainInv
<1>. QED
  BY <1>1, DrainInvariant, PTL

\* No tunnel is cut before its deployment's drain is due or while an extension that was
\* promised holds, however many runs of the coordinator overlap, fail and overwrite each
\* other's states, and whatever the policy of release-policy.ts is configured to.
THEOREM TunnelsCutWhenDue == Spec => CutsAreDue
<1>1. ASSUME DrainInv, NEW d \in Deployments, PollDeployment(d)
      PROVE  /\ \E t \in Tunnels : tunnel[t].deployment = d /\ clock - tunnel[t].startedAt >= TerminateAfter
             /\ granted[d] <= clock
  <2>1. Sound(d, drain[d]) /\ drain[d].terminateRemaining
    BY <1>1 DEF DrainInv, PollDeployment
  <2>2. granted[d] \in Nat /\ clock \in Nat
    BY <1>1 DEF DrainInv, TypeOK
  <2>. QED
    BY <2>1, <2>2 DEF Sound, Due
<1>2. DrainInv /\ [Next]_vars =>
          [\A d \in Deployments :
              PollDeployment(d) =>
                 /\ \E t \in Tunnels : tunnel[t].deployment = d /\ clock - tunnel[t].startedAt >= TerminateAfter
                 /\ granted[d] <= clock]_vars
  BY <1>1
<1>. QED
  BY <1>2, DrainInvariant, PTL DEF Spec, CutsAreDue

----------------------------------------------------------------------------
(* Starts and stops                                                          *)

\* What the first steps of a start acquire.
Acquired(mode, n) == {Startup(mode)[i] : i \in 1 .. n} \ {Check}

Resources == UNION {Acquired(mode, Len(Startup(mode))) : mode \in Services}

Process == [mode : Services, pc : {"new", "starting", "running", "stopping", "exited"}, next : Nat,
            held : SUBSET Resources]

\* A start holds what its steps so far acquired, what runs or stops holds something, and
\* with a resource what it uses.
Consistent(q) ==
    /\ q.held \subseteq Acquired(q.mode, Len(Startup(q.mode)))
    /\ q.pc = "new" => q.next = 1 /\ q.held = {}
    /\ q.pc = "starting" =>
          q.next \in 1 .. Len(Startup(q.mode)) /\ q.held = Acquired(q.mode, q.next - 1)
    /\ q.pc \in {"running", "stopping"} => q.held # {}
    /\ \A resource \in q.held : Uses(q.mode, resource) \subseteq q.held

LifecycleInv ==
    /\ process \in [Processes -> Process]
    /\ \A p \in Processes : Consistent(process[p])

\* What a service acquires is there when it is needed, is released, and is released before
\* what it needs.
Orderly(mode, steps, groups) ==
    /\ DOMAIN steps = 1 .. Len(steps) /\ Len(steps) \in Nat \ {0} /\ steps[1] = "telemetry"
    /\ DOMAIN groups = 1 .. Len(groups) /\ Len(groups) \in Nat
    /\ \A i \in DOMAIN steps :
          steps[i] # Check =>
              /\ \A used \in Uses(mode, steps[i]) : used # Check /\ \E k \in 1 .. i - 1 : steps[k] = used
              /\ \E j \in DOMAIN groups : steps[i] \in groups[j]
    /\ \A i, j \in DOMAIN groups :
          \A used \in groups[i], user \in groups[j] : used \in Uses(mode, user) => j < i

\* It is so for every service, by what each acquires and releases.
LEMMA ServicesOrderly ==
    ASSUME NEW mode \in Services
    PROVE  Orderly(mode, Startup(mode), Releases(mode))
<1>1. CASE mode = "data-plane"
  <2>1. PICK steps : steps = Startup("data-plane")
    OBVIOUS
  <2>2. steps = <<"telemetry">> \o <<"store", "providers", "forward", "socks5", "check">>
    BY <2>1 DEF Startup, startService, startDataPlaneApplication, Check
  <2>3. /\ DOMAIN steps = 1 .. 6 /\ Len(steps) = 6
        /\ steps[1] = "telemetry" /\ steps[2] = "store" /\ steps[3] = "providers"
        /\ steps[4] = "forward" /\ steps[5] = "socks5" /\ steps[6] = "check"
    BY <2>2
  <2>4. PICK groups : groups = Releases("data-plane")
    OBVIOUS
  <2>5. groups = <<{"forward", "socks5"}, {"providers"}, {"store"}>> \o <<{"telemetry"}>>
    BY <2>4 DEF Releases, stopDataPlane
  <2>6. /\ DOMAIN groups = 1 .. 4 /\ Len(groups) = 4
        /\ groups[1] = {"forward", "socks5"} /\ groups[2] = {"providers"}
        /\ groups[3] = {"store"} /\ groups[4] = {"telemetry"}
    BY <2>5
  <2>7. /\ Uses("data-plane", "telemetry") = {}
        /\ Uses("data-plane", "store") = {"telemetry"}
        /\ Uses("data-plane", "providers") = {"telemetry"}
        /\ Uses("data-plane", "forward") = {"telemetry", "store", "providers"}
        /\ Uses("data-plane", "socks5") = {"telemetry", "store", "providers"}
        /\ Uses("data-plane", "check") = {"telemetry", "store"}
    BY DEF Uses
  <2>8. ASSUME NEW i \in 1 .. 6, steps[i] # "check"
        PROVE  /\ \A used \in Uses("data-plane", steps[i]) :
                      used # "check" /\ \E k \in 1 .. i - 1 : steps[k] = used
               /\ \E j \in 1 .. 4 : steps[i] \in groups[j]
    BY <2>3, <2>6, <2>7, <2>8
  <2>9. ASSUME NEW i \in 1 .. 4, NEW j \in 1 .. 4, NEW user \in groups[j]
        PROVE  \A used \in groups[i] : used \in Uses("data-plane", user) => j < i
    BY <2>6, <2>7
  <2>10. Orderly("data-plane", steps, groups)
    BY <2>3, <2>6, <2>8, <2>9 DEF Orderly, Check
  <2>. QED
    BY <1>1, <2>1, <2>4, <2>10
<1>2. CASE mode = "control-plane"
  <2>1. PICK steps : steps = Startup("control-plane")
    OBVIOUS
  <2>2. steps = <<"telemetry">> \o <<"store", "control">>
    BY <2>1 DEF Startup, startService, startControlPlaneApplication, Check
  <2>3. /\ DOMAIN steps = 1 .. 3 /\ Len(steps) = 3
        /\ steps[1] = "telemetry" /\ steps[2] = "store" /\ steps[3] = "control"
    BY <2>2
  <2>4. PICK groups : groups = Releases("control-plane")
    OBVIOUS
  <2>5. groups = <<{"control"}, {"store"}>> \o <<{"telemetry"}>>
    BY <2>4 DEF Releases, stopControlPlane
  <2>6. /\ DOMAIN groups = 1 .. 3 /\ Len(groups) = 3
        /\ groups[1] = {"control"} /\ groups[2] = {"store"} /\ groups[3] = {"telemetry"}
    BY <2>5
  <2>7. /\ Uses("control-plane", "telemetry") = {}
        /\ Uses("control-plane", "store") = {"telemetry"}
        /\ Uses("control-plane", "control") = {"telemetry", "store"}
    BY DEF Uses
  <2>8. ASSUME NEW i \in 1 .. 3, steps[i] # "check"
        PROVE  /\ \A used \in Uses("control-plane", steps[i]) :
                      used # "check" /\ \E k \in 1 .. i - 1 : steps[k] = used
               /\ \E j \in 1 .. 3 : steps[i] \in groups[j]
    BY <2>3, <2>6, <2>7, <2>8
  <2>9. ASSUME NEW i \in 1 .. 3, NEW j \in 1 .. 3, NEW user \in groups[j]
        PROVE  \A used \in groups[i] : used \in Uses("control-plane", user) => j < i
    BY <2>6, <2>7
  <2>10. Orderly("control-plane", steps, groups)
    BY <2>3, <2>6, <2>8, <2>9 DEF Orderly, Check
  <2>. QED
    BY <1>2, <2>1, <2>4, <2>10
<1>3. CASE mode = "local"
  <2>1. PICK steps : steps = Startup("local")
    OBVIOUS
  <2>2. steps = <<"telemetry">> \o <<"store", "providers", "forward", "socks5", "control", "check">>
    BY <2>1 DEF Startup, startService, startStandaloneApplication, Check
  <2>3. /\ DOMAIN steps = 1 .. 7 /\ Len(steps) = 7
        /\ steps[1] = "telemetry" /\ steps[2] = "store" /\ steps[3] = "providers"
        /\ steps[4] = "forward" /\ steps[5] = "socks5" /\ steps[6] = "control"
        /\ steps[7] = "check"
    BY <2>2
  <2>4. PICK groups : groups = Releases("local")
    OBVIOUS
  <2>5. groups = <<{"control", "forward", "socks5"}, {"providers"}, {"store"}>> \o <<{"telemetry"}>>
    BY <2>4 DEF Releases, stopStandalone
  <2>6. /\ DOMAIN groups = 1 .. 4 /\ Len(groups) = 4
        /\ groups[1] = {"control", "forward", "socks5"} /\ groups[2] = {"providers"}
        /\ groups[3] = {"store"} /\ groups[4] = {"telemetry"}
    BY <2>5
  <2>7. /\ Uses("local", "telemetry") = {}
        /\ Uses("local", "store") = {"telemetry"}
        /\ Uses("local", "providers") = {"telemetry"}
        /\ Uses("local", "forward") = {"telemetry", "store", "providers"}
        /\ Uses("local", "socks5") = {"telemetry", "store", "providers"}
        /\ Uses("local", "control") = {"telemetry", "store", "providers"}
        /\ Uses("local", "check") = {"telemetry", "store", "providers"}
    BY DEF Uses
  <2>8. ASSUME NEW i \in 1 .. 7, steps[i] # "check"
        PROVE  /\ \A used \in Uses("local", steps[i]) :
                      used # "check" /\ \E k \in 1 .. i - 1 : steps[k] = used
               /\ \E j \in 1 .. 4 : steps[i] \in groups[j]
    BY <2>3, <2>6, <2>7, <2>8
  <2>9. ASSUME NEW i \in 1 .. 4, NEW j \in 1 .. 4, NEW user \in groups[j]
        PROVE  \A used \in groups[i] : used \in Uses("local", user) => j < i
    BY <2>6, <2>7
  <2>10. Orderly("local", steps, groups)
    BY <2>3, <2>6, <2>8, <2>9 DEF Orderly, Check
  <2>. QED
    BY <1>3, <2>1, <2>4, <2>10
<1>4. CASE mode = "health-aggregator"
  <2>1. PICK steps : steps = Startup("health-aggregator")
    OBVIOUS
  <2>2. steps = <<"telemetry">> \o <<"store", "providers", "check", "server">>
    BY <2>1 DEF Startup, startService, startHealthAggregatorService, Check
  <2>3. /\ DOMAIN steps = 1 .. 5 /\ Len(steps) = 5
        /\ steps[1] = "telemetry" /\ steps[2] = "store" /\ steps[3] = "providers"
        /\ steps[4] = "check" /\ steps[5] = "server"
    BY <2>2
  <2>4. PICK groups : groups = Releases("health-aggregator")
    OBVIOUS
  <2>r. Reverse(<<"store", "providers", "check", "server">>) = <<"server", "check", "providers", "store">>
    BY DEF Reverse
  <2>c. close(<<"store", "providers", "check", "server">>) = <<{"server"}, {"check"}, {"providers"}, {"store"}>>
    BY <2>r DEF close
  <2>5. groups = <<{"server"}, {"check"}, {"providers"}, {"store"}>> \o <<{"telemetry"}>>
    BY <2>4, <2>c DEF Releases, startService, startHealthAggregatorService, Check
  <2>6. /\ DOMAIN groups = 1 .. 5 /\ Len(groups) = 5
        /\ groups[1] = {"server"} /\ groups[2] = {"check"} /\ groups[3] = {"providers"}
        /\ groups[4] = {"store"} /\ groups[5] = {"telemetry"}
    BY <2>5
  <2>7. /\ Uses("health-aggregator", "telemetry") = {}
        /\ Uses("health-aggregator", "store") = {"telemetry"}
        /\ Uses("health-aggregator", "providers") = {"telemetry"}
        /\ Uses("health-aggregator", "check") = {"telemetry", "store", "providers"}
        /\ Uses("health-aggregator", "server") = {"telemetry", "store", "providers"}
    BY DEF Uses
  <2>8. ASSUME NEW i \in 1 .. 5, steps[i] # "check"
        PROVE  /\ \A used \in Uses("health-aggregator", steps[i]) :
                      used # "check" /\ \E k \in 1 .. i - 1 : steps[k] = used
               /\ \E j \in 1 .. 5 : steps[i] \in groups[j]
    BY <2>3, <2>6, <2>7, <2>8
  <2>9. ASSUME NEW i \in 1 .. 5, NEW j \in 1 .. 5, NEW user \in groups[j]
        PROVE  \A used \in groups[i] : used \in Uses("health-aggregator", user) => j < i
    BY <2>6, <2>7
  <2>10. Orderly("health-aggregator", steps, groups)
    BY <2>3, <2>6, <2>8, <2>9 DEF Orderly, Check
  <2>. QED
    BY <1>4, <2>1, <2>4, <2>10
<1>5. CASE mode = "status"
  <2>1. PICK steps : steps = Startup("status")
    OBVIOUS
  <2>2. steps = <<"telemetry">> \o <<"store", "server">>
    BY <2>1 DEF Startup, startService, startStatusApplicationService, Check
  <2>3. /\ DOMAIN steps = 1 .. 3 /\ Len(steps) = 3
        /\ steps[1] = "telemetry" /\ steps[2] = "store" /\ steps[3] = "server"
    BY <2>2
  <2>4. PICK groups : groups = Releases("status")
    OBVIOUS
  <2>r. Reverse(<<"store", "server">>) = <<"server", "store">>
    BY DEF Reverse
  <2>c. close(<<"store", "server">>) = <<{"server"}, {"store"}>>
    BY <2>r DEF close
  <2>5. groups = <<{"server"}, {"store"}>> \o <<{"telemetry"}>>
    BY <2>4, <2>c DEF Releases, startService, startStatusApplicationService, Check
  <2>6. /\ DOMAIN groups = 1 .. 3 /\ Len(groups) = 3
        /\ groups[1] = {"server"} /\ groups[2] = {"store"} /\ groups[3] = {"telemetry"}
    BY <2>5
  <2>7. /\ Uses("status", "telemetry") = {}
        /\ Uses("status", "store") = {"telemetry"}
        /\ Uses("status", "server") = {"telemetry", "store"}
    BY DEF Uses
  <2>8. ASSUME NEW i \in 1 .. 3, steps[i] # "check"
        PROVE  /\ \A used \in Uses("status", steps[i]) :
                      used # "check" /\ \E k \in 1 .. i - 1 : steps[k] = used
               /\ \E j \in 1 .. 3 : steps[i] \in groups[j]
    BY <2>3, <2>6, <2>7, <2>8
  <2>9. ASSUME NEW i \in 1 .. 3, NEW j \in 1 .. 3, NEW user \in groups[j]
        PROVE  \A used \in groups[i] : used \in Uses("status", user) => j < i
    BY <2>6, <2>7
  <2>10. Orderly("status", steps, groups)
    BY <2>3, <2>6, <2>8, <2>9 DEF Orderly, Check
  <2>. QED
    BY <1>5, <2>1, <2>4, <2>10
<1>6. CASE mode = "usage-accounting"
  <2>1. PICK steps : steps = Startup("usage-accounting")
    OBVIOUS
  <2>2. steps = <<"telemetry">> \o <<"store", "check", "server", "timer">>
    BY <2>1 DEF Startup, startService, startUsageAccountingService, Check
  <2>3. /\ DOMAIN steps = 1 .. 5 /\ Len(steps) = 5
        /\ steps[1] = "telemetry" /\ steps[2] = "store" /\ steps[3] = "check"
        /\ steps[4] = "server" /\ steps[5] = "timer"
    BY <2>2
  <2>4. PICK groups : groups = Releases("usage-accounting")
    OBVIOUS
  <2>r. Reverse(<<"store", "check", "server", "timer">>) = <<"timer", "server", "check", "store">>
    BY DEF Reverse
  <2>c. close(<<"store", "check", "server", "timer">>) = <<{"timer"}, {"server"}, {"check"}, {"store"}>>
    BY <2>r DEF close
  <2>5. groups = <<{"timer"}, {"server"}, {"check"}, {"store"}>> \o <<{"telemetry"}>>
    BY <2>4, <2>c DEF Releases, startService, startUsageAccountingService, Check
  <2>6. /\ DOMAIN groups = 1 .. 5 /\ Len(groups) = 5
        /\ groups[1] = {"timer"} /\ groups[2] = {"server"} /\ groups[3] = {"check"}
        /\ groups[4] = {"store"} /\ groups[5] = {"telemetry"}
    BY <2>5
  <2>7. /\ Uses("usage-accounting", "telemetry") = {}
        /\ Uses("usage-accounting", "store") = {"telemetry"}
        /\ Uses("usage-accounting", "check") = {"telemetry", "store"}
        /\ Uses("usage-accounting", "server") = {"telemetry", "store"}
        /\ Uses("usage-accounting", "timer") = {"telemetry", "store"}
    BY DEF Uses
  <2>8. ASSUME NEW i \in 1 .. 5, steps[i] # "check"
        PROVE  /\ \A used \in Uses("usage-accounting", steps[i]) :
                      used # "check" /\ \E k \in 1 .. i - 1 : steps[k] = used
               /\ \E j \in 1 .. 5 : steps[i] \in groups[j]
    BY <2>3, <2>6, <2>7, <2>8
  <2>9. ASSUME NEW i \in 1 .. 5, NEW j \in 1 .. 5, NEW user \in groups[j]
        PROVE  \A used \in groups[i] : used \in Uses("usage-accounting", user) => j < i
    BY <2>6, <2>7
  <2>10. Orderly("usage-accounting", steps, groups)
    BY <2>3, <2>6, <2>8, <2>9 DEF Orderly, Check
  <2>. QED
    BY <1>6, <2>1, <2>4, <2>10
<1>7. CASE mode = "notification"
  <2>1. PICK steps : steps = Startup("notification")
    OBVIOUS
  <2>2. steps = <<"telemetry">> \o <<"store", "check", "server", "timer">>
    BY <2>1 DEF Startup, startService, startNotificationService, Check
  <2>3. /\ DOMAIN steps = 1 .. 5 /\ Len(steps) = 5
        /\ steps[1] = "telemetry" /\ steps[2] = "store" /\ steps[3] = "check"
        /\ steps[4] = "server" /\ steps[5] = "timer"
    BY <2>2
  <2>4. PICK groups : groups = Releases("notification")
    OBVIOUS
  <2>r. Reverse(<<"store", "check", "server", "timer">>) = <<"timer", "server", "check", "store">>
    BY DEF Reverse
  <2>c. close(<<"store", "check", "server", "timer">>) = <<{"timer"}, {"server"}, {"check"}, {"store"}>>
    BY <2>r DEF close
  <2>5. groups = <<{"timer"}, {"server"}, {"check"}, {"store"}>> \o <<{"telemetry"}>>
    BY <2>4, <2>c DEF Releases, startService, startNotificationService, Check
  <2>6. /\ DOMAIN groups = 1 .. 5 /\ Len(groups) = 5
        /\ groups[1] = {"timer"} /\ groups[2] = {"server"} /\ groups[3] = {"check"}
        /\ groups[4] = {"store"} /\ groups[5] = {"telemetry"}
    BY <2>5
  <2>7. /\ Uses("notification", "telemetry") = {}
        /\ Uses("notification", "store") = {"telemetry"}
        /\ Uses("notification", "check") = {"telemetry", "store"}
        /\ Uses("notification", "server") = {"telemetry", "store"}
        /\ Uses("notification", "timer") = {"telemetry", "store"}
    BY DEF Uses
  <2>8. ASSUME NEW i \in 1 .. 5, steps[i] # "check"
        PROVE  /\ \A used \in Uses("notification", steps[i]) :
                      used # "check" /\ \E k \in 1 .. i - 1 : steps[k] = used
               /\ \E j \in 1 .. 5 : steps[i] \in groups[j]
    BY <2>3, <2>6, <2>7, <2>8
  <2>9. ASSUME NEW i \in 1 .. 5, NEW j \in 1 .. 5, NEW user \in groups[j]
        PROVE  \A used \in groups[i] : used \in Uses("notification", user) => j < i
    BY <2>6, <2>7
  <2>10. Orderly("notification", steps, groups)
    BY <2>3, <2>6, <2>8, <2>9 DEF Orderly, Check
  <2>. QED
    BY <1>7, <2>1, <2>4, <2>10
<1>8. CASE mode = "canary"
  <2>1. PICK steps : steps = Startup("canary")
    OBVIOUS
  <2>2. steps = <<"telemetry">> \o <<"check", "updater", "server">>
    BY <2>1 DEF Startup, startService, startPublicCanaryService, Check
  <2>3. /\ DOMAIN steps = 1 .. 4 /\ Len(steps) = 4
        /\ steps[1] = "telemetry" /\ steps[2] = "check" /\ steps[3] = "updater"
        /\ steps[4] = "server"
    BY <2>2
  <2>4. PICK groups : groups = Releases("canary")
    OBVIOUS
  <2>r. Reverse(<<"check", "updater", "server">>) = <<"server", "updater", "check">>
    BY DEF Reverse
  <2>c. close(<<"check", "updater", "server">>) = <<{"server"}, {"updater"}, {"check"}>>
    BY <2>r DEF close
  <2>5. groups = <<{"server"}, {"updater"}, {"check"}>> \o <<{"telemetry"}>>
    BY <2>4, <2>c DEF Releases, startService, startPublicCanaryService, Check
  <2>6. /\ DOMAIN groups = 1 .. 4 /\ Len(groups) = 4
        /\ groups[1] = {"server"} /\ groups[2] = {"updater"} /\ groups[3] = {"check"}
        /\ groups[4] = {"telemetry"}
    BY <2>5
  <2>7. /\ Uses("canary", "telemetry") = {}
        /\ Uses("canary", "check") = {"telemetry"}
        /\ Uses("canary", "updater") = {"telemetry"}
        /\ Uses("canary", "server") = {"telemetry"}
    BY DEF Uses
  <2>8. ASSUME NEW i \in 1 .. 4, steps[i] # "check"
        PROVE  /\ \A used \in Uses("canary", steps[i]) :
                      used # "check" /\ \E k \in 1 .. i - 1 : steps[k] = used
               /\ \E j \in 1 .. 4 : steps[i] \in groups[j]
    BY <2>3, <2>6, <2>7, <2>8
  <2>9. ASSUME NEW i \in 1 .. 4, NEW j \in 1 .. 4, NEW user \in groups[j]
        PROVE  \A used \in groups[i] : used \in Uses("canary", user) => j < i
    BY <2>6, <2>7
  <2>10. Orderly("canary", steps, groups)
    BY <2>3, <2>6, <2>8, <2>9 DEF Orderly, Check
  <2>. QED
    BY <1>8, <2>1, <2>4, <2>10
<1>. QED
  BY <1>1, <1>2, <1>3, <1>4, <1>5, <1>6, <1>7, <1>8 DEF Services

LEMMA ProcessChanges ==
    ASSUME LifecycleInv, NEW p \in Processes, NEW q \in Process, Consistent(q),
           process' = [process EXCEPT ![p] = q]
    PROVE  LifecycleInv'
BY DEF LifecycleInv, Consistent

\* The first steps of a start need nothing of the later ones.
LEMMA AcquiredClosed ==
    ASSUME NEW mode \in Services, NEW n \in Nat, n <= Len(Startup(mode))
    PROVE  /\ Acquired(mode, n) \subseteq Acquired(mode, Len(Startup(mode)))
           /\ Acquired(mode, n) \subseteq Resources
           /\ \A resource \in Acquired(mode, n) : Uses(mode, resource) \subseteq Acquired(mode, n)
           /\ n > 0 => Acquired(mode, n) # {}
<1>1. PICK steps : steps = Startup(mode)
  OBVIOUS
<1>2. Orderly(mode, steps, Releases(mode))
  BY <1>1, ServicesOrderly
<1>3. Len(steps) \in Nat
  BY <1>2 DEF Orderly
<1>4. Acquired(mode, n) \subseteq Acquired(mode, Len(steps))
  BY <1>1, <1>3 DEF Acquired
<1>5. ASSUME NEW resource \in Acquired(mode, n), NEW used \in Uses(mode, resource)
      PROVE  used \in Acquired(mode, n)
  <2>1. PICK i \in 1 .. n : resource = steps[i] /\ steps[i] # Check
    BY <1>1, <1>5 DEF Acquired
  <2>2. PICK k \in 1 .. i - 1 : steps[k] = used /\ used # Check
    BY <1>1, <1>2, <2>1, <1>5 DEF Orderly
  <2>3. k \in 1 .. n
    BY <2>1, <2>2
  <2>. QED
    BY <1>1, <2>2, <2>3 DEF Acquired
<1>6. n > 0 => Acquired(mode, n) # {}
  <2>. SUFFICES ASSUME n > 0 PROVE "telemetry" \in Acquired(mode, n)
    OBVIOUS
  <2>1. 1 \in 1 .. n /\ steps[1] = "telemetry" /\ "telemetry" # Check
    BY <1>2 DEF Orderly, Check
  <2>. QED
    BY <1>1, <2>1 DEF Acquired
<1>7. Acquired(mode, n) \subseteq Resources
  BY <1>1, <1>4 DEF Resources
<1>. QED
  BY <1>1, <1>4, <1>5, <1>6, <1>7

\* What is released is not used by anything that is still held.
LEMMA ReleasedUnused ==
    ASSUME LifecycleInv, NEW p \in Processes, NEW resource \in Releasing(p)
    PROVE  /\ resource \in process[p].held
           /\ \A user \in process[p].held : resource \notin Uses(process[p].mode, user)
<1>1. PICK q, steps, groups :
          q \in Process /\ q = process[p] /\ steps = Startup(q.mode) /\ groups = Releases(q.mode)
  BY DEF LifecycleInv
<1>2. Orderly(q.mode, steps, groups) /\ Consistent(q)
  BY <1>1, ServicesOrderly DEF LifecycleInv, Process
<1>3. PICK left : left = {i \in DOMAIN groups : groups[i] \cap q.held # {}}
  OBVIOUS
<1>4. left \subseteq Nat
  BY <1>2, <1>3 DEF Orderly
<1>5. left # {}
  BY <1>1, <1>3 DEF Releasing
<1>6. PICK least : least = (CHOOSE i \in left : \A j \in left : i <= j)
  OBVIOUS
<1>7. least \in left /\ \A j \in left : least <= j
  BY <1>4, <1>5, <1>6, LeastExists
<1>8. resource \in groups[least] /\ resource \in q.held
  BY <1>1, <1>3, <1>5, <1>6 DEF Releasing
<1>9. ASSUME NEW user \in q.held, resource \in Uses(q.mode, user) PROVE FALSE
  <2>1. PICK i \in DOMAIN steps : steps[i] = user /\ steps[i] # Check
    BY <1>1, <1>2, <1>9 DEF Consistent, Acquired, Orderly
  <2>2. PICK j \in DOMAIN groups : user \in groups[j]
    BY <1>2, <2>1 DEF Orderly
  <2>3. j \in left
    BY <1>3, <1>9, <2>2
  <2>4. least \in DOMAIN groups
    BY <1>3, <1>7
  <2>5. j < least
    BY <1>2, <1>8, <1>9, <2>2, <2>4 DEF Orderly
  <2>6. least \in Nat /\ j \in Nat /\ least <= j
    BY <1>4, <1>7, <2>3
  <2>. QED
    BY <2>5, <2>6
<1>. QED
  BY <1>1, <1>8, <1>9

\* As long as something is held, something can be released.
LEMMA SomethingReleased ==
    ASSUME LifecycleInv, NEW p \in Processes, process[p].held # {}
    PROVE  Releasing(p) # {}
<1>1. PICK q, steps, groups :
          q \in Process /\ q = process[p] /\ steps = Startup(q.mode) /\ groups = Releases(q.mode)
  BY DEF LifecycleInv
<1>2. Orderly(q.mode, steps, groups) /\ Consistent(q)
  BY <1>1, ServicesOrderly DEF LifecycleInv, Process
<1>3. PICK left : left = {i \in DOMAIN groups : groups[i] \cap q.held # {}}
  OBVIOUS
<1>4. left \subseteq Nat
  BY <1>2, <1>3 DEF Orderly
<1>5. left # {}
  <2>1. PICK resource \in q.held : TRUE
    BY <1>1
  <2>2. PICK i \in DOMAIN steps : steps[i] = resource /\ steps[i] # Check
    BY <1>1, <1>2, <2>1 DEF Consistent, Acquired, Orderly
  <2>3. PICK j \in DOMAIN groups : resource \in groups[j]
    BY <1>2, <2>2 DEF Orderly
  <2>. QED
    BY <1>3, <2>1, <2>3
<1>6. PICK least : least = (CHOOSE i \in left : \A j \in left : i <= j)
  OBVIOUS
<1>7. least \in left
  BY <1>4, <1>5, <1>6, LeastExists
<1>8. Releasing(p) = groups[least] \cap q.held
  BY <1>1, <1>3, <1>5, <1>6 DEF Releasing
<1>. QED
  BY <1>3, <1>7, <1>8

LEMMA ProcessStep ==
    ASSUME LifecycleInv, NEW p \in Processes,
           \/ Launch(p) \/ StartStep(p) \/ StartFails(p) \/ Signal(p) \/ Kill(p)
           \/ \E resource \in Releasing(p) : Release(p, resource)
    PROVE  LifecycleInv'
<1>0. PICK q, steps : q \in Process /\ q = process[p] /\ steps = Startup(q.mode)
  BY DEF LifecycleInv
<1>c. Consistent(q) /\ Orderly(q.mode, steps, Releases(q.mode))
  BY <1>0, ServicesOrderly DEF LifecycleInv, Process
<1>m. q.mode \in Services /\ Len(steps) \in Nat /\ q.next \in Nat
  BY <1>0, <1>c DEF Process, Orderly
<1>1. CASE Launch(p)
  <2>1. PICK new : new = [q EXCEPT !.pc = "starting"]
    OBVIOUS
  <2>2. process' = [process EXCEPT ![p] = new] /\ q.pc = "new"
    BY <1>0, <1>1, <2>1 DEF Launch
  <2>3. /\ new.mode = q.mode /\ new.pc = "starting" /\ new.next = 1 /\ new.held = {}
        /\ new \in Process
    BY <1>0, <1>c, <2>1, <2>2 DEF Process, Consistent
  <2>4. 1 \in 1 .. Len(steps)
    BY <1>c DEF Orderly
  <2>5. Acquired(q.mode, new.next - 1) = {} /\ new.next \in 1 .. Len(steps)
    BY <2>3, <2>4 DEF Acquired
  <2>6. Consistent(new)
    BY <1>0, <2>3, <2>5 DEF Consistent
  <2>. QED
    BY <2>2, <2>3, <2>6, ProcessChanges
<1>2. CASE StartStep(p)
  <2>1. PICK held : held = q.held \cup ({steps[q.next]} \ {Check})
    OBVIOUS
  <2>2. PICK pc : pc = IF q.next = Len(steps) THEN "running" ELSE "starting"
    OBVIOUS
  <2>3. PICK new : new = [q EXCEPT !.held = held, !.next = q.next + 1, !.pc = pc]
    OBVIOUS
  <2>4. process' = [process EXCEPT ![p] = new] /\ q.pc = "starting"
    BY <1>0, <1>2, <2>1, <2>2, <2>3 DEF StartStep
  <2>5. q.next \in 1 .. Len(steps) /\ q.held = Acquired(q.mode, q.next - 1)
    BY <1>0, <1>c, <2>4 DEF Consistent
  <2>6. 1 .. q.next = (1 .. q.next - 1) \cup {q.next}
    BY <1>m, <2>5
  <2>7. held = Acquired(q.mode, q.next)
    BY <1>0, <2>1, <2>5, <2>6 DEF Acquired
  <2>8. q.next \in Nat /\ q.next <= Len(steps) /\ q.next > 0
    BY <1>m, <2>5
  <2>9. /\ held \subseteq Acquired(q.mode, Len(steps)) /\ held \subseteq Resources /\ held # {}
        /\ \A resource \in held : Uses(q.mode, resource) \subseteq held
    BY <1>0, <1>m, <2>7, <2>8, AcquiredClosed
  <2>. pc \in {"starting", "running"} /\ q.next + 1 \in Nat
    BY <1>m, <2>2
  <2>10. /\ new.mode = q.mode /\ new.pc = pc /\ new.next = q.next + 1 /\ new.held = held
         /\ new \in Process
    BY <1>0, <1>m, <2>3, <2>9 DEF Process
  <2>11. pc = "starting" => /\ new.next \in 1 .. Len(steps)
                            /\ held = Acquired(q.mode, new.next - 1)
    <3>1. new.next - 1 = q.next
      BY <2>8, <2>10
    <3>2. pc = "starting" => q.next # Len(steps)
      BY <2>2
    <3>. QED
      BY <1>m, <2>7, <2>8, <2>10, <3>1, <3>2
  <2>12. pc # "new"
    BY <2>2
  <2>13. Consistent(new)
    BY <1>0, <2>9, <2>10, <2>11, <2>12 DEF Consistent
  <2>. QED
    BY <2>4, <2>10, <2>13, ProcessChanges
<1>3. CASE StartFails(p) \/ Signal(p)
  <2>1. PICK new : new = [q EXCEPT !.pc = "stopping"]
    OBVIOUS
  <2>2. process' = [process EXCEPT ![p] = new]
    BY <1>0, <1>3, <2>1 DEF StartFails, Signal
  <2>3. /\ new.mode = q.mode /\ new.pc = "stopping" /\ new.next = q.next /\ new.held = q.held
        /\ new \in Process
    BY <1>0, <2>1 DEF Process
  <2>4. q.held # {}
    <3>1. CASE Signal(p)
      BY <1>0, <1>c, <3>1 DEF Signal, Consistent
    <3>2. CASE StartFails(p)
      <4>1. q.pc = "starting" /\ q.next > 1
        BY <1>0, <3>2 DEF StartFails
      <4>2. q.next - 1 \in Nat /\ q.next - 1 > 0 /\ q.next - 1 <= Len(steps)
        BY <1>0, <1>c, <1>m, <4>1 DEF Consistent
      <4>3. q.held = Acquired(q.mode, q.next - 1)
        BY <1>0, <1>c, <4>1 DEF Consistent
      <4>. QED
        BY <1>0, <1>m, <4>2, <4>3, AcquiredClosed
    <3>. QED
      BY <1>3, <3>1, <3>2
  <2>5. Consistent(new)
    BY <1>c, <2>3, <2>4 DEF Consistent
  <2>. QED
    BY <2>2, <2>3, <2>5, ProcessChanges
<1>4. CASE Kill(p)
  <2>1. PICK new : new = [q EXCEPT !.pc = "exited", !.held = {}]
    OBVIOUS
  <2>2. process' = [process EXCEPT ![p] = new]
    BY <1>0, <1>4, <2>1 DEF Kill
  <2>3. new.mode = q.mode /\ new.pc = "exited" /\ new.held = {} /\ new \in Process
    BY <1>0, <2>1 DEF Process
  <2>4. Consistent(new)
    BY <2>3 DEF Consistent
  <2>. QED
    BY <2>2, <2>3, <2>4, ProcessChanges
<1>5. ASSUME NEW resource \in Releasing(p), Release(p, resource) PROVE LifecycleInv'
  <2>1. PICK pc : pc = IF q.held = {resource} THEN "exited" ELSE "stopping"
    OBVIOUS
  <2>2. PICK new : new = [q EXCEPT !.held = q.held \ {resource}, !.pc = pc]
    OBVIOUS
  <2>3. process' = [process EXCEPT ![p] = new] /\ q.pc = "stopping"
    BY <1>0, <1>5, <2>1, <2>2 DEF Release
  <2>4. /\ new.mode = q.mode /\ new.pc = pc /\ new.held = q.held \ {resource}
        /\ pc \in {"exited", "stopping"} /\ new \in Process
    BY <1>0, <2>1, <2>2, <2>3 DEF Process
  <2>5. resource \in q.held /\ \A user \in q.held : resource \notin Uses(q.mode, user)
    BY <1>0, ReleasedUnused
  <2>6. new.held \subseteq Acquired(q.mode, Len(steps))
    BY <1>0, <1>c, <2>4 DEF Consistent
  <2>7. \A user \in new.held : Uses(q.mode, user) \subseteq new.held
    BY <1>c, <2>4, <2>5 DEF Consistent
  <2>8. pc = "stopping" => new.held # {}
    BY <2>1, <2>4, <2>5
  <2>9. Consistent(new)
    BY <1>0, <2>4, <2>6, <2>7, <2>8 DEF Consistent
  <2>. QED
    BY <2>3, <2>4, <2>9, ProcessChanges
<1>. QED
  BY <1>1, <1>2, <1>3, <1>4, <1>5

LEMMA LifecycleInit == Init => LifecycleInv
<1>. SUFFICES ASSUME Init PROVE LifecycleInv
  OBVIOUS
<1>1. ASSUME NEW mode \in Services PROVE New(mode) \in Process /\ Consistent(New(mode))
  BY DEF New, Process, Consistent
<1>2. Running("data-plane") \in Process /\ Consistent(Running("data-plane"))
  <2>1. PICK mode, steps : mode \in Services /\ mode = "data-plane" /\ steps = Startup(mode)
    BY DEF Services
  <2>2. PICK q : q = Running(mode)
    OBVIOUS
  <2>3. Len(steps) \in Nat /\ Len(steps) > 0
    BY <2>1, ServicesOrderly DEF Orderly
  <2>4. q.held = Acquired(mode, Len(steps))
    BY <2>1, <2>2, ServicesOrderly DEF Running, Acquired, Orderly, Range
  <2>5. /\ q.held \subseteq Resources /\ q.held # {}
        /\ \A resource \in q.held : Uses(mode, resource) \subseteq q.held
    BY <2>1, <2>3, <2>4, AcquiredClosed
  <2>6. q.mode = mode /\ q.pc = "running" /\ q \in Process
    BY <2>1, <2>2, <2>3, <2>5 DEF Running, Process
  <2>. QED
    BY <2>1, <2>2, <2>4, <2>5, <2>6 DEF Consistent
<1>3. PICK mode, q : /\ mode \in Services /\ (q = New(mode) \/ q = Running("data-plane"))
                    /\ process = [d \in Processes |-> q]
  BY LifecycleConstants DEF Init, Deployments, Services
<1>. QED
  BY <1>1, <1>2, <1>3 DEF LifecycleInv

LEMMA LifecycleNext == LifecycleInv /\ [Next]_vars => LifecycleInv'
<1>. SUFFICES ASSUME LifecycleInv, [Next]_vars PROVE LifecycleInv'
  OBVIOUS
<1>1. CASE UNCHANGED process
  BY <1>1 DEF LifecycleInv
<1>2. ASSUME NEW d \in Deployments, Deploy(d) \/ Starting(d) \/ Retire(d) \/ Stopping(d) \/ Crash(d)
      PROVE  LifecycleInv'
  BY <1>2, ProcessStep DEF Deployments, Deploy, Starting, Retire, Stopping, Crash
<1>3. ASSUME NEW d \in Deployments,
             \/ Shift(d) \/ PollDeployment(d)
             \/ \E until \in clock + 1 .. MaxTime : Extend(d, until)
      PROVE  UNCHANGED process
  BY <1>3 DEF Shift, PollDeployment, Extend
<1>4. ASSUME NEW t \in Tunnels, Open(t) \/ Close(t) \/ Expire(t) PROVE UNCHANGED process
  BY <1>4 DEF Open, Close, Expire
<1>5. ASSUME NEW r \in Runs, Coordinating(r) PROVE UNCHANGED process
  BY <1>5 DEF Coordinating, BeginRun, ReadDrain, SaveDrain, Notify
<1>6. Tick \/ UNCHANGED vars => UNCHANGED process
  BY DEF Tick, vars
<1>. QED
  BY <1>1, <1>2, <1>3, <1>4, <1>5, <1>6 DEF Next

\* Whatever service a process runs, wherever its start fails and whenever a signal comes,
\* it releases everything, and nothing before what uses it.
THEOREM ShutdownsOrderly == Spec => []OrderlyShutdown
<1>1. LifecycleInv => OrderlyShutdown
  BY SomethingReleased DEF LifecycleInv, Consistent, OrderlyShutdown
<1>2. LifecycleInv /\ [Next]_vars => LifecycleInv'
  BY LifecycleNext
<1>. QED
  BY <1>1, <1>2, LifecycleInit, PTL DEF Spec

----------------------------------------------------------------------------
(* KillSwitch: sequences of calls                                            *)

\* The sequences a plan is put together from.
LEMMA Concatenated ==
    ASSUME NEW S, NEW s \in Seq(S), NEW t \in Seq(S)
    PROVE  s \o t \in Seq(S)
OBVIOUS

\* What FlattenSeq computes, as the equation of its recursive function.
LEMMA FlattenSequences ==
    ASSUME NEW S, NEW seqs \in Seq(Seq(S))
    PROVE  FlattenSeq(seqs) \in Seq(S)
<1> DEFINE n == Len(seqs)
           Step(f, i) == IF i = 1 THEN seqs[i] ELSE f[i - 1] \o seqs[i]
<1>1. CASE n = 0
  <2>1. seqs = <<>>
    BY <1>1
  <2>2. <<>> \in Seq(S)
    OBVIOUS
  <2>3. FlattenSeq(seqs) = seqs
    BY <1>1 DEF FlattenSeq
  <2>4. QED
    BY <2>1, <2>2, <2>3
<1>2. CASE n # 0
  <2>1. n \in Nat \ {0} /\ \A i \in 1 .. n : seqs[i] \in Seq(S)
    BY <1>2
  <2>2. ASSUME NEW m \in 1 .. n, ~\E f \in [1 .. m -> Seq(S)] : \A i \in 1 .. m : f[i] = Step(f, i)
        PROVE  FALSE
    <3> DEFINE Bad == {k \in 1 .. n : ~\E f \in [1 .. k -> Seq(S)] : \A i \in 1 .. k : f[i] = Step(f, i)}
    <3>1. Bad \in SUBSET Nat
      BY <2>1
    <3>2. PICK k \in Bad : \A y \in Bad : k <= y
      <4>1. m \in Bad
        BY <2>2, Zenon
      <4> HIDE DEF Bad
      <4>2. QED
        BY <3>1, <4>1, LeastExists
    <3>3. CASE k = 1
      <4>1. PICK f : f = [i \in 1 .. 1 |-> seqs[1]]
        OBVIOUS
      <4>2. f \in [1 .. 1 -> Seq(S)] /\ \A i \in 1 .. 1 : f[i] = Step(f, i)
        BY <4>1, <2>1
      <4>3. QED
        BY <3>3, <4>2
    <3>4. CASE k # 1
      <4>1. k - 1 \in 1 .. n /\ k \in 1 .. n /\ k - 1 \notin Bad
        <5>1. k \in 1 .. n /\ k - 1 \in 1 .. n /\ ~(k <= k - 1)
          BY <2>1, <3>4
        <5>2. QED
          BY <3>2, <5>1
      <4>2. PICK f \in [1 .. (k - 1) -> Seq(S)] : \A i \in 1 .. (k - 1) : f[i] = Step(f, i)
        BY <4>1
      <4>3. PICK g : g = [i \in 1 .. k |-> IF i = k THEN f[k - 1] \o seqs[k] ELSE f[i]]
        OBVIOUS
      <4>4. f[k - 1] \o seqs[k] \in Seq(S)
        <5>1. k - 1 \in 1 .. (k - 1) /\ seqs[k] \in Seq(S)
          BY <2>1, <4>1
        <5>2. f[k - 1] \in Seq(S)
          BY <5>1
        <5>3. QED
          BY ONLY <5>1, <5>2, Concatenated
      <4>5. ASSUME NEW i \in 1 .. k PROVE g[i] \in Seq(S) /\ g[i] = Step(g, i)
        <5>1. CASE i = k
          <6>1. i - 1 \in 1 .. k /\ i - 1 # k /\ i # 1
            BY <5>1, <3>4, <4>1
          <6>2. g[i] = f[k - 1] \o seqs[k] /\ g[i - 1] = f[i - 1]
            BY <4>3, <5>1, <6>1
          <6>3. QED
            BY <4>4, <5>1, <6>1, <6>2
        <5>2. CASE i # k
          <6>1. i \in 1 .. (k - 1) /\ (i # 1 => i - 1 \in 1 .. (k - 1) /\ i - 1 \in 1 .. k /\ i - 1 # k)
            BY <5>2, <4>1
          <6>2. g[i] = f[i] /\ (i # 1 => g[i - 1] = f[i - 1])
            BY <4>3, <5>2, <6>1
          <6>3. f[i] = Step(f, i) /\ f[i] \in Seq(S)
            BY <4>2, <6>1
          <6>4. QED
            BY <6>2, <6>3
        <5>3. QED
          BY <5>1, <5>2
      <4>6. g \in [1 .. k -> Seq(S)]
        BY <4>3, <4>5
      <4>7. QED
        BY <4>1, <4>5, <4>6
    <3>5. QED
      BY <3>3, <3>4
  <2>3. PICK f \in [1 .. n -> Seq(S)] : \A i \in 1 .. n : f[i] = Step(f, i)
    <3>1. n \in 1 .. n
      BY <2>1
    <3>2. QED
      BY <3>1, <2>2
  <2>4. f = [i \in 1 .. n |-> Step(f, i)]
    BY <2>3
  <2>5. PICK flatten : /\ flatten = CHOOSE h : h = [i \in 1 .. n |-> Step(h, i)]
                       /\ FlattenSeq(seqs) = flatten[n]
    BY <1>2 DEF FlattenSeq
  <2>6. flatten = [i \in 1 .. n |-> Step(flatten, i)]
    BY <2>4, <2>5
  <2>7. ASSUME NEW m \in 1 .. n, flatten[m] \notin Seq(S) PROVE FALSE
    <3> DEFINE Bad == {k \in 1 .. n : flatten[k] \notin Seq(S)}
    <3>1. Bad \in SUBSET Nat /\ m \in Bad
      BY <2>1, <2>7
    <3>2. PICK k \in Bad : \A y \in Bad : k <= y
      <4> HIDE DEF Bad
      <4> QED
        BY <3>1, LeastExists
    <3>3. k \in 1 .. n /\ flatten[k] = Step(flatten, k)
      BY <2>6
    <3>4. CASE k = 1
      BY <2>1, <3>3, <3>4
    <3>5. CASE k # 1
      <4>1. k - 1 \in 1 .. n /\ ~(k <= k - 1)
        BY <2>1, <3>3, <3>5
      <4>2. flatten[k - 1] \in Seq(S)
        BY <3>2, <4>1
      <4>3. seqs[k] \in Seq(S) /\ flatten[k] = flatten[k - 1] \o seqs[k]
        BY <2>1, <3>3, <3>5
      <4>4. flatten[k] \in Seq(S)
        BY ONLY <4>2, <4>3, Concatenated
      <4>5. QED
        BY <4>4
    <3>6. QED
      BY <3>4, <3>5
  <2>8. QED
    <3>1. n \in 1 .. n
      BY <2>1
    <3>2. QED
      BY <2>5, <2>7, <3>1
<1>3. QED
  BY <1>1, <1>2

----------------------------------------------------------------------------
(* The plans of the control plane                                            *)

\* A scope that is to be terminated when the scopes in F are: with a grant its sessions,
\* with the profile everything.
Asked(s, F) == s \in F \/ Route \in F \/ \E g \in Grants \cap F : s \in ToSet(SessionsOf[g])

LEMMA AskedStays ==
    ASSUME NEW F, NEW G, F \subseteq G, NEW s, Asked(s, F)
    PROVE  Asked(s, G)
BY DEF Asked

\* A connection that such a scope authorizes is authorized by one of F as well.
LEMMA AskedReaches ==
    ASSUME NEW F, NEW c \in Connections, NEW s \in ScopesOf[c], Asked(s, F)
    PROVE  ScopesOf[c] \cap F # {}
BY KillSwitchConstants DEF Asked

\* The calls that end no connection, except those of the scopes in F.
Sparing(F) ==
    {call \in Calls : call.force \/ call.do = "notify" => Asked(call.scope, F)}

\* The values of a request in flight, of a connection and of a poll, as in SwitchTypeOK.
RequestsLeft == [todo : Seq(Calls), phase : {"read", "put", "bump"}, seen : BOOLEAN]
ConnectionStates == [pc : {"idle", "admitted", "live", "closing"}, before : SUBSET Connections]
Polls == [pc : {"idle", "epoch", "checking"}, epoch : Nat, checks : SUBSET Connections, untilCheck : Nat]

USE DEF RequestsLeft, ConnectionStates, Polls

\* A request that a control-plane process is executing, with nothing but such calls left and
\* no other termination read.
Spares(request, F) ==
    /\ request \in RequestsLeft
    /\ request.todo \in Seq(Sparing(F))
    /\ request.seen => request.todo # <<>> /\ Asked(Head(request.todo).scope, F)

LEMMA CallsSpare ==
    ASSUME NEW F, NEW s \in Scopes, NEW force \in BOOLEAN, force => Asked(s, F)
    PROVE  /\ Write(s, force) \in Sparing(F) /\ CloseSession(s, force) \in Sparing(F)
           /\ Bump \in Sparing(F)
           /\ force => NotifyOf(s) \in Sparing(F)
<1>1. Route \in Scopes
  BY DEF Scopes
<1>2. Write(s, force) \in Calls /\ CloseSession(s, force) \in Calls /\ Bump \in Calls /\ NotifyOf(s) \in Calls
  BY <1>1 DEF Calls, Write, CloseSession, Bump, NotifyOf
<1>3. QED
  BY <1>2 DEF Sparing, Write, CloseSession, Bump, NotifyOf

LEMMA ScopesKnown ==
    /\ \A g \in Grants : g \in Scopes /\ SessionsOf[g] \in Seq(Sessions)
    /\ \A s \in Sessions : s \in Scopes
    /\ Route \in Scopes
    /\ \A i \in DOMAIN GrantList : GrantList[i] \in Grants
BY KillSwitchConstants DEF Scopes

LEMMA RevokeGrantSpares ==
    ASSUME NEW F, NEW g \in Grants, NEW force \in BOOLEAN, force => g \in F \/ Route \in F
    PROVE  RevokeGrant(g, force) \in Seq(Sparing(F))
<1>1. PICK closes : closes = [i \in DOMAIN SessionsOf[g] |-> CloseSession(SessionsOf[g][i], force)]
  OBVIOUS
<1>2. SessionsOf[g] \in Seq(Sessions)
  BY ScopesKnown
<1>3. \A i \in DOMAIN SessionsOf[g] : SessionsOf[g][i] \in Scopes
  BY <1>2, ScopesKnown
<1>4. closes \in Seq(Sparing(F))
  <2>1. ASSUME NEW i \in DOMAIN SessionsOf[g] PROVE closes[i] \in Sparing(F)
    <3>1. closes[i] = CloseSession(SessionsOf[g][i], force) /\ SessionsOf[g][i] \in ToSet(SessionsOf[g])
      BY <1>1 DEF ToSet
    <3>2. force => Asked(SessionsOf[g][i], F)
      BY <3>1 DEF Asked
    <3>3. QED
      BY <1>3, <3>1, <3>2, CallsSpare
  <2>2. DOMAIN SessionsOf[g] = 1 .. Len(SessionsOf[g]) /\ Len(SessionsOf[g]) \in Nat
    BY <1>2
  <2>3. closes \in [1 .. Len(SessionsOf[g]) -> Sparing(F)]
    BY <1>1, <2>1, <2>2
  <2>4. QED
    BY <2>2, <2>3, SeqDef
<1>5. Write(g, force) \in Sparing(F) /\ Bump \in Sparing(F)
  BY ScopesKnown, CallsSpare DEF Asked
<1>6. <<Write(g, force)>> \in Seq(Sparing(F)) /\ <<Bump>> \in Seq(Sparing(F))
  BY <1>5
<1>7. <<Write(g, force)>> \o closes \in Seq(Sparing(F))
  BY ONLY <1>4, <1>6, Concatenated
<1>8. (<<Write(g, force)>> \o closes) \o <<Bump>> \in Seq(Sparing(F))
  BY ONLY <1>6, <1>7, Concatenated
<1>9. QED
  BY <1>1, <1>8 DEF RevokeGrant

LEMMA RevokeListedSpares ==
    ASSUME NEW F, NEW force \in BOOLEAN, force => Route \in F
    PROVE  RevokeListed(force) \in Seq(Sparing(F))
<1>1. PICK plans : plans = [i \in DOMAIN GrantList |->
                              IF GrantList[i] \in revoked THEN <<>>
                              ELSE RevokeGrant(GrantList[i], force)
                                     \o (IF force THEN <<NotifyOf(GrantList[i])>> ELSE <<>>)]
  OBVIOUS
<1>2. ASSUME NEW i \in DOMAIN GrantList PROVE plans[i] \in Seq(Sparing(F))
  <2>1. GrantList[i] \in Grants /\ GrantList[i] \in Scopes
    BY ScopesKnown
  <2>2. RevokeGrant(GrantList[i], force) \in Seq(Sparing(F))
    BY <2>1, RevokeGrantSpares
  <2>3. PICK last : last = IF force THEN <<NotifyOf(GrantList[i])>> ELSE <<>>
    OBVIOUS
  <2>4. force => NotifyOf(GrantList[i]) \in Sparing(F)
    BY <2>1, CallsSpare DEF Asked
  <2>5. last \in Seq(Sparing(F))
    BY <2>3, <2>4
  <2>6. RevokeGrant(GrantList[i], force) \o last \in Seq(Sparing(F))
    BY ONLY <2>2, <2>5, Concatenated
  <2>7. <<>> \in Seq(Sparing(F))
    OBVIOUS
  <2>8. plans[i] = IF GrantList[i] \in revoked THEN <<>> ELSE RevokeGrant(GrantList[i], force) \o last
    BY <1>1, <2>3
  <2>9. QED
    BY <2>6, <2>7, <2>8
<1>3. GrantList \in Seq(Grants)
  BY KillSwitchConstants
<1>4. DOMAIN GrantList = 1 .. Len(GrantList) /\ Len(GrantList) \in Nat
  BY <1>3
<1>5. plans \in [1 .. Len(GrantList) -> Seq(Sparing(F))]
  BY <1>1, <1>2, <1>4
<1>6. plans \in Seq(Seq(Sparing(F)))
  BY <1>4, <1>5, SeqDef
<1>7. FlattenSeq(plans) \in Seq(Sparing(F))
  BY <1>6, FlattenSequences
<1>8. QED
  BY <1>1, <1>7 DEF RevokeListed

\* An operation ends no connection, except by what it was asked to terminate.
LEMMA PlanSpares ==
    ASSUME NEW F, NEW a \in Admins, NEW operation \in Operations[a], NEW s \in Targets(operation),
           operation \in Forcing => s \in F
    PROVE  Plan(operation, s) \in Seq(Sparing(F))
<1>1. operation \in {"close", "force_close", "revoke_grant", "force_revoke_grant",
                     "delete", "emergency_revoke"}
  BY KillSwitchConstants
<1>2. CASE operation = "close"
  <2>1. s \in Scopes
    BY <1>2, ScopesKnown DEF Targets
  <2>2. PICK call : call = CloseSession(s, FALSE)
    OBVIOUS
  <2>3. call \in Sparing(F)
    BY <2>1, <2>2, CallsSpare
  <2>4. <<call>> \in Seq(Sparing(F))
    BY <2>3
  <2>5. QED
    BY <1>2, <2>2, <2>4 DEF Plan
<1>3. CASE operation = "force_close"
  <2>1. s \in Scopes
    BY <1>3, ScopesKnown DEF Targets
  <2>2. PICK call, notice : call = CloseSession(s, TRUE) /\ notice = NotifyOf(s)
    OBVIOUS
  <2>3. call \in Sparing(F) /\ notice \in Sparing(F)
    BY <1>3, <2>1, <2>2, CallsSpare DEF Asked, Forcing
  <2>4. <<call, notice>> \in Seq(Sparing(F))
    BY <2>3
  <2>5. QED
    BY <1>3, <2>2, <2>4 DEF Plan
<1>4. CASE operation = "revoke_grant"
  <2>1. s \in Grants
    BY <1>4 DEF Targets
  <2>2. QED
    BY <1>4, <2>1, RevokeGrantSpares DEF Plan
<1>5. ASSUME NEW force \in BOOLEAN, force => Route \in F
      PROVE  RevokeListed(force) \o RevokeRoute(force) \in Seq(Sparing(F))
  <2>1. RevokeListed(force) \in Seq(Sparing(F))
    BY <1>5, RevokeListedSpares
  <2>2. Write(Route, force) \in Sparing(F) /\ Bump \in Sparing(F)
    BY <1>5, ScopesKnown, CallsSpare DEF Asked
  <2>3. RevokeRoute(force) \in Seq(Sparing(F))
    BY <2>2 DEF RevokeRoute
  <2>4. QED
    BY ONLY <2>1, <2>3, Concatenated
<1>6. CASE operation = "delete"
  <2>1. Plan(operation, s) = RevokeListed(FALSE) \o RevokeRoute(FALSE)
    BY <1>6 DEF Plan
  <2>2. QED
    BY <1>5, <2>1
<1>7. CASE operation = "emergency_revoke"
  <2>1. s = Route /\ Route \in F
    BY <1>7 DEF Targets, Forcing
  <2>2. Plan(operation, s) = (RevokeListed(TRUE) \o RevokeRoute(TRUE)) \o <<NotifyOf(Route)>>
    BY <1>7 DEF Plan
  <2>3. NotifyOf(Route) \in Sparing(F)
    BY <2>1, ScopesKnown, CallsSpare DEF Asked
  <2>4. <<NotifyOf(Route)>> \in Seq(Sparing(F))
    BY <2>3
  <2>5. RevokeListed(TRUE) \o RevokeRoute(TRUE) \in Seq(Sparing(F))
    BY <1>5, <2>1
  <2>6. (RevokeListed(TRUE) \o RevokeRoute(TRUE)) \o <<NotifyOf(Route)>> \in Seq(Sparing(F))
    BY ONLY <2>4, <2>5, Concatenated
  <2>7. QED
    BY <2>2, <2>6
<1>8. CASE operation = "force_revoke_grant"
  <2>1. s \in Grants /\ s \in F /\ s \in Scopes
    BY <1>8, ScopesKnown DEF Targets, Forcing
  <2>2. Plan(operation, s) = RevokeGrant(s, TRUE) \o <<NotifyOf(s)>>
    BY <1>8 DEF Plan
  <2>3. RevokeGrant(s, TRUE) \in Seq(Sparing(F))
    BY <2>1, RevokeGrantSpares
  <2>4. NotifyOf(s) \in Sparing(F)
    BY <2>1, CallsSpare DEF Asked
  <2>5. <<NotifyOf(s)>> \in Seq(Sparing(F))
    BY <2>4
  <2>6. RevokeGrant(s, TRUE) \o <<NotifyOf(s)>> \in Seq(Sparing(F))
    BY ONLY <2>3, <2>5, Concatenated
  <2>7. QED
    BY <2>2, <2>6
<1>9. QED
  BY <1>1, <1>2, <1>3, <1>4, <1>6, <1>7, <1>8

----------------------------------------------------------------------------
(* Why connections end                                                       *)

SwitchInv ==
    /\ SwitchTypeOK
    /\ \A s \in terminate : Asked(s, forced)
    /\ \A a \in Admins : Spares(admin[a], forced)
    /\ RoutineRevocationDrains

\* A request keeps to its plan when more is asked for.
LEMMA SparesStays ==
    ASSUME NEW F, NEW G, F \subseteq G, NEW request, Spares(request, F)
    PROVE  Spares(request, G)
<1>1. Sparing(F) \subseteq Sparing(G)
  BY AskedStays DEF Sparing
<1>2. request.todo \in Seq(Sparing(F))
  BY DEF Spares
<1>3. request.todo \in Seq(Sparing(G))
  BY <1>1, <1>2
<1>4. QED
  BY <1>3, AskedStays DEF Spares

\* A call that is next, and what is left after it.
LEMMA NextCall ==
    ASSUME NEW F, NEW request, Spares(request, F), request.todo # <<>>
    PROVE  /\ Head(request.todo) \in Sparing(F) /\ Head(request.todo) \in Calls
           /\ Head(request.todo).scope \in Scopes /\ Head(request.todo).force \in BOOLEAN
           /\ Spares([NoRequest EXCEPT !.todo = Tail(request.todo)], F)
<1>1. request.todo \in Seq(Sparing(F)) /\ request.todo \in Seq(Calls)
  BY DEF Spares
<1>2. Head(request.todo) \in Sparing(F) /\ Head(request.todo) \in Calls
  BY <1>1
<1>3. Tail(request.todo) \in Seq(Sparing(F)) /\ Tail(request.todo) \in Seq(Calls)
  BY <1>1
<1>4. PICK r : r = [NoRequest EXCEPT !.todo = Tail(request.todo)]
  OBVIOUS
<1>5. Spares(r, F)
  BY <1>3, <1>4 DEF Spares, NoRequest
<1>6. QED
  BY <1>2, <1>4, <1>5 DEF Calls

LEMMA NoneSpares == ASSUME NEW F PROVE Spares(NoRequest, F)
<1>1. <<>> \in Seq(Sparing(F)) /\ <<>> \in Seq(Calls)
  OBVIOUS
<1>2. QED
  BY <1>1 DEF Spares, NoRequest

\* What a request may do to the requests.
LEMMA RequestChanged ==
    ASSUME SwitchInv, NEW a \in Admins, NEW request, admin' = [admin EXCEPT ![a] = request],
           NEW F, forced \subseteq F, Spares(request, F)
    PROVE  /\ admin' \in [Admins -> RequestsLeft]
           /\ \A b \in Admins : Spares(admin'[b], F)
<1>1. admin \in [Admins -> RequestsLeft]
  BY DEF SwitchInv, SwitchTypeOK
<1>2. ASSUME NEW b \in Admins PROVE Spares(admin'[b], F)
  <2>1. CASE b = a
    BY <1>1, <2>1
  <2>2. CASE b # a
    <3>1. admin'[b] = admin[b] /\ Spares(admin[b], forced)
      BY <1>1, <2>2 DEF SwitchInv
    <3>2. QED
      BY <3>1, SparesStays
  <2>3. QED
    BY <2>1, <2>2
<1>3. QED
  BY <1>1, <1>2 DEF Spares

\* What terminate() leaves, if there is a reason for each connection that it ends.
LEMMA Terminated ==
    ASSUME SwitchInv, NEW targets, Terminate(targets),
           \A c \in targets \cap Connections :
               ScopesOf[c] \cap forced # {} \/ terminateRemaining \/ "poll_error" \in failed',
           UNCHANGED <<forced, terminateRemaining>>, failed \subseteq failed'
    PROVE  /\ conn' \in [Connections -> ConnectionStates]
           /\ RoutineRevocationDrains'
<1>1. conn \in [Connections -> ConnectionStates]
  BY DEF SwitchInv, SwitchTypeOK
<1>2. ASSUME NEW c \in Connections
      PROVE  /\ conn'[c] \in ConnectionStates
             /\ conn'[c].pc = "closing" => conn[c].pc = "closing" \/ c \in targets
  <2>1. conn[c] \in ConnectionStates
    BY <1>1
  <2>2. PICK closing : closing = [conn[c] EXCEPT !.pc = "closing"]
    OBVIOUS
  <2>3. conn'[c] = IF c \in targets /\ conn[c].pc = "live" THEN closing ELSE conn[c]
    BY <2>2 DEF Terminate
  <2>4. QED
    BY <2>1, <2>2, <2>3
<1>3. conn' \in [Connections -> ConnectionStates]
  BY <1>2 DEF Terminate
<1>4. ASSUME NEW c \in Connections, conn'[c].pc = "closing"
      PROVE  ScopesOf[c] \cap forced' # {} \/ terminateRemaining' \/ "poll_error" \in failed'
  BY <1>2, <1>4 DEF SwitchInv, RoutineRevocationDrains
<1>5. QED
  BY <1>3, <1>4 DEF RoutineRevocationDrains

\* One lemma per action, or group of actions of the same shape.
LEMMA BeginSpares ==
    ASSUME SwitchInv, NEW a \in Admins, NEW operation \in Operations[a], NEW s \in Targets(operation),
           Begin(a, operation, s)
    PROVE  SwitchInv'
<1>1. PICK request : request = [NoRequest EXCEPT !.todo = Plan(operation, s)]
  OBVIOUS
<1>2. forced \subseteq forced' /\ forced' \subseteq Scopes
  <2>1. s \in Scopes
    BY KillSwitchConstants, ScopesKnown DEF Targets
  <2>2. QED
    BY <2>1 DEF Begin, SwitchInv, SwitchTypeOK
<1>3. Plan(operation, s) \in Seq(Sparing(forced'))
  <2>1. operation \in Forcing => s \in forced'
    BY DEF Begin
  <2>2. QED
    BY <2>1, PlanSpares
<1>4. Spares(request, forced')
  <2>1. Plan(operation, s) \in Seq(Calls)
    <3>1. Sparing(forced') \subseteq Calls
      BY DEF Sparing
    <3>2. QED
      BY <1>3, <3>1
  <2>2. request.todo = Plan(operation, s) /\ request.phase = "read" /\ request.seen = FALSE
    BY <1>1 DEF NoRequest
  <2>3. request \in RequestsLeft
    BY <1>1, <2>1 DEF NoRequest
  <2>4. QED
    BY <1>3, <2>2, <2>3 DEF Spares
<1>5. admin' = [admin EXCEPT ![a] = request]
  BY <1>1 DEF Begin
<1>6. /\ admin' \in [Admins -> RequestsLeft]
      /\ \A b \in Admins : Spares(admin'[b], forced')
  BY <1>2, <1>4, <1>5, RequestChanged
<1>7. started' \in 0 .. MaxOperations
  BY KillSwitchConstants DEF Begin, SwitchInv, SwitchTypeOK
<1>8. SwitchTypeOK'
  BY <1>2, <1>6, <1>7 DEF Begin, SwitchInv, SwitchTypeOK, store, tracker
<1>9. (\A x \in terminate : Asked(x, forced))'
  <2>1. \A x \in terminate : Asked(x, forced')
    BY <1>2, AskedStays DEF SwitchInv
  <2>2. QED
    BY <2>1 DEF Begin, store, Asked
<1>10. RoutineRevocationDrains'
  BY <1>2 DEF Begin, SwitchInv, RoutineRevocationDrains
<1>11. QED
  BY <1>6, <1>8, <1>9, <1>10 DEF SwitchInv

\* A mark is set for a scope that was to be terminated, and owes what it should.
LEMMA Marked ==
    ASSUME SwitchInv, NEW s \in Scopes, NEW flag \in BOOLEAN, Mark(s, flag), UNCHANGED forced,
           flag => Asked(s, forced)
    PROVE  /\ revoked' \subseteq Scopes /\ terminate' \subseteq Scopes /\ owed' \subseteq Connections
           /\ (\A x \in terminate : Asked(x, forced))'
<1>1. Representatives \subseteq Connections
  BY DEF Representatives, Tracked
<1>2. QED
  BY <1>1 DEF Mark, SwitchInv, SwitchTypeOK

\* A request goes on with what it read, wrote or skipped.
LEMMA AdminSpares ==
    ASSUME SwitchInv, NEW a \in Admins, WriteScope(a) \/ ReadSession(a) \/ PutSession(a) \/ BumpEpoch(a) \/ AdminCrash(a)
    PROVE  SwitchInv'
<1>1. PICK call : call = Head(admin[a].todo)
  OBVIOUS
<1>2. Spares(admin[a], forced) /\ admin[a] \in RequestsLeft
  BY DEF SwitchInv, Spares
<1>3. admin[a].todo # <<>>
  BY DEF WriteScope, ReadSession, PutSession, BumpEpoch, AdminCrash, Calling
<1>4. /\ call \in Sparing(forced) /\ call.scope \in Scopes /\ call.force \in BOOLEAN
      /\ Spares([NoRequest EXCEPT !.todo = Tail(admin[a].todo)], forced)
  BY <1>1, <1>2, <1>3, NextCall
<1>5. call.force => Asked(call.scope, forced)
  BY <1>4 DEF Sparing
<1>6. PICK rest : rest = [NoRequest EXCEPT !.todo = Tail(admin[a].todo)]
  OBVIOUS
<1>7. Spares(rest, forced) /\ Spares(NoRequest, forced)
  BY <1>4, <1>6, NoneSpares
<1>8. /\ UNCHANGED <<started, terminateRemaining, conn, tracker, forced>> /\ failed \subseteq failed'
      /\ failed' \subseteq Faults /\ epoch' \in Nat
  BY DEF WriteScope, ReadSession, PutSession, BumpEpoch, AdminCrash, history, store, SwitchInv, SwitchTypeOK
<1>9. RoutineRevocationDrains'
  BY <1>8 DEF SwitchInv, RoutineRevocationDrains
<1>10. ASSUME NEW request, Spares(request, forced), admin' = [admin EXCEPT ![a] = request],
              revoked' \subseteq Scopes, terminate' \subseteq Scopes, owed' \subseteq Connections,
              (\A x \in terminate : Asked(x, forced))'
       PROVE  SwitchInv'
  <2>1. /\ admin' \in [Admins -> RequestsLeft]
        /\ \A b \in Admins : Spares(admin'[b], forced)
    BY <1>10, RequestChanged
  <2>2. SwitchTypeOK'
    BY <1>8, <1>10, <2>1 DEF SwitchInv, SwitchTypeOK, tracker
  <2>3. QED
    BY <1>8, <1>9, <1>10, <2>1, <2>2 DEF SwitchInv
<1>11. ASSUME UNCHANGED <<revoked, terminate, owed>>
       PROVE  /\ revoked' \subseteq Scopes /\ terminate' \subseteq Scopes /\ owed' \subseteq Connections
              /\ (\A x \in terminate : Asked(x, forced))'
  BY <1>8, <1>11 DEF SwitchInv, SwitchTypeOK
<1>12. CASE WriteScope(a)
  <2>1. CASE call.scope = Route /\ ~call.force /\ Route \in revoked
    <3>1. admin' = [admin EXCEPT ![a] = NoRequest] /\ UNCHANGED <<revoked, terminate, owed>>
      BY <1>1, <1>12, <2>1 DEF WriteScope
    <3>2. QED
      BY <1>7, <1>10, <1>11, <3>1
  <2>2. CASE ~(call.scope = Route /\ ~call.force /\ Route \in revoked)
    <3>1. Mark(call.scope, call.force) /\ admin' = [admin EXCEPT ![a] = rest]
      BY <1>1, <1>6, <1>12, <2>2 DEF WriteScope, CallDone
    <3>2. /\ revoked' \subseteq Scopes /\ terminate' \subseteq Scopes /\ owed' \subseteq Connections
          /\ (\A x \in terminate : Asked(x, forced))'
      BY <1>4, <1>5, <1>8, <3>1, Marked
    <3>3. QED
      BY <1>7, <1>10, <3>1, <3>2
  <2>3. QED
    BY <2>1, <2>2
<1>13. CASE ReadSession(a)
  <2>1. UNCHANGED <<revoked, terminate, owed>>
    BY <1>13 DEF ReadSession, store, history
  <2>2. CASE admin' = [admin EXCEPT ![a] = rest]
    BY <1>7, <1>10, <1>11, <2>1, <2>2
  <2>3. PICK seen \in BOOLEAN : seen = (call.scope \in terminate)
    <3>1. (call.scope \in terminate) \in BOOLEAN
      OBVIOUS
    <3>2. QED
      BY <3>1, Zenon
  <2>4. CASE admin' = [admin EXCEPT ![a].phase = "put", ![a].seen = seen]
    <3>1. PICK request : request = [admin[a] EXCEPT !.phase = "put", !.seen = seen]
      OBVIOUS
    <3>2. admin' = [admin EXCEPT ![a] = request]
      BY <2>4, <3>1 DEF SwitchInv, SwitchTypeOK
    <3>3. seen \in BOOLEAN /\ (seen => Asked(call.scope, forced))
      <4>1. call.scope \in terminate => Asked(call.scope, forced)
        BY DEF SwitchInv
      <4>2. QED
        BY <2>3, <4>1
    <3>4. request \in RequestsLeft
          /\ request.todo = admin[a].todo /\ request.seen = seen
      BY <1>2, <3>1, <3>3
    <3>5. Spares(request, forced)
      BY <1>1, <1>2, <1>3, <3>3, <3>4 DEF Spares
    <3>6. QED
      BY <1>10, <1>11, <2>1, <3>2, <3>5
  <2>5. QED
    BY <1>1, <1>6, <1>13, <2>2, <2>3, <2>4 DEF ReadSession, CallDone
<1>14. CASE PutSession(a)
  <2>1. PICK request : request = [admin[a] EXCEPT !.phase = "bump"]
    OBVIOUS
  <2>2. admin' = [admin EXCEPT ![a] = request]
    BY <1>14, <2>1 DEF PutSession, SwitchInv, SwitchTypeOK
  <2>3. request \in RequestsLeft
        /\ request.todo = admin[a].todo /\ request.seen = admin[a].seen
    BY <1>2, <2>1
  <2>4. Spares(request, forced)
    BY <1>2, <2>3 DEF Spares
  <2>5. PICK flag \in BOOLEAN : flag = (admin[a].seen \/ call.force)
    BY <1>2, <1>4
  <2>6. flag => Asked(call.scope, forced)
    BY <1>1, <1>2, <1>5, <2>5 DEF Spares
  <2>7. Mark(call.scope, flag)
    BY <1>1, <1>14, <2>5 DEF PutSession
  <2>8. /\ revoked' \subseteq Scopes /\ terminate' \subseteq Scopes /\ owed' \subseteq Connections
        /\ (\A x \in terminate : Asked(x, forced))'
    BY <1>4, <1>8, <2>6, <2>7, Marked
  <2>9. QED
    BY <1>10, <2>2, <2>4, <2>8
<1>15. CASE BumpEpoch(a)
  BY <1>6, <1>7, <1>10, <1>11, <1>15 DEF BumpEpoch, CallDone, history
<1>16. CASE AdminCrash(a)
  BY <1>7, <1>10, <1>11, <1>16 DEF AdminCrash, store
<1>17. QED
  BY <1>12, <1>13, <1>14, <1>15, <1>16

\* terminateSession and its like end the connections of a scope that was to be terminated.
LEMMA NotifySpares ==
    ASSUME SwitchInv, NEW a \in Admins, NotifyTracker(a)
    PROVE  SwitchInv'
<1>1. PICK call : call = Head(admin[a].todo)
  OBVIOUS
<1>2. Spares(admin[a], forced) /\ admin[a].todo # <<>> /\ call.do = "notify"
  BY <1>1 DEF SwitchInv, NotifyTracker, Calling
<1>3. PICK rest : rest = [NoRequest EXCEPT !.todo = Tail(admin[a].todo)]
  OBVIOUS
<1>4. call \in Sparing(forced) /\ Spares(rest, forced)
  BY <1>1, <1>2, <1>3, NextCall
<1>5. Asked(call.scope, forced)
  BY <1>2, <1>4 DEF Sparing
<1>6. PICK targets : /\ Terminate(targets)
                     /\ targets \subseteq {c \in Connections : call.scope \in ScopesOf[c]}
  BY <1>1 DEF NotifyTracker
<1>7. UNCHANGED <<store, started, terminateRemaining, tracker, history>>
  BY DEF NotifyTracker
<1>8. \A c \in targets \cap Connections : ScopesOf[c] \cap forced # {}
  BY <1>5, <1>6, AskedReaches
<1>9. /\ conn' \in [Connections -> ConnectionStates]
      /\ RoutineRevocationDrains'
  BY <1>6, <1>7, <1>8, Terminated DEF history
<1>10. admin' = [admin EXCEPT ![a] = rest]
  BY <1>3 DEF NotifyTracker, CallDone
<1>11. /\ admin' \in [Admins -> RequestsLeft]
       /\ \A b \in Admins : Spares(admin'[b], forced)
  BY <1>4, <1>10, RequestChanged
<1>12. SwitchTypeOK'
  BY <1>7, <1>9, <1>11 DEF SwitchInv, SwitchTypeOK, store, tracker, history
<1>13. QED
  BY <1>7, <1>9, <1>11, <1>12 DEF SwitchInv, store, history

\* A connection is admitted, tracked, refused or over.
LEMMA ConnectionSpares ==
    ASSUME SwitchInv, NEW c \in Connections, Admit(c) \/ Track(c) \/ TrackFails(c) \/ Stop(c)
    PROVE  SwitchInv'
<1>1. conn \in [Connections -> ConnectionStates]
  BY DEF SwitchInv, SwitchTypeOK
<1>2. Tracked \subseteq Connections
  BY DEF Tracked
<1>3. ASSUME NEW d \in Connections
      PROVE  /\ conn'[d] \in ConnectionStates
             /\ conn'[d].pc = "closing" => conn[d].pc = "closing"
  <2>1. conn[d] \in ConnectionStates
    BY <1>1
  <2>2. CASE Admit(c)
    <3>1. PICK admitted : admitted = [conn[c] EXCEPT !.pc = "admitted"]
      OBVIOUS
    <3>2. conn' = [conn EXCEPT ![c] = admitted]
      BY <2>2, <3>1, <1>1 DEF Admit
    <3>3. QED
      BY <1>1, <2>1, <3>1, <3>2
  <2>3. CASE Track(c)
    BY <1>1, <1>2, <2>1, <2>3 DEF Track
  <2>4. CASE TrackFails(c)
    BY <1>1, <2>1, <2>4 DEF TrackFails, Idle
  <2>5. CASE Stop(c)
    <3>1. PICK other : other = [conn[d] EXCEPT !.before = @ \ {c}]
      OBVIOUS
    <3>2. conn'[d] = IF d = c THEN Idle ELSE other
      BY <2>5, <3>1 DEF Stop
    <3>3. QED
      BY <2>1, <3>1, <3>2 DEF Idle
  <2>6. QED
    BY <2>2, <2>3, <2>4, <2>5
<1>4. conn' \in [Connections -> ConnectionStates]
  BY <1>1, <1>3 DEF Admit, Track, TrackFails, Stop
<1>5. UNCHANGED <<store, control, tracker, forced, failed>> /\ owed' \subseteq Connections
  BY DEF Admit, Track, TrackFails, Stop, history, SwitchInv, SwitchTypeOK
<1>6. RoutineRevocationDrains'
  BY <1>3, <1>5 DEF SwitchInv, RoutineRevocationDrains, control
<1>7. SwitchTypeOK'
  BY <1>4, <1>5 DEF SwitchInv, SwitchTypeOK, store, control, tracker
<1>8. QED
  BY <1>5, <1>6, <1>7 DEF SwitchInv, store, control

\* A poll ends a connection for a mark, for the drain, or because it failed.
LEMMA PollSpares ==
    ASSUME SwitchInv, PollStep \/ PollRejects
    PROVE  SwitchInv'
<1>1. poll \in Polls
  BY DEF SwitchInv, SwitchTypeOK
<1>2. ASSUME UNCHANGED <<store, control, forced, owed>>, failed \subseteq failed', failed' \subseteq Faults,
             known' \in Nat \cup {-1},
             poll' \in Polls,
             NEW targets, Terminate(targets) \/ UNCHANGED conn,
             \A c \in targets \cap Connections :
                 ScopesOf[c] \cap forced # {} \/ terminateRemaining \/ "poll_error" \in failed'
      PROVE  SwitchInv'
  <2>1. CASE Terminate(targets)
    <3>1. /\ conn' \in [Connections -> ConnectionStates]
          /\ RoutineRevocationDrains'
      BY <1>2, <2>1, Terminated DEF control
    <3>2. SwitchTypeOK'
      BY <1>2, <3>1 DEF SwitchInv, SwitchTypeOK, store, control
    <3>3. QED
      BY <1>2, <3>1, <3>2 DEF SwitchInv, store, control
  <2>2. CASE UNCHANGED conn
    <3>1. SwitchTypeOK'
      BY <1>2, <2>2 DEF SwitchInv, SwitchTypeOK, store, control
    <3>2. RoutineRevocationDrains'
      BY <1>2, <2>2 DEF SwitchInv, RoutineRevocationDrains, control
    <3>3. QED
      BY <1>2, <3>1, <3>2 DEF SwitchInv, store, control
  <2>3. QED
    BY <1>2, <2>1, <2>2
<1>3. failed \subseteq Faults /\ known \in Nat \cup {-1} /\ epoch \in Nat
  BY DEF SwitchInv, SwitchTypeOK
<1>4. CASE PollStart
  <2>1. poll' \in Polls
    BY <1>1, <1>3, <1>4 DEF PollStart
  <2>2. UNCHANGED <<store, control, conn, known, history>>
    BY <1>4 DEF PollStart
  <2>3. QED
    BY <1>2, <1>3, <2>1, <2>2 DEF history
<1>5. CASE PollEpoch
  <2>1. Representatives \subseteq Connections
    BY DEF Representatives, Tracked
  <2>2. PICK checks \in SUBSET Connections :
            checks = IF poll.epoch = known THEN {} ELSE Representatives
    BY <2>1
  <2>3. poll' = [poll EXCEPT !.pc = "checking", !.checks = checks] /\ known' = poll.epoch
    BY <1>5, <2>2 DEF PollEpoch
  <2>4. poll' \in Polls /\ known' \in Nat
    BY <1>1, <2>2, <2>3
  <2>5. UNCHANGED <<store, control, conn, history>>
    BY <1>5 DEF PollEpoch
  <2>6. QED
    BY <1>2, <1>3, <2>4, <2>5 DEF history
<1>6. ASSUME NEW c \in Connections, PollCheck(c) PROVE SwitchInv'
  <2>1. poll' \in Polls
    BY <1>1, <1>6 DEF PollCheck
  <2>2. UNCHANGED <<store, control, known, forced, owed>>
    BY <1>6 DEF PollCheck
  <2>3. failed \subseteq failed' /\ failed' \subseteq Faults
    BY <1>3, <1>6 DEF PollCheck
  <2>4. PICK targets : /\ targets = IF ShouldTerminateActive(c) THEN {c} ELSE {}
                       /\ Terminate(targets) \/ UNCHANGED conn
    BY <1>6 DEF PollCheck
  <2>5. ShouldTerminateActive(c) => ScopesOf[c] \cap forced # {}
    BY AskedReaches DEF ShouldTerminateActive, SwitchInv
  <2>6. QED
    BY <1>2, <1>3, <2>1, <2>2, <2>3, <2>4, <2>5
<1>7. CASE PollFinish
  <2>1. PICK targets : /\ targets = IF terminateRemaining THEN Connections ELSE {}
                       /\ Terminate(targets) \/ UNCHANGED conn
    BY <1>7 DEF PollFinish
  <2>2. PICK left \in Nat : poll' = [NoPoll EXCEPT !.untilCheck = left]
    <3>1. CheckEvery \in Nat /\ poll.untilCheck \in Nat
      BY <1>1, KillSwitchConstants
    <3>2. CASE poll.untilCheck = 0
      BY <1>7, <3>1, <3>2 DEF PollFinish
    <3>3. CASE poll.untilCheck # 0
      <4>1. poll.untilCheck - 1 \in Nat
        BY <3>1, <3>3
      <4>2. QED
        BY <1>7, <3>3, <4>1 DEF PollFinish
    <3>4. QED
      BY <3>2, <3>3
  <2>3. poll' \in Polls
    BY <2>2 DEF NoPoll
  <2>4. UNCHANGED <<store, control, known, history>>
    BY <1>7 DEF PollFinish
  <2>5. QED
    BY <1>2, <1>3, <2>1, <2>3, <2>4 DEF history
<1>8. CASE PollRejects
  <2>1. PICK left \in Nat : poll' = [NoPoll EXCEPT !.untilCheck = left]
    <3>1. PICK left : /\ poll' = [NoPoll EXCEPT !.untilCheck = left]
                      /\ left = IF poll.pc = "epoch" THEN poll.untilCheck
                                ELSE IF poll.untilCheck = 0 THEN CheckEvery ELSE poll.untilCheck - 1
      BY <1>8 DEF PollRejects
    <3>2. left \in Nat
      BY <1>1, <3>1, KillSwitchConstants
    <3>3. QED
      BY <3>1, <3>2
  <2>2. poll' \in Polls
    BY <2>1 DEF NoPoll
  <2>3. UNCHANGED <<store, control, known, forced, owed>> /\ Terminate(Connections)
    BY <1>8 DEF PollRejects
  <2>4. failed \subseteq failed' /\ failed' \subseteq Faults /\ "poll_error" \in failed'
    BY <1>3, <1>8 DEF PollRejects
  <2>5. QED
    BY <1>2, <1>3, <2>2, <2>3, <2>4
<1>9. QED
  BY <1>4, <1>5, <1>6, <1>7, <1>8 DEF PollStep

LEMMA SwitchInitial == SwitchInit => SwitchInv
<1> SUFFICES ASSUME SwitchInit PROVE SwitchInv
  OBVIOUS
<1>1. Spares(NoRequest, forced)
  BY NoneSpares
<1>2. admin = [a \in Admins |-> NoRequest] /\ conn = [c \in Connections |-> Idle]
  BY DEF SwitchInit
<1>3. NoRequest \in RequestsLeft
  BY <1>1 DEF Spares
<1>4. SwitchTypeOK
  <2>1. admin \in [Admins -> RequestsLeft]
    BY <1>2, <1>3
  <2>2. conn \in [Connections -> ConnectionStates]
    BY <1>2 DEF Idle
  <2>3. poll \in Polls
    BY DEF SwitchInit, NoPoll
  <2>4. started \in 0 .. MaxOperations /\ known \in Nat \cup {-1} /\ epoch \in Nat
    BY KillSwitchConstants DEF SwitchInit
  <2>5. QED
    BY <2>1, <2>2, <2>3, <2>4 DEF SwitchInit, SwitchTypeOK
<1>5. RoutineRevocationDrains
  BY <1>2 DEF RoutineRevocationDrains, Idle
<1>6. QED
  BY <1>1, <1>2, <1>4, <1>5 DEF SwitchInv, SwitchInit

LEMMA SwitchStep == SwitchInv /\ [SwitchNext]_switchVars => SwitchInv'
<1> SUFFICES ASSUME SwitchInv, [SwitchNext]_switchVars PROVE SwitchInv'
  OBVIOUS
<1>1. CASE UNCHANGED switchVars
  <2>1. UNCHANGED <<store, control, conn, tracker, history>>
    BY <1>1 DEF switchVars
  <2>2. QED
    BY <2>1 DEF SwitchInv, SwitchTypeOK, RoutineRevocationDrains, store, control, tracker, history
<1>2. ASSUME NEW a \in Admins, NEW operation \in Operations[a], NEW s \in Targets(operation),
             Begin(a, operation, s)
      PROVE  SwitchInv'
  BY <1>2, BeginSpares
<1>3. ASSUME NEW a \in Admins, AdminStep(a) \/ AdminCrash(a) PROVE SwitchInv'
  BY <1>3, AdminSpares, NotifySpares DEF AdminStep
<1>4. CASE DrainExpires
  <2>1. UNCHANGED <<store, admin, started, conn, tracker, history>> /\ terminateRemaining' = TRUE
    BY <1>4 DEF DrainExpires
  <2>2. QED
    BY <2>1 DEF SwitchInv, SwitchTypeOK, RoutineRevocationDrains, store, tracker, history
<1>5. ASSUME NEW c \in Connections, Admit(c) \/ Track(c) \/ TrackFails(c) \/ Stop(c) PROVE SwitchInv'
  BY <1>5, ConnectionSpares
<1>6. CASE PollStep \/ PollRejects
  BY <1>6, PollSpares
<1>7. QED
  BY <1>1, <1>2, <1>3, <1>4, <1>5, <1>6 DEF SwitchNext

LEMMA SwitchInvariant == SwitchSpec => []SwitchInv
<1>1. SwitchInit => SwitchInv
  BY SwitchInitial
<1>2. SwitchInv /\ [SwitchNext]_switchVars => SwitchInv'
  BY SwitchStep
<1>3. QED
  BY <1>1, <1>2, PTL DEF SwitchSpec

\* The stored marks, the requests and the tracker keep their shapes; a request is always in
\* the middle of the calls of some operation (AccessGrantService, RouteAdministrationService).
THEOREM SwitchTypes == SwitchSpec => []SwitchTypeOK
<1>1. SwitchInv => SwitchTypeOK
  BY DEF SwitchInv
<1>2. QED
  BY <1>1, SwitchInvariant, PTL

\* Only a forced operation, an expired drain or a failed poll ends an established
\* connection; a routine close, revocation or deletion does not, whichever of them meet
\* (shouldTerminateActive, ActiveConnectionTracker.#poll).
THEOREM RoutineRevocationsDrain == SwitchSpec => []RoutineRevocationDrains
<1>1. SwitchInv => RoutineRevocationDrains
  BY DEF SwitchInv
<1>2. QED
  BY <1>1, SwitchInvariant, PTL
===============================================================================
