---------------------------- MODULE DeploymentDrain ----------------------------
(***************************************************************************)
(* The release of the proxy: deployments whose processes start, take the   *)
(* traffic, are retired and stop (ServiceLifecycle), the coordinator that  *)
(* drains the retired ones (deployment-coordinator.ts, release-policy.ts)  *)
(* through the stored drain state (dynamo-runtime-state-repository.ts),    *)
(* and the check of that state by the tracker of each deployment's         *)
(* process (active-connection-tracker.ts).                                 *)
(*                                                                         *)
(* The coordinator is run by a lifecycle hook of the traffic shift and by  *)
(* a schedule, so runs overlap.  A tick of the clock is longer than the    *)
(* interval of the runs and of the tracker's checks: within a tick there   *)
(* is always another one.  The other duties of the tracker are KillSwitch. *)
(***************************************************************************)
EXTENDS ServiceLifecycle, FiniteSetsExt

CONSTANTS
    First,           \* the deployment in use at first
    Tunnels,         \* established tunnels, in the order of their start
    Runs,            \* runs of the coordinator that may overlap
    NotifyAfter,     \* DEPLOYMENT_NOTIFY_AFTER_MS, also between two notifications
    EscalateAfter,   \* DEPLOYMENT_ESCALATE_AFTER_MS
    TerminateAfter,  \* DEPLOYMENT_TERMINATE_AFTER_MS
    MaxTime,         \* bound: the clock stops; no tunnel is opened too late to be terminated
    MaxShifts,       \* bound: traffic shifts
    MaxExtensions    \* bound: extensions granted

ASSUME DrainConstants ==
    /\ First \in Processes /\ "none" \notin Processes /\ Tunnels \subseteq Nat
    /\ {NotifyAfter, EscalateAfter, TerminateAfter, MaxTime, MaxShifts, MaxExtensions} \subseteq Nat
    /\ NotifyAfter <= EscalateAfter /\ EscalateAfter <= TerminateAfter /\ TerminateAfter < MaxTime

VARIABLES
    clock,     \* the time
    current,   \* the deployment that gets the traffic; the coordinator's DEPLOYMENT_ID
    tunnel,    \* tunnel[t]: the tunnel and whether there is an active-tunnel record of it
    drain,     \* drain[d]: the stored DeploymentDrainState
    run,       \* run[r]: a run of the coordinator and the await it is suspended at
    spent,     \* shifts and extensions so far
    granted    \* history: until when d's tunnels were promised to be kept

vars == <<process, clock, current, tunnel, drain, run, spent, granted>>

Deployments == Processes
None == "none"
Never == 0

NoTunnel == [state |-> "none", deployment |-> None, startedAt |-> Never, recorded |-> FALSE]
NoDrain == [startedAt |-> Never, terminateRemaining |-> FALSE, lastNotificationAt |-> Never,
            extensionUntil |-> Never]
NoRun == [pc |-> "idle", now |-> Never, left |-> {}, deployment |-> None, state |-> NoDrain,
          notifies |-> FALSE]

\* A release of the proxy begins, with the new deployments up beside the one in use; or
\* some service is deployed for the first time.
Init ==
    /\ \/ /\ current = First
          /\ process = [d \in Deployments |-> Running("data-plane")]
       \/ /\ current = None
          /\ \E mode \in Modes : process = [d \in Deployments |-> New(mode)]
    /\ clock = 1
    /\ tunnel = [t \in Tunnels |-> NoTunnel]
    /\ drain = [d \in Deployments |-> NoDrain]
    /\ run = [r \in Runs |-> NoRun]
    /\ spent = [shifts |-> 0, extensions |-> 0]
    /\ granted = [d \in Deployments |-> Never]

OpenOn(d) == {t \in Tunnels : tunnel[t].state = "open" /\ tunnel[t].deployment = d}

----------------------------------------------------------------------------
(* The deployments                                                           *)

Quiet == UNCHANGED <<clock, current, drain, run, spent, granted>>

\* One deployment is rolled out at a time.
Deploy(d) ==
    /\ \A e \in Deployments : process[e].pc # "starting"
    /\ Launch(d) /\ UNCHANGED tunnel /\ Quiet

Starting(d) == (StartStep(d) \/ StartFails(d)) /\ UNCHANGED tunnel /\ Quiet

\* The traffic is shifted to a deployment that runs: the new one, or back to the old one.
Shift(d) ==
    /\ process[d].pc = "running"
    /\ current \notin {None, d} /\ spent.shifts < MaxShifts
    /\ current' = d
    /\ spent' = [spent EXCEPT !.shifts = @ + 1]
    /\ UNCHANGED <<process, clock, tunnel, drain, run, granted>>

\* The tasks of a service that is not the one in use are stopped.
Retire(d) == d # current /\ Signal(d) /\ UNCHANGED tunnel /\ Quiet

\* A listening server is closed when its last connection has ended.
Stopping(d) ==
    /\ \E resource \in Releasing(d) :
          /\ resource \in {"forward", "socks5"} => OpenOn(d) = {}
          /\ Release(d, resource)
    /\ UNCHANGED tunnel /\ Quiet

Ended(ts, recorded) ==
    [t \in Tunnels |-> IF t \in ts THEN [tunnel[t] EXCEPT !.state = "ended", !.recorded = recorded] ELSE tunnel[t]]

\* The records of a killed process stay until they expire.
Crash(d) == Kill(d) /\ tunnel' = Ended(OpenOn(d), TRUE) /\ Quiet

----------------------------------------------------------------------------
(* The tunnels                                                               *)

Open(t) ==
    /\ tunnel[t] = NoTunnel /\ \A u \in Tunnels : u < t => tunnel[u] # NoTunnel
    /\ current # None /\ process[current].pc = "running"
    /\ clock + TerminateAfter < MaxTime
    /\ tunnel' = [tunnel EXCEPT ![t] = [state |-> "open", deployment |-> current, startedAt |-> clock,
                                        recorded |-> TRUE]]
    /\ UNCHANGED process /\ Quiet

\* The caller or the provider ends the tunnel; its record is removed, or left to expire.
Close(t) ==
    /\ tunnel[t].state = "open"
    /\ \E recorded \in BOOLEAN : tunnel' = Ended({t}, recorded)
    /\ UNCHANGED process /\ Quiet

Expire(t) ==
    /\ tunnel[t].state = "ended" /\ tunnel[t].recorded
    /\ tunnel' = [tunnel EXCEPT ![t].recorded = FALSE]
    /\ UNCHANGED process /\ Quiet

\* ActiveConnectionTracker.#poll: the drain state of its own deployment is read.
PollDeployment(d) ==
    /\ process[d].pc \in {"running", "stopping"} /\ OpenOn(d) # {}
    /\ drain[d].terminateRemaining
    /\ tunnel' = Ended(OpenOn(d), FALSE)
    /\ UNCHANGED process /\ Quiet

----------------------------------------------------------------------------
(* coordinateDeploymentDrain                                                 *)

Retiring == {t \in Tunnels : tunnel[t].recorded /\ tunnel[t].deployment # current}
RetiringOn(d) == {t \in Retiring : tunnel[t].deployment = d}

\* A run whose list is empty is complete at once.
BeginRun(r) ==
    /\ run[r].pc = "idle" /\ current # None
    /\ Retiring # {}
    /\ run' = [run EXCEPT ![r] = [NoRun EXCEPT
           !.pc = "reading", !.now = clock,
           !.left = {[deployment |-> tunnel[t].deployment,
                      earliest |-> Min({tunnel[u].startedAt : u \in RetiringOn(tunnel[t].deployment)})] :
                     t \in Retiring}]]
    /\ UNCHANGED <<process, clock, current, tunnel, drain, spent, granted>>

\* The deployments left of a run; without any it is over.
Onward(r) == IF run[r].left = {} THEN NoRun ELSE [NoRun EXCEPT !.pc = "reading", !.now = run[r].now, !.left = run[r].left]

Extended(now, existing) == existing.extensionUntil > now

\* Something is due: never notified, or not for a while.
NotificationDue(now, existing) ==
    existing.lastNotificationAt = Never \/ now - existing.lastNotificationAt >= NotifyAfter

evaluateDeploymentDrain(now, startedAt, existing) ==
    LET age == now - startedAt
    IN  IF ~Extended(now, existing) /\ age >= TerminateAfter THEN "terminate"
        ELSE IF age >= EscalateAfter /\ NotificationDue(now, existing) THEN "escalate"
        ELSE IF age >= NotifyAfter /\ NotificationDue(now, existing) THEN "notify"
        ELSE "wait"

\* Mutant of Evaluated: an extension is not carried over to the new state.
EvaluatedForgetfully(now, startedAt, existing) ==
    LET action == evaluateDeploymentDrain(now, startedAt, existing)
    IN  [startedAt          |-> startedAt,
         terminateRemaining |-> existing.terminateRemaining \/ action = "terminate",
         lastNotificationAt |-> IF action = "wait" THEN existing.lastNotificationAt ELSE now,
         extensionUntil     |-> Never]

\* The state that a run makes of the one it read.
Evaluated(now, startedAt, existing) ==
    LET action == evaluateDeploymentDrain(now, startedAt, existing)
    IN  [startedAt          |-> startedAt,
         terminateRemaining |-> existing.terminateRemaining \/ action = "terminate",
         lastNotificationAt |-> IF action = "wait" THEN existing.lastNotificationAt ELSE now,
         extensionUntil     |-> existing.extensionUntil]

\* The drain of a deployment begins with its earliest tunnel of the first run.  A run that
\* is older than that, as it was overtaken by one of a later drain, fails.
ReadDrain(r, item) ==
    LET existing == drain[item.deployment]
        startedAt == IF existing.startedAt = Never THEN item.earliest ELSE existing.startedAt
    IN  /\ run[r].pc = "reading" /\ item \in run[r].left
        /\ run' = [run EXCEPT ![r] =
               IF run[r].now < startedAt
               THEN NoRun
               ELSE [run[r] EXCEPT
                         !.pc = "saving", !.left = run[r].left \ {item}, !.deployment = item.deployment,
                         !.state = Evaluated(run[r].now, startedAt, existing),
                         !.notifies = evaluateDeploymentDrain(run[r].now, startedAt, existing) # "wait"]]
        /\ UNCHANGED <<process, clock, current, tunnel, drain, spent, granted>>

\* Mutant of SaveDrain: the state is put once the notification is through, which may fail.
SaveDrainLast(r) ==
    /\ run[r].pc = "saving"
    /\ \/ /\ run[r].notifies
          /\ run' = [run EXCEPT ![r] = NoRun] /\ UNCHANGED drain
       \/ /\ drain' = [drain EXCEPT ![run[r].deployment] = run[r].state]
          /\ run' = [run EXCEPT ![r] = Onward(r)]
    /\ UNCHANGED <<process, clock, current, tunnel, spent, granted>>

\* The state is put over whatever is there, before anybody is notified.
SaveDrain(r) ==
    /\ run[r].pc = "saving"
    /\ drain' = [drain EXCEPT ![run[r].deployment] = run[r].state]
    /\ run' = [run EXCEPT ![r] = [Onward(r) EXCEPT !.pc = IF run[r].notifies THEN "notifying" ELSE @]]
    /\ UNCHANGED <<process, clock, current, tunnel, spent, granted>>

\* The notification is published and the run goes on to the next deployment, or it is not
\* and the run has failed.
Notify(r) ==
    /\ run[r].pc = "notifying"
    /\ run' \in {[run EXCEPT ![r] = rest] : rest \in {Onward(r), NoRun}}
    /\ UNCHANGED <<process, clock, current, tunnel, drain, spent, granted>>

Coordinating(r) ==
    \/ BeginRun(r)
    \/ \E item \in run[r].left : ReadDrain(r, item)
    \/ SaveDrain(r) \/ Notify(r)

\* An operator extends a drain.  It is a promise unless the termination was decided.  If a
\* run is about to put a state that it made without knowing of the extension, what remains
\* promised is the shorter of the two.
Extend(d, until) ==
    /\ drain[d] # NoDrain /\ spent.extensions < MaxExtensions
    /\ drain' = [drain EXCEPT ![d].extensionUntil = until]
    /\ spent' = [spent EXCEPT !.extensions = @ + 1]
    /\ granted' = [granted EXCEPT ![d] =
           IF /\ drain[d].terminateRemaining \/ \E r \in Runs : run[r].pc = "saving" /\ run[r].deployment = d
              /\ @ <= until
           THEN @ ELSE until]
    /\ UNCHANGED <<process, clock, current, tunnel, run>>

Tick ==
    /\ clock < MaxTime
    /\ clock' = clock + 1
    /\ UNCHANGED <<process, current, tunnel, drain, run, spent, granted>>

Next ==
    \/ \E d \in Deployments :
          \/ Deploy(d) \/ Starting(d) \/ Shift(d) \/ Retire(d) \/ Stopping(d) \/ Crash(d)
          \/ PollDeployment(d)
          \/ \E until \in clock + 1 .. MaxTime : Extend(d, until)
    \/ \E t \in Tunnels : Open(t) \/ Close(t) \/ Expire(t)
    \/ \E r \in Runs : Coordinating(r)
    \/ Tick

\* The schedule runs the coordinator again and again, whatever became of the hook; a poll
\* of the tracker comes every second; records expire; time passes.
Fairness ==
    /\ \A r \in Runs : WF_vars(BeginRun(r)) /\ WF_vars(\E item \in run[r].left : ReadDrain(r, item))
                       /\ WF_vars(SaveDrain(r)) /\ WF_vars(Notify(r))
    /\ \A d \in Deployments : WF_vars(PollDeployment(d))
    /\ \A t \in Tunnels : WF_vars(Expire(t))
    /\ WF_vars(Tick)

Spec == Init /\ [][Next]_vars /\ Fairness

----------------------------------------------------------------------------
(* Properties                                                                *)

\* Type invariant: the tunnels and their records, the stored drains and the coordinator's
\* runs keep their shapes.
DrainState ==
    [startedAt : Nat, terminateRemaining : BOOLEAN, lastNotificationAt : Nat, extensionUntil : Nat]

TypeOK ==
    /\ clock \in Nat /\ current \in Deployments \cup {None}
    /\ tunnel \in [Tunnels -> [state : {"none", "open", "ended"}, deployment : Deployments \cup {None},
                               startedAt : Nat, recorded : BOOLEAN]]
    /\ drain \in [Deployments -> DrainState]
    /\ run \in [Runs -> [pc : {"idle", "reading", "saving", "notifying"}, now : Nat,
                         left : SUBSET [deployment : Deployments, earliest : Nat],
                         deployment : Deployments \cup {None}, state : DrainState,
                         notifies : BOOLEAN]]
    /\ spent \in [shifts : Nat, extensions : Nat]
    /\ granted \in [Deployments -> Nat]

\* The drain of a deployment does not cut its tunnels before one of them was as old as the
\* policy says, nor before the end of an extension that was granted in time, whatever runs
\* of the coordinator overlap and whichever notifications fail.
CutsAreDue ==
    [][\A d \in Deployments :
          PollDeployment(d) =>
              /\ \E t \in Tunnels : tunnel[t].deployment = d /\ clock - tunnel[t].startedAt >= TerminateAfter
              /\ granted[d] <= clock]_vars

\* Every tunnel of a deployment that stays retired ends, even if no notification is ever
\* delivered, runs overwrite each other's states, and its own process is being stopped and
\* waits for it: what matters is stored before anybody is notified.
RetiredTunnelsEnd ==
    \A t \in Tunnels : tunnel[t].state = "open" ~> (tunnel[t].state = "ended" \/ tunnel[t].deployment = current)
===============================================================================
