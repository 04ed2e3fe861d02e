----------------------------- MODULE KillSwitch -----------------------------
(***************************************************************************)
(* How a forced revocation reaches the established connections of ONE      *)
(* proxy task.                                                             *)
(*                                                                         *)
(* The control plane (access-grant-service.ts, route-administration.ts)    *)
(* marks a profile, a grant or a session in DynamoDB and then advances the *)
(* authorization epoch (dynamo-store.ts), each a request of its own.  A    *)
(* proxy task admits a connection by reading those items                   *)
(* (assertNewConnectionAllowed), tracks it, and polls the epoch once a     *)
(* second; when the epoch moved it re-checks its connections               *)
(* (active-connection-tracker.ts).                                         *)
(*                                                                         *)
(* assertNewConnectionAllowed and shouldTerminateActive read a profile, a  *)
(* grant and a session in three requests.  Each is one step here: a        *)
(* revocation is never undone in this module, so a passing admission might *)
(* as well have read everything at its first request.                      *)
(***************************************************************************)
EXTENDS Integers, Sequences, FiniteSets, SequencesExt

CONSTANTS
    Connections,   \* connection attempts of the task; a finished one may come back
    Admins,        \* concurrent control-plane requests
    Route,         \* the profile
    GrantList,     \* its grants, in list order
    SessionsOf,    \* SessionsOf[g]: the managed sessions of grant g, in list order
    ScopesOf,      \* ScopesOf[c]: the profile, grant and session that authorize c
    Operations,    \* Operations[a]: the control-plane operations that a makes in this instance
    Faults,        \* the failures of this instance
    AdminLocal,    \* whether the control plane runs inside the proxy task: FALSE, TRUE or either
    MaxActive,     \* maxActiveConnectionsPerTask
    CheckEvery,    \* polls between two deployment checks
    MaxOperations, \* bound on the control-plane operations
    MaxDisturbances  \* bound on the failures and the drain deadline of a behaviour

Grants == ToSet(GrantList)
Sessions == UNION {ToSet(SessionsOf[g]) : g \in Grants}
Scopes == {Route} \cup Grants \cup Sessions

ASSUME KillSwitchConstants ==
    /\ GrantList \in Seq(Grants)
    /\ SessionsOf \in [Grants -> Seq(Sessions)]
    /\ ScopesOf \in [Connections -> SUBSET Scopes]
    /\ \A c \in Connections : Route \in ScopesOf[c]
    /\ \A c \in Connections, g \in Grants :
          ScopesOf[c] \cap ToSet(SessionsOf[g]) # {} => g \in ScopesOf[c]
    /\ Operations \in [Admins -> SUBSET {"close", "force_close", "revoke_grant",
                                          "force_revoke_grant", "delete", "emergency_revoke"}]
    /\ Faults \subseteq {"poll_error", "check_error", "admin_crash"}
    /\ AdminLocal \subseteq BOOLEAN
    /\ MaxActive \in Nat
    /\ CheckEvery \in Nat
    /\ MaxOperations \in Nat
    /\ MaxDisturbances \in Nat

VARIABLES
    revoked,    \* scopes whose status is revoked or closed
    terminate,  \* scopes whose stored terminateActive is set
    epoch,      \* the AUTHORIZATION#GLOBAL item
    admin,      \* admin[a]: what is left of the request a is executing
    started,    \* control-plane operations started so far
    terminateRemaining,  \* the DeploymentDrainState of this task's deployment says so
    conn,       \* conn[c]: a connection of the task
    known,      \* the tracker's #authorizationEpoch
    poll,       \* the tracker's #poll in flight
    forced,     \* scopes some operation was asked to terminate (history)
    owed,       \* connections that stood for their scopes when one was marked, and still do (history)
    failed      \* the failures so far (history)

store == <<revoked, terminate, epoch>>
control == <<admin, started, terminateRemaining>>
tracker == <<known, poll>>
history == <<forced, owed, failed>>
switchVars == <<store, control, conn, tracker, history>>

Idle == [pc |-> "idle", before |-> {}]
NoPoll == [pc |-> "idle", epoch |-> 0, checks |-> {}, untilCheck |-> 0]

\* A connection is in the tracker's map from track() until its stop callback.
\* `before` are the connections that were in the map when it was added: the
\* map iterates in insertion order.
Tracked == {c \in Connections : conn[c].pc \in {"live", "closing"}}

\* One connection stands for all that share its profile, grant and session: the
\* one that was tracked last.
Representatives ==
    {c \in Tracked : \A d \in Tracked : ScopesOf[d] = ScopesOf[c] => c \notin conn[d].before}

\* The bound of a behaviour: MaxDisturbances failures and drain deadlines.
Undisturbed ==
    Cardinality(failed) + (IF terminateRemaining THEN 1 ELSE 0) < MaxDisturbances

----------------------------------------------------------------------------
(* The control plane.  A request is a sequence of calls of the store; each   *)
(* call is one step, except closeLogicalSession, which reads, writes back    *)
(* what it read and advances the epoch.                                      *)

Bump == [do |-> "bump", scope |-> Route, force |-> FALSE]
NotifyOf(s) == [do |-> "notify", scope |-> s, force |-> TRUE]
Write(s, force) == [do |-> "write", scope |-> s, force |-> force]
CloseSession(s, force) == [do |-> "close", scope |-> s, force |-> force]
Calls == [do : {"bump", "notify", "write", "close"}, scope : Scopes, force : BOOLEAN]

\* store.revokeAccessGrant: mark the grant, close its sessions, advance the epoch.
RevokeGrant(g, force) ==
    <<Write(g, force)>>
      \o [i \in DOMAIN SessionsOf[g] |-> CloseSession(SessionsOf[g][i], force)]
      \o <<Bump>>

\* store.revoke marks the profile and advances the epoch.
RevokeRoute(force) == <<Write(Route, force), Bump>>

\* The grants of the profile one after the other; a revoked one is no longer in the index
\* of listAccessGrants.  Only the operations that terminate notify the connections of their
\* own process.
RevokeListed(force) ==
    FlattenSeq([i \in DOMAIN GrantList |->
                  IF GrantList[i] \in revoked THEN <<>>
                  ELSE RevokeGrant(GrantList[i], force)
                         \o (IF force THEN <<NotifyOf(GrantList[i])>> ELSE <<>>)])

\* The operations that ask for termination.
Forcing == {"force_close", "force_revoke_grant", "emergency_revoke"}

\* The calls of a control-plane operation on a scope.
Plan(operation, s) ==
    CASE operation = "close" -> <<CloseSession(s, FALSE)>>
      [] operation = "force_close" -> <<CloseSession(s, TRUE), NotifyOf(s)>>
      [] operation = "revoke_grant" -> RevokeGrant(s, FALSE)
      [] operation = "force_revoke_grant" -> RevokeGrant(s, TRUE) \o <<NotifyOf(s)>>
      [] operation = "delete" -> RevokeListed(FALSE) \o RevokeRoute(FALSE)
      [] operation = "emergency_revoke" ->
           RevokeListed(TRUE) \o RevokeRoute(TRUE) \o <<NotifyOf(Route)>>

Targets(operation) ==
    CASE operation \in {"close", "force_close"} -> Sessions
      [] operation \in {"revoke_grant", "force_revoke_grant"} -> Grants
      [] operation \in {"delete", "emergency_revoke"} -> {Route}

\* todo: the calls left.  phase and seen: how far a closeLogicalSession is and
\* the terminateActive it read.
NoRequest == [todo |-> <<>>, phase |-> "read", seen |-> FALSE]

SwitchInit ==
    /\ revoked = {} /\ terminate = {} /\ epoch = 0
    /\ admin = [a \in Admins |-> NoRequest]
    /\ started = 0
    /\ terminateRemaining = FALSE
    /\ conn = [c \in Connections |-> Idle]
    /\ known = -1
    /\ poll = NoPoll
    /\ forced = {} /\ owed = {} /\ failed = {}

\* Both operations on a profile start by reading it (listAccessGrants does, in
\* an emergency revocation) and find nothing if it is revoked.
Begin(a, operation, s) ==
    /\ admin[a].todo = <<>>
    /\ started < MaxOperations
    /\ started' = started + 1
    /\ operation \in {"delete", "emergency_revoke"} => Route \notin revoked
    /\ admin' = [admin EXCEPT ![a] = [NoRequest EXCEPT !.todo = Plan(operation, s)]]
    /\ forced' = IF operation \in Forcing THEN forced \cup {s} ELSE forced
    /\ UNCHANGED <<store, terminateRemaining, conn, tracker, owed, failed>>

Calling(a, do) == admin[a].todo # <<>> /\ Head(admin[a].todo).do = do

CallDone(a) == admin' = [admin EXCEPT ![a] = [NoRequest EXCEPT !.todo = Tail(admin[a].todo)]]

\* The terminateActive flag of s is stored as `flag`, and s refuses new
\* connections from now on.  A write of FALSE takes back the flag of a
\* termination that nobody has noticed yet.
Mark(s, flag) ==
    /\ revoked' = revoked \cup {s}
    /\ terminate' = IF flag THEN terminate \cup {s} ELSE terminate \ {s}
    /\ owed' = IF flag THEN owed \cup {c \in Representatives : s \in ScopesOf[c]}
               ELSE {c \in owed : ScopesOf[c] \cap (terminate \ {s}) # {}}

\* The unconditional Update of a grant, or of a profile by an emergency
\* revocation; store.revoke(id, false) refuses a profile that is revoked
\* already, which ends the request.
WriteScope(a) ==
    LET call == Head(admin[a].todo)
    IN  /\ Calling(a, "write")
        /\ IF call.scope = Route /\ ~call.force /\ Route \in revoked
           THEN /\ admin' = [admin EXCEPT ![a] = NoRequest]
                /\ UNCHANGED <<revoked, terminate, owed>>
           ELSE Mark(call.scope, call.force) /\ CallDone(a)
        /\ UNCHANGED <<epoch, started, terminateRemaining, conn, tracker, forced, failed>>

\* closeLogicalSession reads the session; there is nothing left to do for one
\* that is closed already, unless termination is new ...
ReadSession(a) ==
    LET call == Head(admin[a].todo)
        seen == call.scope \in terminate
    IN  /\ Calling(a, "close") /\ admin[a].phase = "read"
        /\ IF call.scope \in revoked /\ (~call.force \/ seen)
           THEN CallDone(a)
           ELSE admin' = [admin EXCEPT ![a].phase = "put", ![a].seen = seen]
        /\ UNCHANGED <<store, started, terminateRemaining, conn, tracker, history>>

\* ... writes back what it read, changed ...
PutSession(a) ==
    LET call == Head(admin[a].todo)
    IN  /\ Calling(a, "close") /\ admin[a].phase = "put"
        /\ Mark(call.scope, admin[a].seen \/ call.force)
        /\ admin' = [admin EXCEPT ![a].phase = "bump"]
        /\ UNCHANGED <<epoch, started, terminateRemaining, conn, tracker, forced, failed>>

\* ... and advances the epoch, as every other revocation does at its end.
BumpEpoch(a) ==
    /\ Calling(a, "bump") \/ (Calling(a, "close") /\ admin[a].phase = "bump")
    /\ epoch' = epoch + 1
    /\ CallDone(a)
    /\ UNCHANGED <<revoked, terminate, started, terminateRemaining, conn, tracker, history>>

\* terminate() destroys both sockets; the stop callback runs when they close.
Terminate(targets) ==
    conn' = [c \in Connections |->
               IF c \in targets /\ conn[c].pc = "live" THEN [conn[c] EXCEPT !.pc = "closing"]
                                                     ELSE conn[c]]

\* terminateRoute, terminateGrant, terminateSession: the indexes of this process.
NotifyTracker(a) ==
    /\ Calling(a, "notify")
    /\ \E local \in AdminLocal :
          Terminate(IF local THEN {c \in Connections : Head(admin[a].todo).scope \in ScopesOf[c]} ELSE {})
    /\ CallDone(a)
    /\ UNCHANGED <<store, started, terminateRemaining, tracker, history>>

\* The control-plane process dies, or one of its requests is rejected: the rest
\* of the operation does not happen.
AdminCrash(a) ==
    /\ "admin_crash" \in Faults /\ Undisturbed
    /\ admin[a].todo # <<>>
    /\ admin' = [admin EXCEPT ![a] = NoRequest]
    /\ failed' = failed \cup {"admin_crash"}
    /\ UNCHANGED <<store, started, terminateRemaining, conn, tracker, forced, owed>>

AdminStep(a) ==
    WriteScope(a) \/ ReadSession(a) \/ PutSession(a) \/ BumpEpoch(a) \/ NotifyTracker(a)

\* The drain of this task's deployment reaches its termination deadline.
DrainExpires ==
    /\ ~terminateRemaining /\ Undisturbed
    /\ terminateRemaining' = TRUE
    /\ UNCHANGED <<store, admin, started, conn, tracker, history>>

----------------------------------------------------------------------------
(* The proxy task.                                                           *)

\* assertNewConnectionAllowed, after the upstream tunnel is open.
Admit(c) ==
    /\ conn[c].pc = "idle"
    /\ Cardinality(Tracked) < MaxActive
    /\ ScopesOf[c] \cap revoked = {}
    /\ conn' = [conn EXCEPT ![c].pc = "admitted"]
    /\ UNCHANGED <<store, control, tracker, history>>

\* track(): the heartbeat of the claim succeeded, the connection is in the map
\* and stands for the others with its scopes.
Track(c) ==
    /\ conn[c].pc = "admitted"
    /\ conn' = [conn EXCEPT ![c] = [pc |-> "live", before |-> Tracked]]
    /\ owed' = {d \in owed : ScopesOf[d] # ScopesOf[c]}
    /\ UNCHANGED <<store, control, tracker, forced, failed>>

\* track() is rejected: the attempt fails before the tunnel is committed.
TrackFails(c) ==
    /\ conn[c].pc = "admitted"
    /\ conn' = [conn EXCEPT ![c] = Idle]
    /\ UNCHANGED <<store, control, tracker, history>>

\* The stop callback: one of the sockets closed, by itself or by terminate().
Stop(c) ==
    /\ c \in Tracked
    /\ conn' = [d \in Connections |->
                  IF d = c THEN Idle ELSE [conn[d] EXCEPT !.before = @ \ {c}]]
    /\ owed' = owed \ {c}
    /\ UNCHANGED <<store, control, tracker, forced, failed>>

\* The poll timer runs while connections are tracked; a poll in flight excludes
\* another.  The epoch is read here and used in the next step.
PollStart ==
    /\ poll.pc = "idle"
    /\ Tracked # {}
    /\ poll' = [poll EXCEPT !.pc = "epoch", !.epoch = epoch]
    /\ UNCHANGED <<store, control, conn, known, history>>

\* Mutant of PollEpoch: the first epoch the tracker reads is taken as known.
PollEpochInitial ==
    /\ poll.pc = "epoch"
    /\ known' = poll.epoch
    /\ poll' = [poll EXCEPT !.pc = "checking",
                            !.checks = IF known \in {-1, poll.epoch} THEN {} ELSE Representatives]
    /\ UNCHANGED <<store, control, conn, history>>

\* Mutant of PollEpoch: of the connections that share their scopes the first one is kept.
PollEpochKeepsFirst ==
    /\ poll.pc = "epoch"
    /\ known' = poll.epoch
    /\ poll' = [poll EXCEPT !.pc = "checking",
                            !.checks = IF poll.epoch = known THEN {}
                                       ELSE {c \in Tracked : \A d \in Tracked :
                                               ScopesOf[d] = ScopesOf[c] => d \notin conn[c].before}]
    /\ UNCHANGED <<store, control, conn, history>>

\* The tracker remembers the epoch BEFORE it has checked the connections.
PollEpoch ==
    /\ poll.pc = "epoch"
    /\ known' = poll.epoch
    /\ poll' = [poll EXCEPT !.pc = "checking",
                            !.checks = IF poll.epoch = known THEN {} ELSE Representatives]
    /\ UNCHANGED <<store, control, conn, history>>

\* Mutant of ShouldTerminateActive: the status is read instead of the flag.
TerminateRevoked(c) == ScopesOf[c] \cap revoked # {}

\* store.shouldTerminateActive: the flag of any of the three items.
ShouldTerminateActive(c) == ScopesOf[c] \cap terminate # {}

\* One check answers.  A rejected read counts as "do not terminate".
PollCheck(c) ==
    /\ poll.pc = "checking" /\ c \in poll.checks
    /\ \/ Terminate(IF ShouldTerminateActive(c) THEN {c} ELSE {}) /\ UNCHANGED failed
       \/ "check_error" \in Faults /\ Undisturbed /\ UNCHANGED conn /\ failed' = failed \cup {"check_error"}
    /\ poll' = [poll EXCEPT !.checks = @ \ {c}]
    /\ UNCHANGED <<store, control, known, forced, owed>>

\* Every check has answered: the deployment check if it is due, then the
\* heartbeats, then the poll is over.
PollFinish ==
    /\ poll.pc = "checking" /\ poll.checks = {}
    /\ IF poll.untilCheck = 0
       THEN /\ Terminate(IF terminateRemaining THEN Connections ELSE {})
            /\ poll' = [NoPoll EXCEPT !.untilCheck = CheckEvery]
       ELSE /\ UNCHANGED conn
            /\ poll' = [NoPoll EXCEPT !.untilCheck = poll.untilCheck - 1]
    /\ UNCHANGED <<store, control, known, history>>

\* The epoch, the deployment check or a heartbeat is rejected: terminateAll.
\* #nextDeploymentCheckAt advanced if the poll got as far as that check.
PollRejects ==
    /\ "poll_error" \in Faults /\ Undisturbed
    /\ poll.pc = "epoch" \/ (poll.pc = "checking" /\ poll.checks = {})
    /\ Terminate(Connections)
    /\ poll' = [NoPoll EXCEPT !.untilCheck =
                  IF poll.pc = "epoch" THEN poll.untilCheck
                  ELSE IF poll.untilCheck = 0 THEN CheckEvery ELSE poll.untilCheck - 1]
    /\ failed' = failed \cup {"poll_error"}
    /\ UNCHANGED <<store, control, known, forced, owed>>

PollStep ==
    PollStart \/ PollEpoch \/ (\E c \in Connections : PollCheck(c)) \/ PollFinish

SwitchNext ==
    \/ \E a \in Admins :
          \/ \E operation \in Operations[a] : \E s \in Targets(operation) : Begin(a, operation, s)
          \/ AdminStep(a) \/ AdminCrash(a)
    \/ DrainExpires
    \/ \E c \in Connections : Admit(c) \/ Track(c) \/ TrackFails(c) \/ Stop(c)
    \/ PollStep \/ PollRejects

\* The poll timer keeps firing, store requests are answered, a destroyed socket
\* emits its close event, and a control-plane request that does not crash ends.
SwitchFairness ==
    /\ WF_switchVars(PollStep)
    /\ \A a \in Admins : WF_switchVars(AdminStep(a))
    /\ \A c \in Connections : WF_switchVars(conn[c].pc = "closing" /\ Stop(c))

SwitchSpec == SwitchInit /\ [][SwitchNext]_switchVars /\ SwitchFairness

----------------------------------------------------------------------------
(* Properties.                                                               *)

\* Type invariant: the stored marks, the requests in flight, the tracker's map
\* and its poll keep their shapes.
SwitchTypeOK ==
    /\ revoked \subseteq Scopes /\ terminate \subseteq Scopes /\ epoch \in Nat
    /\ admin \in [Admins -> [todo : Seq(Calls), phase : {"read", "put", "bump"}, seen : BOOLEAN]]
    /\ started \in 0..MaxOperations
    /\ terminateRemaining \in BOOLEAN
    /\ conn \in [Connections -> [pc : {"idle", "admitted", "live", "closing"},
                                  before : SUBSET Connections]]
    /\ known \in Nat \cup {-1}
    /\ poll \in [pc : {"idle", "epoch", "checking"}, epoch : Nat,
                 checks : SUBSET Connections, untilCheck : Nat]
    /\ forced \subseteq Scopes /\ owed \subseteq Connections /\ failed \subseteq Faults

\* A connection that stood for its profile, grant and session when one of them
\* was marked for termination ends, whoever else is connected and whatever other
\* requests run: unless one of those writes the flag back, another connection
\* with the same scopes comes to stand for it (it leaves `owed`), the request that
\* marked it is cut short or a check is rejected.  Connections it stood for are not
\* promised anything: no poll looks at them.
EstablishedEnd ==
    \A c \in Connections :
        c \in owed ~> c \notin owed \/ failed \cap {"admin_crash", "check_error"} # {}

\* What docs/USAGE.md says of a forced close: a connection that is established when
\* the close of its session begins is terminated.  The poll terminates only one of
\* the connections that share a session.
ForceCloseTerminates ==
    \A a \in Admins, c \in Connections, s \in Sessions :
        (/\ conn[c].pc = "live" /\ s \in ScopesOf[c]
         /\ admin[a].todo = Plan("force_close", s) /\ admin[a].phase = "read")
            ~> conn[c].pc # "live"

\* A connection is only ever terminated for a reason: its session, grant or
\* profile was to be force-closed, its deployment's drain expired, or a poll
\* failed.  Routine closes, revocations and deletions let it drain.
RoutineRevocationDrains ==
    \A c \in Connections :
        conn[c].pc = "closing" =>
            ScopesOf[c] \cap forced # {} \/ terminateRemaining \/ "poll_error" \in failed
============================================================================
