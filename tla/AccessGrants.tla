---------------------------- MODULE AccessGrants ----------------------------
(***************************************************************************)
(* The life of one access grant in DynamoDB under concurrent control-plane *)
(* requests: its route, its credentials and their lookup items, and its    *)
(* managed sessions (access-grant-service.ts, route-administration.ts,     *)
(* dynamo-store.ts).                                                       *)
(*                                                                         *)
(* A request is a sequence of DynamoDB requests, and each of those is one  *)
(* step here; any of them may fail and end the request (Fail).  Adding,    *)
(* rotating and revoking a credential write the whole grant item as it was *)
(* READ, with one change applied; only revoking the grant updates it in    *)
(* place.  `raced` records that such a write replaced an item that had     *)
(* changed since it was read.                                              *)
(*                                                                         *)
(* Abstractions.  Ids are fresh random values, so grants meet only in      *)
(* their route and one grant stands for all.  Two reads of one item with   *)
(* nothing between them but a check are one read.  A credential's place in *)
(* the credentials array never changes, so the array is a function of the  *)
(* ids; when it was last used, which authenticating updates in place, is   *)
(* left out.  An absent revokeAt is the expiry, which decides alone then.  *)
(* The table's TTL deletes lookup items of expired credentials only, which *)
(* authenticate nobody any more; that is left out.                         *)
(* The terminateActive marks are KillSwitch's subject, and the             *)
(* authorization epoch, advanced by one more request after every write and *)
(* read by the proxy tasks only, is AuthorizationCache's.                  *)
(***************************************************************************)
EXTENDS Integers, FiniteSets

CONSTANTS
    Credentials,  \* credential ids
    Sessions,     \* ids of managed sessions
    Requests,     \* control-plane requests in flight at one time
    None,         \* no credential, no session
    Lifetime,     \* ACCESS_GRANT_CREDENTIAL_LIFETIME_MS
    Overlap,      \* ACCESS_GRANT_CREDENTIAL_OVERLAP_MS
    MaxTime,      \* bound on the clock
    MaxRequests   \* bound on the requests begun

ASSUME AccessGrantsConstants ==
    /\ None \notin Credentials \cup Sessions
    /\ Lifetime \in Nat \ {0} /\ Overlap \in Nat
    /\ MaxTime \in Nat /\ MaxRequests \in Nat

VARIABLES
    now,      \* the clock
    route,    \* status of the route item
    grant,    \* the access-grant item
    lookup,   \* credentials that have a lookup item
    session,  \* session[s]: status of a logical-session item
    request,  \* request[r]: what is left of the request r is executing
    begun,    \* requests begun so far
    issued,   \* credentials whose issuance was answered (history)
    gone,     \* credentials whose loss was answered (history)
    raced     \* a write replaced an item changed since it was read (history)

items == <<route, grant, lookup, session>>
history == <<issued, gone, raced>>
vars == <<now, items, request, begun, history>>

-----------------------------------------------------------------------------
(* Stored values *)

NoCredential == [status |-> "absent", session |-> None, expiresAt |-> 0, revokeAt |-> 0]

createStoredCredential(s, at) ==
    [status |-> "active", session |-> s, expiresAt |-> at + Lifetime, revokeAt |-> at + Lifetime]

credentialUsable(credential, at) ==
    /\ credential.status \in {"active", "overlap"}
    /\ credential.expiresAt > at
    /\ credential.revokeAt > at

(* Mutants of Rotated: a suspected compromise is treated as routine; the   *)
(* overlap ignores the expiry.                                             *)
RotatedLeniently(credential, at, suspectedCompromise) ==
    IF ~credentialUsable(credential, at) THEN credential
    ELSE [credential EXCEPT !.status = "overlap"]
RotatedBeyondExpiry(credential, at, suspectedCompromise) ==
    IF ~credentialUsable(credential, at) THEN credential
    ELSE IF suspectedCompromise THEN [credential EXCEPT !.status = "revoked", !.revokeAt = at]
    ELSE [credential EXCEPT !.status = "overlap", !.revokeAt = at + Overlap]

(* The previous credential after its rotation. *)
Rotated(credential, at, suspectedCompromise) ==
    IF ~credentialUsable(credential, at) THEN credential
    ELSE IF suspectedCompromise THEN [credential EXCEPT !.status = "revoked", !.revokeAt = at]
    ELSE [credential EXCEPT
            !.status = "overlap",
            !.revokeAt = IF credential.expiresAt < at + Overlap THEN credential.expiresAt
                                                                ELSE at + Overlap]

NoGrant == [status |-> "absent", credentials |-> [c \in Credentials |-> NoCredential]]

Present(c) == grant.credentials[c].status # "absent"
PresentCredentials == {c \in Credentials : Present(c)}

(* authenticateAccessGrant and the session check of authenticate: a        *)
(* connection presenting c is accepted.                                    *)
Accepted(c) ==
    LET credential == grant.credentials[c] IN
    /\ c \in lookup
    /\ grant.status = "ready" /\ route = "ready"
    /\ credentialUsable(credential, now)
    /\ credential.session # None => session[credential.session] = "open"

-----------------------------------------------------------------------------
(* Requests *)

Idle == [pc |-> "idle", op |-> "none", new |-> None, prev |-> None, session |-> None,
         emergency |-> FALSE, base |-> NoGrant, at |-> 0, todo |-> {}]

Reserved == {request[r].new : r \in Requests}
ReservedSessions == {request[r].session : r \in Requests}
FreshCredential(c) == c \notin lookup /\ c \notin Reserved
FreshSession(s) ==
    /\ session[s] = "absent" /\ s \notin ReservedSessions
    /\ \A c \in Credentials : grant.credentials[c].session # s

Begin(r, next) ==
    /\ request[r].pc = "idle" /\ begun < MaxRequests
    /\ begun' = begun + 1
    /\ request' = [request EXCEPT ![r] = next]
    /\ UNCHANGED <<now, items>>

Goto(r, pc) == request' = [request EXCEPT ![r].pc = pc]
Finish(r) == request' = [request EXCEPT ![r] = Idle]

Init ==
    /\ now = 0
    /\ route = "absent"
    /\ grant = NoGrant
    /\ lookup = {}
    /\ session = [s \in Sessions |-> "absent"]
    /\ request = [r \in Requests |-> Idle]
    /\ begun = 0
    /\ issued = {} /\ gone = {} /\ raced = FALSE

(* A DynamoDB request fails, or the control plane stops. *)
Fail(r) ==
    /\ request[r].pc # "idle"
    /\ Finish(r)
    /\ UNCHANGED <<now, items, begun, history>>

-----------------------------------------------------------------------------
(* Routes *)

CreateRoute ==
    /\ route = "absent"
    /\ route' = "ready"
    /\ UNCHANGED <<now, grant, lookup, session, request, begun, history>>

(* update reads the route and puts it back ready, whatever it is by then. *)
UpdateRoute(r) ==
    /\ route = "ready"
    /\ Begin(r, [Idle EXCEPT !.pc = "update", !.op = "update"])
    /\ UNCHANGED history

PutRoute(r) ==
    /\ request[r].pc = "update"
    /\ route' = "ready"
    /\ raced' = (raced \/ route # "ready")
    /\ Finish(r)
    /\ UNCHANGED <<now, grant, lookup, session, begun, issued, gone>>

(* delete and emergencyRevoke list the grants of the route, by an index    *)
(* that may lag behind, revoke them and then the route itself.             *)
DeleteRoute(r) ==
    /\ route = "ready"
    /\ \E listed \in BOOLEAN :
          /\ listed => grant.status # "absent"
          /\ Begin(r, [Idle EXCEPT !.pc = IF listed THEN "revoke" ELSE "route", !.op = "delete"])
    /\ UNCHANGED history

(* revoke: refused when another request revoked the route first, unless it *)
(* is an emergency.                                                        *)
RevokeRoute(r) ==
    /\ request[r].pc = "route"
    /\ route' = "revoked"
    /\ \/ gone' = gone \cup PresentCredentials
       \/ route = "revoked" /\ gone' = gone
    /\ Finish(r)
    /\ UNCHANGED <<now, grant, lookup, session, begun, issued, raced>>

-----------------------------------------------------------------------------
(* Issuing credentials *)

CreateGrant(r) ==
    /\ route = "ready" /\ grant.status = "absent"
    /\ \A other \in Requests : request[other].op # "create"
    /\ \E c \in Credentials, s \in Sessions \cup {None} :
          /\ FreshCredential(c)
          /\ s # None => FreshSession(s)
          /\ Begin(r, [Idle EXCEPT !.pc = "transact", !.op = "create", !.new = c, !.session = s,
                                   !.at = now])
    /\ UNCHANGED history

(* The transaction of createAccessGrant: the grant and the lookup item. *)
TransactGrant(r) ==
    LET q == request[r] IN
    /\ q.pc = "transact"
    /\ grant' = [status |-> "ready",
                 credentials |-> [NoGrant.credentials EXCEPT ![q.new] =
                                     createStoredCredential(q.session, q.at)]]
    /\ lookup' = lookup \cup {q.new}
    /\ IF q.session = None THEN Finish(r) /\ issued' = issued \cup {q.new}
                           ELSE Goto(r, "session") /\ UNCHANGED issued
    /\ UNCHANGED <<now, route, session, begun, gone, raced>>

(* createManagedSession and createStatelessCredential find the grant.  The *)
(* session comes first, so the grant is read again after it.               *)
AddCredential(r) ==
    /\ grant.status = "ready"
    /\ \E c \in Credentials : FreshCredential(c) /\
          \/ Begin(r, [Idle EXCEPT !.pc = "put", !.op = "add", !.new = c, !.base = grant, !.at = now])
          \/ \E s \in Sessions :
                /\ FreshSession(s)
                /\ Begin(r, [Idle EXCEPT !.pc = "session", !.op = "add", !.new = c, !.session = s])
    /\ UNCHANGED history

createLogicalSession(r) ==
    LET q == request[r] IN
    /\ q.pc = "session"
    /\ session' = [session EXCEPT ![q.session] = "open"]
    /\ IF q.op = "create" THEN Finish(r) /\ issued' = issued \cup {q.new}
                          ELSE Goto(r, "read") /\ UNCHANGED issued
    /\ UNCHANGED <<now, route, grant, lookup, begun, gone, raced>>

ReadGrant(r) ==
    /\ request[r].pc = "read"
    /\ IF grant.status = "ready"
       THEN request' = [request EXCEPT ![r] = [@ EXCEPT !.pc = "put", !.base = grant, !.at = now]]
       ELSE Finish(r)
    /\ UNCHANGED <<now, items, begun, history>>

(* rotateAccessGrantCredential reads the grant and finds the credential. *)
RotateCredential(r) ==
    /\ grant.status = "ready"
    /\ \E c, p \in Credentials, emergency \in BOOLEAN :
          /\ FreshCredential(c) /\ Present(p)
          /\ Begin(r, [Idle EXCEPT !.pc = "put", !.op = "rotate", !.new = c, !.prev = p,
                                   !.session = grant.credentials[p].session,
                                   !.emergency = emergency, !.base = grant, !.at = now])
    /\ UNCHANGED history

(* Mutant of Written: the new credential takes the place of the old one. *)
WrittenReplacing(q) ==
    [q.base EXCEPT !.credentials =
        [c \in Credentials |->
            IF c = q.new THEN createStoredCredential(q.session, q.at)
            ELSE IF c = q.prev THEN NoCredential
            ELSE q.base.credentials[c]]]

(* The item that adding or rotating writes, from the item it read. *)
Written(q) ==
    [q.base EXCEPT !.credentials =
        [c \in Credentials |->
            IF c = q.new THEN createStoredCredential(q.session, q.at)
            ELSE IF c = q.prev THEN Rotated(q.base.credentials[c], q.at, q.emergency)
            ELSE q.base.credentials[c]]]

(* The transaction of both: refused when the grant is revoked. *)
TransactCredential(r) ==
    LET q == request[r] IN
    /\ q.pc = "put"
    /\ \/ /\ grant.status # "revoked"
          /\ grant' = Written(q)
          /\ lookup' = lookup \cup {q.new}
          /\ raced' = (raced \/ grant # q.base)
          /\ issued' = issued \cup {q.new}
          /\ gone' = IF q.emergency THEN gone \cup {q.prev} ELSE gone
       \/ grant.status = "revoked" /\ UNCHANGED <<grant, lookup, history>>
    /\ Finish(r)
    /\ UNCHANGED <<now, route, session, begun>>

-----------------------------------------------------------------------------
(* Taking access away *)

(* revokeAccessGrantCredential reads the grant, revoked or not, and is     *)
(* done when the credential is revoked already.                            *)
RevokeCredential(r) ==
    \E p \in Credentials :
        /\ grant.status # "absent" /\ Present(p)
        /\ IF grant.credentials[p].status = "revoked"
           THEN Begin(r, Idle) /\ gone' = gone \cup {p}
           ELSE /\ Begin(r, [Idle EXCEPT !.pc = "drop", !.op = "drop", !.prev = p,
                                         !.base = grant, !.at = now])
                /\ gone' = gone
        /\ UNCHANGED <<issued, raced>>

(* Its Put has no condition on the status. *)
PutCredential(r) ==
    LET q == request[r] IN
    /\ q.pc = "drop"
    /\ grant' = [q.base EXCEPT !.credentials[q.prev] =
                    [@ EXCEPT !.status = "revoked", !.revokeAt = q.at]]
    /\ raced' = (raced \/ grant # q.base)
    /\ gone' = gone \cup {q.prev}
    /\ Finish(r)
    /\ UNCHANGED <<now, route, lookup, session, begun, issued>>

RevokeGrant(r) ==
    /\ grant.status # "absent"
    /\ Begin(r, [Idle EXCEPT !.pc = "revoke", !.op = "revoke"])
    /\ UNCHANGED history

(* revokeAccessGrant marks the item, and then closes the sessions an index *)
(* lists, which may lag behind.                                            *)
MarkGrant(r) ==
    /\ request[r].pc = "revoke"
    /\ grant' = [grant EXCEPT !.status = "revoked"]
    /\ \E listed \in SUBSET {s \in Sessions : session[s] # "absent"} :
          request' = [request EXCEPT ![r] = [@ EXCEPT !.pc = "close", !.todo = listed]]
    /\ UNCHANGED <<now, route, lookup, session, begun, history>>

CloseListed(r) ==
    /\ request[r].pc = "close"
    /\ \E s \in request[r].todo :
          /\ session' = [session EXCEPT ![s] = "closed"]
          /\ request' = [request EXCEPT ![r].todo = @ \ {s}]
    /\ UNCHANGED <<now, route, grant, lookup, begun, history>>

SessionsClosed(r) ==
    /\ request[r].pc = "close" /\ request[r].todo = {}
    /\ IF request[r].op = "delete" THEN Goto(r, "route") /\ UNCHANGED gone
                                   ELSE Finish(r) /\ gone' = gone \cup PresentCredentials
    /\ UNCHANGED <<now, items, begun, issued, raced>>

(* closeLogicalSession by its caller.  Nothing reopens a session, so the   *)
(* read before the Put decides nothing about its status.                   *)
closeLogicalSession ==
    \E s \in Sessions :
        /\ session[s] = "open"
        /\ session' = [session EXCEPT ![s] = "closed"]
        /\ gone' = gone \cup {c \in Credentials : grant.credentials[c].session = s}
        /\ UNCHANGED <<now, route, grant, lookup, request, begun, issued, raced>>

-----------------------------------------------------------------------------
Tick ==
    /\ now < MaxTime
    /\ now' = now + 1
    /\ UNCHANGED <<items, request, begun, history>>

Step(r) ==
    \/ UpdateRoute(r) \/ PutRoute(r) \/ DeleteRoute(r) \/ RevokeRoute(r)
    \/ CreateGrant(r) \/ TransactGrant(r) \/ AddCredential(r) \/ createLogicalSession(r)
    \/ ReadGrant(r) \/ RotateCredential(r) \/ TransactCredential(r)
    \/ RevokeCredential(r) \/ PutCredential(r)
    \/ RevokeGrant(r) \/ MarkGrant(r) \/ CloseListed(r) \/ SessionsClosed(r)
    \/ Fail(r)

Next == CreateRoute \/ closeLogicalSession \/ Tick \/ \E r \in Requests : Step(r)

Spec == Init /\ [][Next]_vars

-----------------------------------------------------------------------------
Credential == [status: {"absent", "active", "overlap", "revoked"}, session: Sessions \cup {None},
               expiresAt: Nat, revokeAt: Nat]
Grant == [status: {"absent", "ready", "revoked"}, credentials: [Credentials -> Credential]]
Request ==
    [pc: {"idle", "update", "route", "transact", "session", "read", "put", "drop", "revoke", "close"},
     op: {"none", "update", "delete", "create", "add", "rotate", "drop", "revoke"},
     new: Credentials \cup {None}, prev: Credentials \cup {None}, session: Sessions \cup {None},
     emergency: BOOLEAN, base: Grant, at: Nat, todo: SUBSET Sessions]

(* The items and the requests have the shapes the store's decoders accept. *)
TypeOK ==
    /\ now \in Nat
    /\ route \in {"absent", "ready", "revoked"}
    /\ grant \in Grant
    /\ lookup \in SUBSET Credentials
    /\ session \in [Sessions -> {"absent", "open", "closed"}]
    /\ request \in [Requests -> Request]
    /\ begun \in Nat
    /\ issued \in SUBSET Credentials /\ gone \in SUBSET Credentials
    /\ raced \in BOOLEAN

(* Once a revocation, an emergency rotation, a deletion or a close was     *)
(* answered, the credentials it took away authenticate nobody, whatever    *)
(* other requests do and wherever they fail, as long as no request wrote   *)
(* back an item that had changed since it read it.                         *)
RevocationIsFinal == raced \/ \A c \in gone : ~Accepted(c)

(* A credential that rotateAccessGrantCredential or                        *)
(* revokeAccessGrantCredential stored as revoked is never stored otherwise *)
(* again.  docs/USAGE.md: "Emergency rotation invalidates the selected     *)
(* suspected credential immediately."                                      *)
RevokedStaysRevoked ==
    [][\A c \in Credentials : grant.credentials[c].status = "revoked"
                               => grant'.credentials[c].status = "revoked"]_vars

(* A credential whose issuance was answered is never lost: it stays in the *)
(* grant, with the same proviso, and can be found by its user name.        *)
IssuedIsKept == \A c \in issued : c \in lookup /\ (raced \/ Present(c))

(* Only a revokeAccessGrantCredential that read the grant before it was    *)
(* revoked makes a revoked grant ready again: adding and rotating, which   *)
(* also write the whole item, are refused.                                 *)
RevivedByPutOnly ==
    [][grant.status = "revoked" /\ grant.status' = "ready"
        => \E r \in Requests : request[r].pc = "drop" /\ request'[r].pc = "idle"]_vars

(* The credential as the lifecycle sees it: it ended when it was revoked,  *)
(* or its grant, its route or its session was.                             *)
Lifecycle ==
    [c \in Credentials |->
        LET credential == grant.credentials[c] IN
        IF credential.status = "absent"
        THEN [phase |-> "unissued", until |-> 0, expiresAt |-> 0]
        ELSE IF \/ credential.status = "revoked" \/ grant.status = "revoked" \/ route = "revoked"
                \/ credential.session # None /\ session[credential.session] = "closed"
        THEN [phase |-> "ended", until |-> 0, expiresAt |-> 0]
        ELSE [phase |-> "live", until |-> credential.revokeAt, expiresAt |-> credential.expiresAt]]

Abstract == INSTANCE GrantLifecycle WITH credential <- Lifecycle

(* The requests implement the lifecycle of GrantLifecycle up to the first  *)
(* lost update.                                                            *)
ImplementsLifecycle == Abstract!Spec

=============================================================================
