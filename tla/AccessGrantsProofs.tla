------------------------- MODULE AccessGrantsProofs -------------------------
(***************************************************************************)
(* Proofs about AccessGrants for any number of credentials, sessions and   *)
(* concurrent requests: the types, that what was issued is kept and what   *)
(* was revoked stays revoked, and that the requests implement the          *)
(* lifecycle of the credentials (GrantLifecycle).                          *)
(***************************************************************************)
EXTENDS AccessGrants, TLAPS

-----------------------------------------------------------------------------
(* What a request knows by the time it gets somewhere. *)
Prepared(q) ==
    /\ q.pc \in {"transact", "session", "read", "put"} => q.new \in Credentials
    /\ q.pc = "session" => q.session \in Sessions
    /\ q.pc = "drop" \/ q.emergency => q.prev \in Credentials
    /\ q.pc \in {"put", "drop"} => q.base.status # "absent"
    /\ q.pc = "drop" => q.base.credentials[q.prev].status \notin {"absent", "revoked"}

PreparedAll == \A r \in Requests : Prepared(request[r])

Typed == TypeOK /\ PreparedAll

LEMMA NoCredentialType == NoCredential \in Credential
  BY DEF NoCredential, Credential

LEMMA NoGrantType == NoGrant \in Grant
  BY NoCredentialType DEF NoGrant, Grant

LEMMA IdleType == Idle \in Request /\ Idle.pc = "idle" /\ ~Idle.emergency /\ Idle.at = 0
  BY NoGrantType DEF Idle, Request

LEMMA StoredType ==
    ASSUME NEW s \in Sessions \cup {None}, NEW at \in Nat
    PROVE  createStoredCredential(s, at) \in Credential
  BY AccessGrantsConstants DEF createStoredCredential, Credential

LEMMA RotatedType ==
    ASSUME NEW credential \in Credential, NEW at \in Nat, NEW emergency \in BOOLEAN
    PROVE  Rotated(credential, at, emergency) \in Credential
<1>1. /\ credential.expiresAt \in Nat /\ at + Overlap \in Nat
      /\ credential.session \in Sessions \cup {None}
  BY AccessGrantsConstants DEF Credential
<1>2. CASE ~credentialUsable(credential, at)
  BY <1>2 DEF Rotated
<1>3. CASE credentialUsable(credential, at) /\ emergency
  BY <1>3 DEF Rotated, Credential
<1>4. CASE credentialUsable(credential, at) /\ ~emergency
  BY <1>1, <1>4 DEF Rotated, Credential
<1>. QED
  BY <1>2, <1>3, <1>4

LEMMA WrittenType ==
    ASSUME NEW q \in Request, q.new \in Credentials
    PROVE  Written(q) \in Grant
<1>1. q.base \in Grant /\ q.at \in Nat /\ q.emergency \in BOOLEAN /\ q.session \in Sessions \cup {None}
  BY DEF Request
<1>2. \A c \in Credentials : q.base.credentials[c] \in Credential
  BY <1>1 DEF Grant
<1>3. \A c \in Credentials : Rotated(q.base.credentials[c], q.at, q.emergency) \in Credential
  BY <1>1, <1>2, RotatedType
<1>4. createStoredCredential(q.session, q.at) \in Credential
  BY <1>1, StoredType
<1>. QED
  BY <1>1, <1>2, <1>3, <1>4 DEF Written, Grant

(* The item that revoking a credential writes, from the item it read. *)
Dropped(base, p, at) ==
    [base EXCEPT !.credentials[p] = [@ EXCEPT !.status = "revoked", !.revokeAt = at]]

LEMMA DroppedType ==
    ASSUME NEW base \in Grant, NEW p \in Credentials, NEW at \in Nat
    PROVE  /\ Dropped(base, p, at) \in Grant
           /\ Dropped(base, p, at).status = base.status
           /\ \A c \in Credentials : base.credentials[c].status # "absent"
                                      => Dropped(base, p, at).credentials[c].status # "absent"
<1>. DEFINE written == Dropped(base, p, at)
<1>. DEFINE dropped == [base.credentials[p] EXCEPT !.status = "revoked", !.revokeAt = at]
<1>1. base.credentials \in [Credentials -> Credential] /\ base.credentials[p] \in Credential
  BY DEF Grant
<1>2. dropped \in Credential /\ dropped.status = "revoked"
  BY <1>1 DEF Credential
<1>3. written = [base EXCEPT !.credentials = [base.credentials EXCEPT ![p] = dropped]]
  BY DEF Dropped
<1>. HIDE DEF dropped, written
<1>4. [base.credentials EXCEPT ![p] = dropped] \in [Credentials -> Credential]
  BY <1>1, <1>2
<1>5. \A c \in Credentials :
         [base.credentials EXCEPT ![p] = dropped][c] = IF c = p THEN dropped ELSE base.credentials[c]
  BY <1>1
<1>6. /\ written.credentials = [base.credentials EXCEPT ![p] = dropped]
      /\ written.status = base.status
  BY <1>3 DEF Grant
<1>7. written \in Grant
  BY <1>3, <1>4 DEF Grant
<1>. QED
  BY <1>2, <1>5, <1>6, <1>7 DEF written

LEMMA RequestType ==
    ASSUME TypeOK, NEW r \in Requests, NEW q \in Request, request' = [request EXCEPT ![r] = q]
    PROVE  request' \in [Requests -> Request]
  BY DEF TypeOK

LEMMA OnePrepared ==
    ASSUME Typed, NEW r \in Requests, NEW q, request' = [request EXCEPT ![r] = q],
           Prepared(q)
    PROVE  PreparedAll'
<1>. SUFFICES ASSUME NEW x \in Requests PROVE Prepared(request[x])'
  BY DEF PreparedAll
<1>1. CASE x = r
  BY <1>1 DEF Typed, TypeOK
<1>2. CASE x # r
  <2>1. request'[x] = request[x]
    BY <1>2 DEF Typed, TypeOK
  <2>2. Prepared(request[x])
    BY DEF Typed, PreparedAll
  <2>. QED
    BY <2>1, <2>2
<1>. QED
  BY <1>1, <1>2

LEMMA SamePrepared ==
    ASSUME Typed, UNCHANGED request
    PROVE  PreparedAll'
  BY DEF Typed, PreparedAll

(* A request ends. *)
LEMMA FinishTyped ==
    ASSUME Typed, NEW r \in Requests, Finish(r)
    PROVE  request' \in [Requests -> Request] /\ PreparedAll'
<1>1. Prepared(Idle)
  BY IdleType DEF Prepared
<1>. QED
  BY <1>1, IdleType, RequestType, OnePrepared DEF Finish, Typed

(* A request begins by reading the grant. *)
LEMMA BeginTyped ==
    ASSUME Typed, NEW r \in Requests, NEW q \in Request, Begin(r, q), Prepared(q)
    PROVE  request' \in [Requests -> Request] /\ PreparedAll' /\ begun' \in Nat
<1>1. request' = [request EXCEPT ![r] = q] /\ TypeOK
  BY DEF Begin, Typed
<1>2. begun' \in Nat
  BY DEF Begin, Typed, TypeOK
<1>. QED
  BY <1>1, <1>2, RequestType, OnePrepared

LEMMA GotoTyped ==
    ASSUME Typed, NEW r \in Requests, NEW pc \in {"session", "read", "route"}, Goto(r, pc),
           pc = "session" => request[r].session \in Sessions,
           request[r].pc \in {"transact", "session", "close"},
           request[r].pc = "close" => pc = "route"
    PROVE  request' \in [Requests -> Request] /\ PreparedAll'
<1>. DEFINE q == [request[r] EXCEPT !.pc = pc]
<1>1. request[r] \in Request /\ Prepared(request[r])
  BY DEF Typed, TypeOK, PreparedAll
<1>2. q \in Request
  BY <1>1 DEF Request
<1>3. request' = [request EXCEPT ![r] = q]
  BY DEF Goto
<1>4. /\ q.pc = pc /\ q.new = request[r].new /\ q.prev = request[r].prev
      /\ q.session = request[r].session /\ q.emergency = request[r].emergency
  BY <1>1 DEF Request
<1>5. Prepared(q)
  BY <1>1, <1>4 DEF Prepared
<1>. QED
  BY <1>2, <1>3, <1>5, RequestType, OnePrepared DEF Typed

LEMMA TypedInit == Init => Typed
<1>. SUFFICES ASSUME Init PROVE Typed
  OBVIOUS
<1>1. TypeOK
  BY IdleType, NoGrantType DEF Init, TypeOK
<1>2. PreparedAll
  BY IdleType DEF Init, PreparedAll, Prepared
<1>. QED
  BY <1>1, <1>2 DEF Typed

LEMMA TypedNext == Typed /\ [Next]_vars => Typed'
<1>. SUFFICES ASSUME Typed, [Next]_vars PROVE Typed'
  OBVIOUS
<1>. USE DEF items, history
<1>t. TypeOK
  BY DEF Typed
<1>1. CASE CreateRoute
  BY <1>1, <1>t, SamePrepared DEF CreateRoute, Typed, TypeOK
<1>2. CASE closeLogicalSession
  <2>1. PreparedAll'
    BY <1>2, SamePrepared DEF closeLogicalSession
  <2>2. PICK s \in Sessions : session' = [session EXCEPT ![s] = "closed"]
    BY <1>2 DEF closeLogicalSession
  <2>3. session' \in [Sessions -> {"absent", "open", "closed"}] /\ gone' \in SUBSET Credentials
    BY <1>2, <1>t DEF closeLogicalSession, TypeOK
  <2>. QED
    BY <1>2, <1>t, <2>1, <2>3 DEF closeLogicalSession, Typed, TypeOK
<1>3. CASE Tick
  <2>1. now' \in Nat
    BY <1>3, <1>t DEF Tick, TypeOK
  <2>2. PreparedAll'
    BY <1>3, SamePrepared DEF Tick
  <2>. QED
    BY <1>3, <1>t, <2>1, <2>2 DEF Tick, Typed, TypeOK
<1>4. ASSUME NEW r \in Requests, Step(r) PROVE Typed'
  <2>q. request[r] \in Request /\ Prepared(request[r]) /\ now \in Nat /\ grant \in Grant
    BY <1>t DEF Typed, TypeOK, PreparedAll
  <2>i. Idle \in Request /\ Prepared(Idle)
    BY <2>q, IdleType DEF Prepared
  <2>1. CASE UpdateRoute(r)
    <3>. DEFINE q == [Idle EXCEPT !.pc = "update", !.op = "update"]
    <3>1. q \in Request /\ Prepared(q)
      BY <2>i DEF Request, Prepared, Idle
    <3>. QED
      BY <1>t, <2>1, <3>1, BeginTyped DEF UpdateRoute, Typed, TypeOK, Begin
  <2>2. CASE PutRoute(r)
    BY <1>t, <2>2, FinishTyped DEF PutRoute, Typed, TypeOK
  <2>3. CASE DeleteRoute(r)
    <3>1. PICK listed \in BOOLEAN : Begin(r, [Idle EXCEPT !.pc = IF listed THEN "revoke" ELSE "route", !.op = "delete"])
      BY <2>3 DEF DeleteRoute
    <3>. DEFINE q == [Idle EXCEPT !.pc = IF listed THEN "revoke" ELSE "route", !.op = "delete"]
    <3>2. q \in Request /\ Prepared(q)
      BY <2>i DEF Request, Prepared, Idle
    <3>. QED
      BY <1>t, <2>3, <3>1, <3>2, BeginTyped DEF DeleteRoute, Typed, TypeOK, Begin
  <2>4. CASE RevokeRoute(r)
    <3>1. gone' \in SUBSET Credentials
      BY <1>t, <2>4 DEF RevokeRoute, TypeOK, PresentCredentials
    <3>. QED
      BY <1>t, <2>4, <3>1, FinishTyped DEF RevokeRoute, Typed, TypeOK
  <2>5. CASE CreateGrant(r)
    <3>1. PICK c \in Credentials, s \in Sessions \cup {None} :
             Begin(r, [Idle EXCEPT !.pc = "transact", !.op = "create", !.new = c, !.session = s, !.at = now])
      BY <2>5 DEF CreateGrant
    <3>. DEFINE q == [Idle EXCEPT !.pc = "transact", !.op = "create", !.new = c, !.session = s, !.at = now]
    <3>2. q \in Request
      BY <2>q, <2>i DEF Request
    <3>3. Prepared(q)
      BY DEF Prepared, Idle
    <3>. QED
      BY <1>t, <2>5, <3>1, <3>2, <3>3, BeginTyped DEF CreateGrant, Typed, TypeOK, Begin
  <2>6. CASE TransactGrant(r)
    <3>1. request[r].new \in Credentials /\ request[r].session \in Sessions \cup {None}
          /\ request[r].at \in Nat
      BY <2>q, <2>6 DEF TransactGrant, Prepared, Request
    <3>2. createStoredCredential(request[r].session, request[r].at) \in Credential
      BY <3>1, StoredType
    <3>3. grant' \in Grant
      BY <2>6, <3>1, <3>2, NoCredentialType DEF TransactGrant, Grant, NoGrant
    <3>4. request' \in [Requests -> Request] /\ PreparedAll' /\ issued' \in SUBSET Credentials
      <4>1. CASE request[r].session = None
        BY <1>t, <2>6, <3>1, <4>1, FinishTyped DEF TransactGrant, TypeOK
      <4>2. CASE request[r].session # None
        BY <1>t, <2>6, <3>1, <4>2, GotoTyped DEF TransactGrant, TypeOK
      <4>. QED
        BY <4>1, <4>2
    <3>. QED
      BY <1>t, <2>6, <3>1, <3>3, <3>4 DEF TransactGrant, Typed, TypeOK
  <2>7. CASE AddCredential(r)
    <3>1. PICK c \in Credentials :
             \/ Begin(r, [Idle EXCEPT !.pc = "put", !.op = "add", !.new = c, !.base = grant, !.at = now])
             \/ \E s \in Sessions :
                   Begin(r, [Idle EXCEPT !.pc = "session", !.op = "add", !.new = c, !.session = s])
      BY <2>7 DEF AddCredential
    <3>2. PICK q \in Request : Begin(r, q) /\ Prepared(q)
      <4>1. [Idle EXCEPT !.pc = "put", !.op = "add", !.new = c, !.base = grant, !.at = now] \in Request
        BY <2>q, <2>i DEF Request
      <4>2. Prepared([Idle EXCEPT !.pc = "put", !.op = "add", !.new = c, !.base = grant, !.at = now])
        BY <2>7 DEF AddCredential, Prepared, Idle
      <4>3. ASSUME NEW s \in Sessions
            PROVE  [Idle EXCEPT !.pc = "session", !.op = "add", !.new = c, !.session = s] \in Request
        BY <2>i DEF Request
      <4>4. ASSUME NEW s \in Sessions
            PROVE  Prepared([Idle EXCEPT !.pc = "session", !.op = "add", !.new = c, !.session = s])
        BY DEF Prepared, Idle
      <4>. QED
        BY <3>1, <4>1, <4>2, <4>3, <4>4
    <3>. QED
      BY <1>t, <2>7, <3>2, BeginTyped DEF AddCredential, Typed, TypeOK, Begin
  <2>8. CASE createLogicalSession(r)
    <3>1. request[r].new \in Credentials /\ request[r].session \in Sessions
      BY <2>q, <2>8 DEF createLogicalSession, Prepared
    <3>2. session' \in [Sessions -> {"absent", "open", "closed"}]
      BY <1>t, <2>8, <3>1 DEF createLogicalSession, TypeOK
    <3>3. request' \in [Requests -> Request] /\ PreparedAll' /\ issued' \in SUBSET Credentials
      <4>1. CASE request[r].op = "create"
        BY <1>t, <2>8, <3>1, <4>1, FinishTyped DEF createLogicalSession, TypeOK
      <4>2. CASE request[r].op # "create"
        BY <1>t, <2>8, <3>1, <4>2, GotoTyped DEF createLogicalSession, TypeOK
      <4>. QED
        BY <4>1, <4>2
    <3>. QED
      BY <1>t, <2>8, <3>2, <3>3 DEF createLogicalSession, Typed, TypeOK
  <2>9. CASE ReadGrant(r)
    <3>1. request' \in [Requests -> Request] /\ PreparedAll'
      <4>1. CASE grant.status = "ready"
        <5>. DEFINE q == [request[r] EXCEPT !.pc = "put", !.base = grant, !.at = now]
        <5>1. request' = [request EXCEPT ![r] = q]
          BY <2>9, <4>1 DEF ReadGrant
        <5>2. q \in Request
          BY <2>q DEF Request
        <5>3. q.pc = "put" /\ q.base = grant /\ q.at = now /\ q.new = request[r].new
              /\ q.prev = request[r].prev /\ q.emergency = request[r].emergency
          BY <2>q DEF Request
        <5>4. Prepared(q)
          BY <2>9, <2>q, <4>1, <5>3 DEF Prepared, ReadGrant
        <5>. QED
          BY <1>t, <2>9, <5>1, <5>2, <5>4, RequestType, OnePrepared DEF ReadGrant
      <4>2. CASE grant.status # "ready"
        BY <2>9, <4>2, FinishTyped DEF ReadGrant
      <4>. QED
        BY <4>1, <4>2
    <3>. QED
      BY <1>t, <2>9, <3>1 DEF ReadGrant, Typed, TypeOK
  <2>10. CASE RotateCredential(r)
    <3>1. PICK c \in Credentials, p \in Credentials, emergency \in BOOLEAN :
             Begin(r, [Idle EXCEPT !.pc = "put", !.op = "rotate", !.new = c, !.prev = p,
                                   !.session = grant.credentials[p].session,
                                   !.emergency = emergency, !.base = grant, !.at = now])
      BY <2>10 DEF RotateCredential
    <3>. DEFINE q == [Idle EXCEPT !.pc = "put", !.op = "rotate", !.new = c, !.prev = p,
                                   !.session = grant.credentials[p].session,
                                   !.emergency = emergency, !.base = grant, !.at = now]
    <3>2. grant.credentials[p].session \in Sessions \cup {None}
      BY <2>q DEF Grant, Credential
    <3>3. q \in Request
      BY <2>q, <2>i, <3>2 DEF Request, Idle
    <3>4. Prepared(q)
      BY <2>10, <2>q DEF RotateCredential, Prepared, Idle
    <3>. QED
      BY <1>t, <2>10, <3>1, <3>3, <3>4, BeginTyped DEF RotateCredential, Typed, TypeOK, Begin
  <2>11. CASE TransactCredential(r)
    <3>1. request[r].new \in Credentials
      BY <2>q, <2>11 DEF TransactCredential, Prepared
    <3>2. Written(request[r]) \in Grant
      BY <2>q, <3>1, WrittenType
    <3>3. request[r].emergency => request[r].prev \in Credentials
      BY <2>q DEF Prepared
    <3>4. request' \in [Requests -> Request] /\ PreparedAll'
      BY <2>11, FinishTyped DEF TransactCredential
    <3>. QED
      BY <1>t, <2>11, <3>1, <3>2, <3>3, <3>4 DEF TransactCredential, Typed, TypeOK
  <2>12. CASE RevokeCredential(r)
    <3>1. PICK p \in Credentials :
             /\ grant.status # "absent" /\ Present(p)
             /\ IF grant.credentials[p].status = "revoked"
                THEN Begin(r, Idle) /\ gone' = gone \cup {p}
                ELSE /\ Begin(r, [Idle EXCEPT !.pc = "drop", !.op = "drop", !.prev = p,
                                              !.base = grant, !.at = now])
                     /\ gone' = gone
             /\ UNCHANGED <<issued, raced>>
      BY <2>12 DEF RevokeCredential
    <3>. DEFINE q == [Idle EXCEPT !.pc = "drop", !.op = "drop", !.prev = p, !.base = grant, !.at = now]
    <3>2. CASE grant.credentials[p].status = "revoked"
      BY <1>t, <2>i, <3>1, <3>2, BeginTyped DEF Typed, TypeOK, Begin
    <3>3. CASE grant.credentials[p].status # "revoked"
      <4>1. q \in Request
        BY <2>q, <2>i DEF Request, Idle
      <4>2. Prepared(q)
        BY <2>q, <3>1, <3>3 DEF Prepared, Idle, Present
      <4>. QED
        BY <1>t, <3>1, <3>3, <4>1, <4>2, BeginTyped DEF Typed, TypeOK, Begin
    <3>. QED
      BY <3>2, <3>3
  <2>13. CASE PutCredential(r)
    <3>1. request[r].prev \in Credentials /\ request[r].base \in Grant /\ request[r].at \in Nat
      BY <2>q, <2>13 DEF PutCredential, Prepared, Request
    <3>2. grant' \in Grant
      <4>1. grant' = Dropped(request[r].base, request[r].prev, request[r].at)
        BY <2>13 DEF PutCredential, Dropped
      <4>. QED
        BY <3>1, <4>1, DroppedType
    <3>3. request' \in [Requests -> Request] /\ PreparedAll'
      BY <2>13, FinishTyped DEF PutCredential
    <3>. QED
      BY <1>t, <2>13, <3>1, <3>2, <3>3 DEF PutCredential, Typed, TypeOK
  <2>14. CASE RevokeGrant(r)
    <3>. DEFINE q == [Idle EXCEPT !.pc = "revoke", !.op = "revoke"]
    <3>1. q \in Request /\ Prepared(q)
      BY <2>i DEF Request, Prepared, Idle
    <3>. QED
      BY <1>t, <2>14, <3>1, BeginTyped DEF RevokeGrant, Typed, TypeOK, Begin
  <2>15. CASE MarkGrant(r)
    <3>1. PICK listed \in SUBSET Sessions :
             request' = [request EXCEPT ![r] = [request[r] EXCEPT !.pc = "close", !.todo = listed]]
      BY <2>15 DEF MarkGrant
    <3>. DEFINE q == [request[r] EXCEPT !.pc = "close", !.todo = listed]
    <3>2. q \in Request
      BY <2>q DEF Request
    <3>3. Prepared(q)
      BY <2>q, <2>15 DEF Prepared, MarkGrant, Request
    <3>4. grant' \in Grant
      BY <2>q, <2>15 DEF MarkGrant, Grant
    <3>. QED
      BY <1>t, <2>15, <3>1, <3>2, <3>3, <3>4, RequestType, OnePrepared DEF MarkGrant, Typed, TypeOK
  <2>16. CASE CloseListed(r)
    <3>1. PICK s \in request[r].todo :
             /\ session' = [session EXCEPT ![s] = "closed"]
             /\ request' = [request EXCEPT ![r] = [request[r] EXCEPT !.todo = request[r].todo \ {s}]]
      BY <2>16 DEF CloseListed
    <3>. DEFINE q == [request[r] EXCEPT !.todo = request[r].todo \ {s}]
    <3>2. q \in Request /\ s \in Sessions
      BY <2>q DEF Request
    <3>3. Prepared(q)
      BY <2>q, <2>16 DEF Prepared, CloseListed, Request
    <3>4. session' \in [Sessions -> {"absent", "open", "closed"}]
      BY <1>t, <3>1, <3>2 DEF TypeOK
    <3>5. request' \in [Requests -> Request] /\ PreparedAll'
      BY <1>t, <3>1, <3>2, <3>3, RequestType, OnePrepared
    <3>. QED
      BY <1>t, <2>16, <3>4, <3>5 DEF CloseListed, Typed, TypeOK
  <2>17. CASE SessionsClosed(r)
    <3>1. request' \in [Requests -> Request] /\ PreparedAll'
      <4>1. CASE request[r].op = "delete"
        BY <2>17, <4>1, GotoTyped DEF SessionsClosed
      <4>2. CASE request[r].op # "delete"
        BY <2>17, <4>2, FinishTyped DEF SessionsClosed
      <4>. QED
        BY <4>1, <4>2
    <3>2. gone' \in SUBSET Credentials
      BY <1>t, <2>17 DEF SessionsClosed, TypeOK, PresentCredentials
    <3>. QED
      BY <1>t, <2>17, <3>1, <3>2 DEF SessionsClosed, Typed, TypeOK
  <2>18. CASE Fail(r)
    BY <1>t, <2>18, FinishTyped DEF Fail, Typed, TypeOK
  <2>. QED
    BY <1>4, <2>1, <2>2, <2>3, <2>4, <2>5, <2>6, <2>7, <2>8, <2>9, <2>10, <2>11, <2>12, <2>13,
       <2>14, <2>15, <2>16, <2>17, <2>18 DEF Step
<1>5. CASE UNCHANGED vars
  BY <1>5, <1>t, SamePrepared DEF vars, Typed, TypeOK
<1>. QED
  BY <1>1, <1>2, <1>3, <1>4, <1>5 DEF Next

(* Types: whatever the requests do, the items and the requests keep their  *)
(* shapes.                                                                 *)
THEOREM GrantTypes == Spec => []TypeOK
<1>1. Spec => []Typed
  BY TypedInit, TypedNext, PTL DEF Spec
<1>2. Typed => TypeOK
  BY DEF Typed
<1>. QED
  BY <1>1, <1>2, PTL

-----------------------------------------------------------------------------
(* Nothing is written to a grant before it exists, and it is created once: *)
(* so no write can lose a credential but one that raced.                   *)
Kept(c) == c \in lookup /\ (raced \/ Present(c))

Staged(q) ==
    /\ q.pc \in {"session", "read", "put", "drop", "revoke"} => grant.status # "absent"
    /\ q.pc = "transact" => grant.status = "absent" /\ q.op = "create"
    /\ q.pc = "session" /\ q.op = "create" => Kept(q.new)

OneCreate == \A x, y \in Requests : request[x].op = "create" /\ request[y].op = "create" => x = y

Stages ==
    /\ \A r \in Requests : Staged(request[r])
    /\ OneCreate
    /\ grant.status = "absent" => issued = {}
    /\ IssuedIsKept

KInv == Typed /\ Stages

(* A request moves on, and the grant neither appears nor loses credentials. *)
LEMMA Advance ==
    ASSUME Typed, Stages, NEW r \in Requests, NEW q, request' = [request EXCEPT ![r] = q],
           Staged(q)',
           q.op = "create" => request[r].op = "create" \/ \A x \in Requests : request[x].op # "create",
           grant'.status = "absent" <=> grant.status = "absent",
           \A c \in Credentials : Kept(c) => Kept(c)',
           issued' \subseteq issued
    PROVE  Stages'
<1>1. request \in [Requests -> Request] /\ issued \in SUBSET Credentials
  BY DEF Typed, TypeOK
<1>2. \A x \in Requests : request'[x] = IF x = r THEN q ELSE request[x]
  BY <1>1
<1>3. ASSUME NEW x \in Requests PROVE Staged(request[x])'
  <2>1. CASE x = r
    BY <1>2, <2>1
  <2>2. CASE x # r
    <3>1. request'[x] = request[x] /\ Staged(request[x])
      BY <1>2, <2>2 DEF Stages
    <3>2. request[x].pc = "session" => request[x].new \in Credentials
      BY DEF Typed, PreparedAll, Prepared
    <3>3. request[x].pc = "session" /\ request[x].op = "create" => Kept(request[x].new)'
      BY <3>1, <3>2 DEF Staged
    <3>. QED
      BY <3>1, <3>3 DEF Staged
  <2>. QED
    BY <2>1, <2>2
<1>4. OneCreate'
  BY <1>2 DEF OneCreate, Stages
<1>5. IssuedIsKept'
  <2>1. \A c \in issued : Kept(c)
    BY DEF Stages, IssuedIsKept, Kept
  <2>2. \A c \in issued' : Kept(c)'
    BY <1>1, <2>1
  <2>. QED
    BY <2>2 DEF IssuedIsKept, Kept
<1>6. grant'.status = "absent" => issued' = {}
  BY DEF Stages
<1>. QED
  BY <1>3, <1>4, <1>5, <1>6 DEF Stages

(* The same when the step writes nothing to the grant. *)
LEMMA Aside ==
    ASSUME Typed, Stages, NEW r \in Requests, NEW q, request' = [request EXCEPT ![r] = q],
           UNCHANGED <<grant, lookup, issued>>, raced => raced', Staged(q)',
           q.op = "create" => request[r].op = "create" \/ \A x \in Requests : request[x].op # "create"
    PROVE  Stages'
<1>1. \A c \in Credentials : Kept(c) => Kept(c)'
  BY DEF Kept, Present
<1>. QED
  BY <1>1, Advance

LEMMA Unmoved ==
    ASSUME Stages, UNCHANGED <<grant, lookup, issued, raced, request>>
    PROVE  Stages'
  BY DEF Stages, Staged, OneCreate, IssuedIsKept, Kept, Present

(* Neither adding and rotating nor revoking a credential drops another     *)
(* credential of the item it was computed from.                            *)
LEMMA RotatedKeeps ==
    ASSUME NEW credential \in Credential, NEW at, NEW emergency, credential.status # "absent"
    PROVE  Rotated(credential, at, emergency).status # "absent"
<1>1. CASE ~credentialUsable(credential, at)
  BY <1>1 DEF Rotated
<1>2. CASE credentialUsable(credential, at) /\ emergency
  BY <1>2 DEF Rotated, Credential
<1>3. CASE credentialUsable(credential, at) /\ ~emergency
  BY <1>3 DEF Rotated, Credential
<1>. QED
  BY <1>1, <1>2, <1>3

LEMMA WrittenKeeps ==
    ASSUME NEW q \in Request, q.new \in Credentials
    PROVE  /\ Written(q).status = q.base.status
           /\ Written(q).credentials[q.new].status # "absent"
           /\ \A c \in Credentials : q.base.credentials[c].status # "absent"
                                      => Written(q).credentials[c].status # "absent"
<1>1. q.base \in Grant /\ q.at \in Nat /\ q.emergency \in BOOLEAN
      /\ \A c \in Credentials : q.base.credentials[c] \in Credential
  BY DEF Request, Grant
<1>2. Written(q).status = q.base.status
  BY <1>1 DEF Written, Grant
<1>3. \A c \in Credentials :
         Written(q).credentials[c] =
            IF c = q.new THEN createStoredCredential(q.session, q.at)
            ELSE IF c = q.prev THEN Rotated(q.base.credentials[c], q.at, q.emergency)
            ELSE q.base.credentials[c]
  BY <1>1 DEF Written, Grant
<1>4. createStoredCredential(q.session, q.at).status = "active"
  BY DEF createStoredCredential
<1>5. \A c \in Credentials : q.base.credentials[c].status # "absent"
                              => Rotated(q.base.credentials[c], q.at, q.emergency).status # "absent"
  BY <1>1, RotatedKeeps
<1>. QED
  BY <1>2, <1>3, <1>4, <1>5

LEMMA StagesInit == Init => Stages
  BY IdleType DEF Init, Stages, Staged, OneCreate, IssuedIsKept, Kept, Idle

LEMMA StagesNext == Typed /\ Stages /\ [Next]_vars => Stages'
<1>. SUFFICES ASSUME Typed, Stages, [Next]_vars PROVE Stages'
  OBVIOUS
<1>. USE DEF items, history
<1>1. CASE CreateRoute
  BY <1>1, Unmoved DEF CreateRoute
<1>2. CASE closeLogicalSession
  BY <1>2, Unmoved DEF closeLogicalSession
<1>3. CASE Tick
  BY <1>3, Unmoved DEF Tick
<1>4. ASSUME NEW r \in Requests, Step(r) PROVE Stages'
  <2>q. request[r] \in Request /\ Prepared(request[r]) /\ Staged(request[r])
    BY DEF Typed, TypeOK, PreparedAll, Stages
  <2>i. Idle.pc = "idle" /\ Idle.op = "none" /\ Staged(Idle)'
    BY DEF Idle, Staged
  <2>1. CASE UpdateRoute(r)
    <3>. DEFINE q == [Idle EXCEPT !.pc = "update", !.op = "update"]
    <3>1. q.pc = "update" /\ q.op = "update"
      BY DEF Idle
    <3>2. Staged(q)'
      BY <3>1 DEF Staged
    <3>. QED
      BY <2>1, <3>1, <3>2, Aside DEF UpdateRoute, Begin
  <2>2. CASE PutRoute(r)
    BY <2>2, <2>i, Aside DEF PutRoute, Finish
  <2>3. CASE DeleteRoute(r)
    <3>1. PICK listed \in BOOLEAN :
             /\ listed => grant.status # "absent"
             /\ Begin(r, [Idle EXCEPT !.pc = IF listed THEN "revoke" ELSE "route", !.op = "delete"])
      BY <2>3 DEF DeleteRoute
    <3>. DEFINE q == [Idle EXCEPT !.pc = IF listed THEN "revoke" ELSE "route", !.op = "delete"]
    <3>2. q.pc = (IF listed THEN "revoke" ELSE "route") /\ q.op = "delete"
      BY DEF Idle
    <3>3. Staged(q)'
      BY <3>1, <3>2 DEF Staged, Begin
    <3>. QED
      BY <2>3, <3>1, <3>2, <3>3, Aside DEF DeleteRoute, Begin
  <2>4. CASE RevokeRoute(r)
    BY <2>4, <2>i, Aside DEF RevokeRoute, Finish
  <2>5. CASE CreateGrant(r)
    <3>1. PICK c \in Credentials, s \in Sessions \cup {None} :
             Begin(r, [Idle EXCEPT !.pc = "transact", !.op = "create", !.new = c, !.session = s, !.at = now])
      BY <2>5 DEF CreateGrant
    <3>. DEFINE q == [Idle EXCEPT !.pc = "transact", !.op = "create", !.new = c, !.session = s, !.at = now]
    <3>2. q.pc = "transact" /\ q.op = "create"
      BY DEF Idle
    <3>3. Staged(q)'
      BY <2>5, <3>1, <3>2 DEF Staged, Begin, CreateGrant
    <3>. QED
      BY <2>5, <3>1, <3>2, <3>3, Aside DEF CreateGrant, Begin
  <2>6. CASE TransactGrant(r)
    <3>0. PICK q : q = request[r]
      OBVIOUS
    <3>1. q.new \in Credentials /\ q.op = "create" /\ grant.status = "absent" /\ q.session \in Sessions \cup {None}
      BY <2>q, <3>0, <2>6 DEF TransactGrant, Prepared, Staged, Request
    <3>2. grant'.status = "ready" /\ Present(q.new)' /\ q.new \in lookup'
      BY <3>0, <2>6, <3>1 DEF TransactGrant, Present, NoGrant, createStoredCredential
    <3>3. issued' \subseteq {q.new}
      BY <3>0, <2>6, <3>1 DEF TransactGrant, Stages
    <3>4. IssuedIsKept'
      BY <3>2, <3>3 DEF IssuedIsKept
    <3>5. PICK p : /\ request' = [request EXCEPT ![r] = p]
                   /\ p = Idle \/ (p.pc = "session" /\ p.op = "create" /\ p.new = q.new)
      <4>1. CASE q.session = None
        BY <3>0, <2>6, <4>1 DEF TransactGrant, Finish
      <4>2. CASE q.session # None
        <5>1. request' = [request EXCEPT ![r] = [q EXCEPT !.pc = "session"]]
          BY <3>0, <2>6, <4>2 DEF TransactGrant, Goto
        <5>2. [q EXCEPT !.pc = "session"].pc = "session" /\ [q EXCEPT !.pc = "session"].op = q.op
              /\ [q EXCEPT !.pc = "session"].new = q.new
          BY <3>0, <2>q DEF Request
        <5>. QED
          BY <3>1, <5>1, <5>2
      <4>. QED
        BY <4>1, <4>2
    <3>6. Staged(p)'
      BY <2>i, <3>2, <3>5 DEF Staged, Kept
    <3>7. \A x \in Requests : request'[x] = IF x = r THEN p ELSE request[x]
      BY <3>5 DEF Typed, TypeOK
    <3>8. \A x \in Requests : x # r => request[x].op # "create"
      BY <3>0, <3>1 DEF Stages, OneCreate
    <3>9. ASSUME NEW x \in Requests PROVE Staged(request[x])'
      <4>1. CASE x = r
        BY <3>6, <3>7, <4>1
      <4>2. CASE x # r
        <5>1. Staged(request[x]) /\ request[x].op # "create" /\ request'[x] = request[x]
          BY <3>7, <3>8, <4>2 DEF Stages
        <5>. QED
          BY <3>2, <5>1 DEF Staged
      <4>. QED
        BY <4>1, <4>2
    <3>10. OneCreate'
      BY <3>7, <3>8 DEF OneCreate
    <3>. QED
      BY <3>2, <3>4, <3>9, <3>10 DEF Stages
  <2>7. CASE AddCredential(r)
    <3>1. PICK q : /\ Begin(r, q) /\ q.op = "add" /\ q.pc # "transact"
      <4>1. PICK c \in Credentials :
               \/ Begin(r, [Idle EXCEPT !.pc = "put", !.op = "add", !.new = c, !.base = grant, !.at = now])
               \/ \E s \in Sessions :
                     Begin(r, [Idle EXCEPT !.pc = "session", !.op = "add", !.new = c, !.session = s])
        BY <2>7 DEF AddCredential
      <4>2. \A s : /\ [Idle EXCEPT !.pc = "session", !.op = "add", !.new = c, !.session = s].op = "add"
                   /\ [Idle EXCEPT !.pc = "session", !.op = "add", !.new = c, !.session = s].pc = "session"
        BY DEF Idle
      <4>3. /\ [Idle EXCEPT !.pc = "put", !.op = "add", !.new = c, !.base = grant, !.at = now].op = "add"
            /\ [Idle EXCEPT !.pc = "put", !.op = "add", !.new = c, !.base = grant, !.at = now].pc = "put"
        BY DEF Idle
      <4>. QED
        BY <4>1, <4>2, <4>3
    <3>2. Staged(q)'
      BY <2>7, <3>1 DEF Staged, AddCredential, Begin
    <3>. QED
      BY <2>7, <3>1, <3>2, Aside DEF AddCredential, Begin
  <2>8. CASE createLogicalSession(r)
    <3>0. PICK q : q = request[r]
      OBVIOUS
    <3>1. q.pc = "session" /\ grant.status # "absent" /\ UNCHANGED <<grant, lookup, raced>>
      BY <2>q, <3>0, <2>8 DEF createLogicalSession, Staged
    <3>2. CASE q.op = "create"
      <4>1. q.new \in lookup' /\ (raced' \/ Present(q.new)')
        BY <2>q, <3>0, <3>1, <3>2 DEF Staged, Kept, Present
      <4>2. issued' = issued \cup {q.new} /\ Finish(r)
        BY <3>0, <2>8, <3>2 DEF createLogicalSession
      <4>3. IssuedIsKept'
        BY <3>1, <4>1, <4>2 DEF Stages, IssuedIsKept, Present
      <4>4. \A x \in Requests : request'[x] = IF x = r THEN Idle ELSE request[x]
        BY <4>2 DEF Finish, Typed, TypeOK
      <4>5. \A x \in Requests : Staged(request[x])'
        BY <2>i, <3>1, <4>4 DEF Stages, Staged, Kept, Present
      <4>6. OneCreate'
        BY <2>i, <4>4 DEF Stages, OneCreate
      <4>. QED
        BY <3>1, <4>3, <4>5, <4>6 DEF Stages
    <3>3. CASE q.op # "create"
      <4>0. PICK p : p = [request[r] EXCEPT !.pc = "read"]
        OBVIOUS
      <4>1. p.pc = "read" /\ p.op = q.op
        BY <3>0, <4>0, <2>q DEF Request
      <4>2. request' = [request EXCEPT ![r] = p] /\ issued' = issued
        BY <3>0, <4>0, <2>8, <3>3 DEF createLogicalSession, Goto
      <4>3. Staged(p)'
        BY <3>1, <4>1 DEF Staged
      <4>. QED
        BY <3>1, <3>3, <4>1, <4>2, <4>3, Aside
    <3>. QED
      BY <3>2, <3>3
  <2>9. CASE ReadGrant(r)
    <3>1. CASE grant.status = "ready"
      <4>0. PICK q : q = [request[r] EXCEPT !.pc = "put", !.base = grant, !.at = now]
        OBVIOUS
      <4>1. q.pc = "put" /\ q.op = request[r].op
        BY <4>0, <2>q DEF Request
      <4>2. Staged(q)'
        BY <4>0, <2>9, <3>1, <4>1 DEF Staged, ReadGrant
      <4>. QED
        BY <4>0, <2>9, <3>1, <4>1, <4>2, Aside DEF ReadGrant
    <3>2. CASE grant.status # "ready"
      BY <2>9, <2>i, <3>2, Aside DEF ReadGrant, Finish
    <3>. QED
      BY <3>1, <3>2
  <2>10. CASE RotateCredential(r)
    <3>1. PICK q : Begin(r, q) /\ q.pc = "put" /\ q.op = "rotate"
      <4>1. PICK c \in Credentials, p \in Credentials, emergency \in BOOLEAN :
               Begin(r, [Idle EXCEPT !.pc = "put", !.op = "rotate", !.new = c, !.prev = p,
                                     !.session = grant.credentials[p].session,
                                     !.emergency = emergency, !.base = grant, !.at = now])
        BY <2>10 DEF RotateCredential
      <4>. DEFINE q == [Idle EXCEPT !.pc = "put", !.op = "rotate", !.new = c, !.prev = p,
                                     !.session = grant.credentials[p].session,
                                     !.emergency = emergency, !.base = grant, !.at = now]
      <4>2. q.pc = "put" /\ q.op = "rotate"
        BY DEF Idle
      <4>. QED
        BY <4>1, <4>2
    <3>2. Staged(q)'
      BY <2>10, <3>1 DEF Staged, RotateCredential, Begin
    <3>. QED
      BY <2>10, <3>1, <3>2, Aside DEF RotateCredential, Begin
  <2>11. CASE TransactCredential(r)
    <3>0. PICK q : q = request[r]
      OBVIOUS
    <3>1. q.new \in Credentials /\ grant.status # "absent" /\ q.base.status # "absent" /\ Finish(r)
      BY <2>q, <3>0, <2>11 DEF TransactCredential, Prepared, Staged
    <3>2. CASE grant.status # "revoked"
      <4>1. /\ grant' = Written(q) /\ lookup' = lookup \cup {q.new}
            /\ raced' = (raced \/ grant # q.base) /\ issued' = issued \cup {q.new}
        BY <3>0, <2>11, <3>2 DEF TransactCredential
      <4>2. grant'.status # "absent" /\ Kept(q.new)'
        BY <2>q, <3>0, <3>1, <4>1, WrittenKeeps DEF Kept, Present
      <4>3. \A c \in Credentials : Kept(c) => Kept(c)'
        BY <2>q, <3>0, <3>1, <4>1, WrittenKeeps DEF Kept, Present
      <4>4. \A c \in issued' : Kept(c)'
        BY <4>1, <4>2, <4>3 DEF Stages, IssuedIsKept, Kept, Typed, TypeOK
      <4>5. \A x \in Requests : request'[x] = IF x = r THEN Idle ELSE request[x]
        BY <3>1 DEF Finish, Typed, TypeOK
      <4>6. ASSUME NEW x \in Requests PROVE Staged(request[x])'
        <5>1. CASE x = r
          BY <2>i, <4>5, <5>1
        <5>2. CASE x # r
          <6>1. request'[x] = request[x] /\ Staged(request[x])
            BY <4>5, <5>2 DEF Stages
          <6>2. request[x].pc = "session" => request[x].new \in Credentials
            BY DEF Typed, PreparedAll, Prepared
          <6>3. request[x].pc = "session" /\ request[x].op = "create" => Kept(request[x].new)'
            BY <4>3, <6>1, <6>2 DEF Staged
          <6>. QED
            BY <3>1, <4>2, <6>1, <6>3 DEF Staged
        <5>. QED
          BY <5>1, <5>2
      <4>7. OneCreate'
        BY <2>i, <4>5 DEF Stages, OneCreate
      <4>. QED
        BY <4>2, <4>4, <4>6, <4>7 DEF Stages, IssuedIsKept, Kept
    <3>3. CASE grant.status = "revoked"
      <4>1. UNCHANGED <<grant, lookup, issued, raced>>
        BY <2>11, <3>3 DEF TransactCredential
      <4>2. request' = [request EXCEPT ![r] = Idle]
        BY <3>1 DEF Finish
      <4>. QED
        BY <2>i, <4>1, <4>2, Aside
    <3>. QED
      BY <3>2, <3>3
  <2>12. CASE RevokeCredential(r)
    <3>1. PICK q : Begin(r, q) /\ q.pc \in {"idle", "drop"} /\ q.op # "create"
      <4>1. PICK p \in Credentials :
               \/ Begin(r, Idle)
               \/ Begin(r, [Idle EXCEPT !.pc = "drop", !.op = "drop", !.prev = p, !.base = grant, !.at = now])
        BY <2>12 DEF RevokeCredential
      <4>. DEFINE q == [Idle EXCEPT !.pc = "drop", !.op = "drop", !.prev = p, !.base = grant, !.at = now]
      <4>2. q.pc = "drop" /\ q.op = "drop"
        BY DEF Idle
      <4>. QED
        BY <2>i, <4>1, <4>2
    <3>2. grant.status # "absent" /\ UNCHANGED <<issued, raced>>
      BY <2>12 DEF RevokeCredential
    <3>3. Staged(q)'
      BY <3>1, <3>2 DEF Staged, Begin
    <3>. QED
      BY <3>1, <3>2, <3>3, Aside DEF Begin
  <2>13. CASE PutCredential(r)
    <3>0. PICK q : q = request[r]
      OBVIOUS
    <3>1. q.prev \in Credentials /\ q.base \in Grant /\ q.at \in Nat /\ q.base.status # "absent" /\ grant.status # "absent"
      BY <2>q, <3>0, <2>13 DEF PutCredential, Prepared, Staged, Request
    <3>2. /\ grant'.status = q.base.status
          /\ \A c \in Credentials : q.base.credentials[c].status # "absent"
                                     => grant'.credentials[c].status # "absent"
      <4>1. grant' = Dropped(q.base, q.prev, q.at)
        BY <2>13, <3>0 DEF PutCredential, Dropped
      <4>. QED
        BY <3>1, <4>1, DroppedType
    <3>3. lookup' = lookup /\ raced' = (raced \/ grant # q.base) /\ issued' = issued /\ Finish(r)
      BY <3>0, <2>13 DEF PutCredential
    <3>4. \A c \in Credentials : Kept(c) => Kept(c)'
      BY <3>2, <3>3 DEF Kept, Present
    <3>. QED
      BY <2>i, <3>1, <3>2, <3>3, <3>4, Advance DEF Finish
  <2>14. CASE RevokeGrant(r)
    <3>. DEFINE q == [Idle EXCEPT !.pc = "revoke", !.op = "revoke"]
    <3>1. q.pc = "revoke" /\ q.op = "revoke"
      BY DEF Idle
    <3>2. Staged(q)'
      BY <2>14, <3>1 DEF Staged, RevokeGrant, Begin
    <3>. QED
      BY <2>14, <3>1, <3>2, Aside DEF RevokeGrant, Begin
  <2>15. CASE MarkGrant(r)
    <3>1. PICK listed \in SUBSET Sessions :
             request' = [request EXCEPT ![r] = [request[r] EXCEPT !.pc = "close", !.todo = listed]]
      BY <2>15 DEF MarkGrant
    <3>0. PICK q : q = [request[r] EXCEPT !.pc = "close", !.todo = listed]
      OBVIOUS
    <3>2. q.pc = "close" /\ q.op = request[r].op
      BY <3>0, <2>q DEF Request
    <3>3. /\ grant.status # "absent" /\ grant'.status # "absent"
          /\ \A c \in Credentials : grant'.credentials[c] = grant.credentials[c]
      BY <2>q, <3>0, <2>15 DEF MarkGrant, Staged, Typed, TypeOK, Grant
    <3>4. \A c \in Credentials : Kept(c) => Kept(c)'
      BY <3>0, <2>15, <3>3 DEF Kept, Present, MarkGrant
    <3>5. Staged(q)'
      BY <3>2 DEF Staged
    <3>6. issued' = issued
      BY <3>0, <2>15 DEF MarkGrant
    <3>. QED
      BY <3>0, <3>1, <3>2, <3>3, <3>4, <3>5, <3>6, Advance
  <2>16. CASE CloseListed(r)
    <3>1. PICK s \in request[r].todo :
             request' = [request EXCEPT ![r] = [request[r] EXCEPT !.todo = request[r].todo \ {s}]]
      BY <2>16 DEF CloseListed
    <3>0. PICK q : q = [request[r] EXCEPT !.todo = request[r].todo \ {s}]
      OBVIOUS
    <3>2. q.pc = "close" /\ q.op = request[r].op
      BY <2>q, <3>0, <2>16 DEF Request, CloseListed
    <3>3. Staged(q)'
      BY <3>2 DEF Staged
    <3>. QED
      BY <3>0, <2>16, <3>1, <3>2, <3>3, Aside DEF CloseListed
  <2>17. CASE SessionsClosed(r)
    <3>1. CASE request[r].op = "delete"
      <4>0. PICK q : q = [request[r] EXCEPT !.pc = "route"]
        OBVIOUS
      <4>1. q.pc = "route" /\ q.op = request[r].op
        BY <4>0, <2>q DEF Request
      <4>2. Staged(q)'
        BY <4>1 DEF Staged
      <4>. QED
        BY <4>0, <2>17, <3>1, <4>1, <4>2, Aside DEF SessionsClosed, Goto
    <3>2. CASE request[r].op # "delete"
      BY <2>17, <2>i, <3>2, Aside DEF SessionsClosed, Finish
    <3>. QED
      BY <3>1, <3>2
  <2>18. CASE Fail(r)
    BY <2>18, <2>i, Aside DEF Fail, Finish
  <2>. QED
    BY <1>4, <2>1, <2>2, <2>3, <2>4, <2>5, <2>6, <2>7, <2>8, <2>9, <2>10, <2>11, <2>12, <2>13,
       <2>14, <2>15, <2>16, <2>17, <2>18 DEF Step
<1>5. CASE UNCHANGED vars
  BY <1>5, Unmoved DEF vars
<1>. QED
  BY <1>1, <1>2, <1>3, <1>4, <1>5 DEF Next

LEMMA KeptInvariant == Spec => []KInv
<1>1. Init => KInv
  BY TypedInit, StagesInit DEF KInv
<1>2. KInv /\ [Next]_vars => KInv'
  BY TypedNext, StagesNext DEF KInv
<1>. QED
  BY <1>1, <1>2, PTL DEF Spec

(* No request loses a credential that was issued, for any number of        *)
(* requests, unless it wrote back an item changed since it read it.        *)
THEOREM CredentialsKept == Spec => []IssuedIsKept
<1>1. KInv => IssuedIsKept
  BY DEF KInv, Stages
<1>. QED
  BY <1>1, KeptInvariant, PTL

(* Only the unconditional Put of revokeAccessGrantCredential revives a     *)
(* revoked grant, for any number of requests.                              *)
THEOREM RevivalsArePuts == Spec => RevivedByPutOnly
<1>. DEFINE Revival == grant.status = "revoked" /\ grant.status' = "ready"
                        => \E r \in Requests : request[r].pc = "drop" /\ request'[r].pc = "idle"
<1>1. KInv /\ [Next]_vars => [Revival]_vars
  <2>. SUFFICES ASSUME KInv, Next, grant.status = "revoked", grant.status' = "ready"
                PROVE  \E r \in Requests : request[r].pc = "drop" /\ request'[r].pc = "idle"
    OBVIOUS
  <2>. USE DEF items, history
  <2>1. grant' # grant
    OBVIOUS
  <2>2. PICK r \in Requests : TransactGrant(r) \/ TransactCredential(r) \/ PutCredential(r) \/ MarkGrant(r)
    BY <2>1 DEF Next, CreateRoute, closeLogicalSession, Tick, Step, UpdateRoute, PutRoute, DeleteRoute,
       RevokeRoute, CreateGrant, AddCredential, createLogicalSession, ReadGrant, RotateCredential,
       RevokeCredential, RevokeGrant, CloseListed, SessionsClosed, Fail, Begin
  <2>3. ~TransactGrant(r)
    BY DEF TransactGrant, KInv, Stages, Staged
  <2>4. ~TransactCredential(r)
    BY <2>1 DEF TransactCredential
  <2>5. ~MarkGrant(r)
    BY DEF MarkGrant, KInv, Typed, TypeOK, Grant
  <2>6. PutCredential(r)
    BY <2>2, <2>3, <2>4, <2>5
  <2>7. request[r].pc = "drop" /\ request'[r].pc = "idle"
    BY <2>6, IdleType DEF PutCredential, Finish, KInv, Typed, TypeOK
  <2>. QED
    BY <2>7
<1>2. Spec => [][Revival]_vars
  BY <1>1, KeptInvariant, PTL DEF Spec
<1>. QED
  BY <1>2 DEF RevivedByPutOnly

-----------------------------------------------------------------------------
(* Revocations                                                               *)

(* Every credential of an item has a lookup item. *)
Rooted(item) == \A c \in Credentials : item.credentials[c] # NoCredential => c \in lookup

(* The credential, and the session, that a request has yet to store. *)
Storing(q) == q.pc \in {"transact", "read", "put"} \/ (q.pc = "session" /\ q.op = "add")
Opening(q) == q.pc \in {"transact", "session"} /\ q.session # None

(* What a request holds of the items: its ids are unused, it closes what   *)
(* exists, the item it read is older than the stored one, and it goes on   *)
(* to the sessions of a grant only when that is revoked.                   *)
Holds(q) ==
    /\ q.pc = "session" => q.op \in {"add", "create"}
    /\ q.pc \in {"transact", "session", "read"} => q.prev = None
    /\ q.pc = "put" /\ q.prev # None =>
          q.prev \in lookup /\ q.session = q.base.credentials[q.prev].session
    /\ Storing(q) => q.new \notin lookup
    /\ Opening(q) => session[q.session] = "absent"
    /\ q.pc = "close" => \A s \in q.todo : session[s] # "absent"
    /\ q.pc \in {"transact", "put", "drop"} => q.at <= now
    /\ q.pc \in {"put", "drop"} => Rooted(q.base)
    /\ ~raced /\ q.pc \in {"put", "drop"} =>
          \A c \in Credentials : q.base.credentials[c].status = "revoked"
                                  => grant.credentials[c].status = "revoked"
    /\ ~raced /\ q.pc = "close" => grant.status = "revoked"

(* No two requests store the same credential or the same session. *)
Distinct ==
    \A x, y \in Requests : x # y =>
        /\ request[x].new = None \/ request[x].new # request[y].new
        /\ Opening(request[x]) /\ Opening(request[y]) => request[x].session # request[y].session

Holdings ==
    /\ Rooted(grant)
    /\ grant.status = "absent" => lookup = {}
    /\ Distinct
    /\ \A r \in Requests : Holds(request[r])

(* A credential that is unusable and that no request under way would make  *)
(* usable again.                                                           *)
Spent(c) ==
    /\ ~credentialUsable(grant.credentials[c], now)
    /\ \A r \in Requests : request[r].pc = "put" /\ request[r].base = grant
                            => ~credentialUsable(grant.credentials[c], request[r].at)

SessionEnded(c) ==
    grant.credentials[c].session # None /\ session[grant.credentials[c].session] = "closed"

(* A credential whose loss cannot be undone but by a write that races. *)
Lost(c) ==
    /\ c \in lookup
    /\ raced \/ route = "revoked" \/ grant.status = "revoked" \/ SessionEnded(c) \/ Spent(c)

FInv == KInv /\ Holdings /\ \A c \in gone : Lost(c)

(* What the steps of others do: time passes, and items appear, but those   *)
(* of the ids cs and ss only, and a revocation is undone by a race only.   *)
Onward(cs, ss) ==
    /\ now' \in Nat /\ now <= now'
    /\ lookup \subseteq lookup' /\ lookup' \subseteq lookup \cup cs
    /\ \A s \in Sessions :
          /\ session[s] # "absent" => session'[s] # "absent"
          /\ session[s] = "absent" /\ s \notin ss => session'[s] = "absent"
    /\ raced => raced'
    /\ ~raced' => /\ grant.status = "revoked" => grant'.status = "revoked"
                  /\ \A c \in Credentials : grant.credentials[c].status = "revoked"
                                             => grant'.credentials[c].status = "revoked"

LEMMA Unwritten ==
    ASSUME Typed, UNCHANGED <<now, grant, lookup, session, raced>>, NEW cs, NEW ss
    PROVE  Onward(cs, ss)
  BY DEF Typed, TypeOK, Onward

LEMMA HoldsOnward ==
    ASSUME Typed, NEW q \in Request, Holds(q), NEW cs, NEW ss, Onward(cs, ss),
           Storing(q) => q.new \notin cs, Opening(q) => q.session \notin ss
    PROVE  Holds(q)'
<1>1. /\ q.at \in Nat /\ q.todo \subseteq Sessions /\ q.session \in Sessions \cup {None}
      /\ now \in Nat
  BY DEF Request, Typed, TypeOK
<1>2. Storing(q) => q.new \notin lookup'
  BY DEF Holds, Onward
<1>3. Opening(q) => session'[q.session] = "absent"
  BY <1>1 DEF Holds, Onward, Opening
<1>4. q.pc = "close" => \A s \in q.todo : session'[s] # "absent"
  BY <1>1 DEF Holds, Onward
<1>5. q.pc \in {"transact", "put", "drop"} => q.at <= now'
  BY <1>1 DEF Holds, Onward
<1>6. q.pc \in {"put", "drop"} => Rooted(q.base)'
  BY DEF Holds, Onward, Rooted
<1>7. ~raced' => ~raced
  BY DEF Onward
<1>8. ~raced' /\ q.pc \in {"put", "drop"} =>
        \A c \in Credentials : q.base.credentials[c].status = "revoked"
                                => grant'.credentials[c].status = "revoked"
  BY <1>7 DEF Holds, Onward
<1>9. ~raced' /\ q.pc = "close" => grant'.status = "revoked"
  BY <1>7 DEF Holds, Onward
<1>10. q.pc = "put" /\ q.prev # None =>
          q.prev \in lookup' /\ q.session = q.base.credentials[q.prev].session
  BY DEF Holds, Onward
<1>. QED
  BY <1>10, <1>2, <1>3, <1>4, <1>5, <1>6, <1>8, <1>9 DEF Holds

(* A request takes a step, with new ids or those it has. *)
LEMMA HoldingsStep ==
    ASSUME Typed, Holdings, NEW r \in Requests, NEW q, request' = [request EXCEPT ![r] = q],
           Holds(q)', Rooted(grant)', grant'.status = "absent" => lookup' = {},
           q.new = None \/ q.new = request[r].new \/ FreshCredential(q.new),
           Opening(q) => \/ Opening(request[r]) /\ q.session = request[r].session
                         \/ FreshSession(q.session),
           Onward({request[r].new} \ {None},
                  IF Opening(request[r]) THEN {request[r].session} ELSE {})
    PROVE  Holdings'
<1>1. \A x \in Requests : request'[x] = IF x = r THEN q ELSE request[x]
  BY DEF Typed, TypeOK
<1>2. ASSUME NEW x \in Requests PROVE Holds(request[x])'
  <2>1. CASE x = r
    BY <1>1, <2>1
  <2>2. CASE x # r
    <3>0. PICK p \in Request : p = request[x]
      BY DEF Typed, TypeOK
    <3>1. Holds(p)
      BY <3>0 DEF Holdings
    <3>2. Storing(p) => p.new \notin {request[r].new} \ {None}
      BY <2>2, <3>0 DEF Holdings, Distinct
    <3>3. Opening(p) => p.session \notin IF Opening(request[r]) THEN {request[r].session} ELSE {}
      BY <2>2, <3>0 DEF Holdings, Distinct
    <3>4. Holds(p)'
      BY <3>1, <3>2, <3>3, HoldsOnward
    <3>. QED
      BY <1>1, <2>2, <3>0, <3>4
  <2>. QED
    BY <2>1, <2>2
<1>3. ASSUME NEW x \in Requests, x # r
      PROVE  /\ q.new = None \/ q.new # request[x].new
             /\ Opening(q) /\ Opening(request[x]) => q.session # request[x].session
  <2>1. request[r].new = None \/ request[r].new # request[x].new
    BY <1>3 DEF Holdings, Distinct
  <2>2. Opening(request[r]) /\ Opening(request[x]) => request[r].session # request[x].session
    BY <1>3 DEF Holdings, Distinct
  <2>3. FreshCredential(q.new) => q.new # request[x].new
    BY DEF FreshCredential, Reserved
  <2>4. FreshSession(q.session) => q.session # request[x].session
    BY DEF FreshSession, ReservedSessions
  <2>. QED
    BY <2>1, <2>2, <2>3, <2>4
<1>4. Distinct'
  <2>. SUFFICES ASSUME NEW x \in Requests, NEW y \in Requests, x # y
                PROVE  /\ request'[x].new = None \/ request'[x].new # request'[y].new
                       /\ Opening(request'[x]) /\ Opening(request'[y])
                             => request'[x].session # request'[y].session
    BY DEF Distinct, Opening
  <2>1. CASE x = r
    BY <1>1, <1>3, <2>1
  <2>2. CASE y = r
    BY <1>1, <1>3, <2>2
  <2>3. CASE x # r /\ y # r
    BY <1>1, <2>3 DEF Holdings, Distinct
  <2>. QED
    BY <2>1, <2>2, <2>3
<1>. QED
  BY <1>2, <1>4 DEF Holdings

(* The same when the step writes no item but the route. *)
LEMMA HoldingsAside ==
    ASSUME Typed, Holdings, NEW r \in Requests, NEW q, request' = [request EXCEPT ![r] = q],
           now' = now, grant' = grant, lookup' = lookup, session' = session, raced => raced',
           Holds(q),
           q.new = None \/ q.new = request[r].new \/ FreshCredential(q.new),
           Opening(q) => \/ Opening(request[r]) /\ q.session = request[r].session
                         \/ FreshSession(q.session)
    PROVE  Holdings'
<1>1. Holds(q)'
  BY DEF Holds, Rooted
<1>2. Rooted(grant)' /\ (grant'.status = "absent" => lookup' = {})
  BY DEF Holdings, Rooted
<1>3. \A cs, ss : Onward(cs, ss)
  BY DEF Typed, TypeOK, Onward
<1>. QED
  BY <1>1, <1>2, <1>3, HoldingsStep

(* The same when no request moves. *)
LEMMA HoldingsStill ==
    ASSUME Typed, Holdings, UNCHANGED <<grant, lookup, request>>, Onward({}, {})
    PROVE  Holdings'
<1>1. ASSUME NEW x \in Requests PROVE Holds(request[x])'
  <2>0. PICK p \in Request : p = request[x]
    BY DEF Typed, TypeOK
  <2>1. Holds(p)'
    BY <2>0, HoldsOnward DEF Holdings
  <2>. QED
    BY <2>0, <2>1
<1>2. Rooted(grant)' /\ Distinct'
  BY DEF Holdings, Rooted, Distinct, Opening
<1>. QED
  BY <1>1, <1>2 DEF Holdings

LEMMA IdleHolds == Holds(Idle) /\ Idle.new = None /\ ~Opening(Idle)
  BY DEF Holds, Idle, Opening, Storing

(* What the two writes of a whole item store. *)
LEMMA WrittenAt ==
    ASSUME NEW q \in Request
    PROVE  \A c \in Credentials :
              Written(q).credentials[c] =
                 IF c = q.new THEN createStoredCredential(q.session, q.at)
                 ELSE IF c = q.prev THEN Rotated(q.base.credentials[c], q.at, q.emergency)
                 ELSE q.base.credentials[c]
<1>1. q.base \in Grant
  BY DEF Request
<1>. QED
  BY <1>1 DEF Written, Grant

LEMMA DroppedAt ==
    ASSUME NEW base \in Grant, NEW p \in Credentials, NEW at \in Nat
    PROVE  /\ \A c \in Credentials \ {p} : Dropped(base, p, at).credentials[c] = base.credentials[c]
           /\ Dropped(base, p, at).credentials[p].status = "revoked"
           /\ Dropped(base, p, at).credentials[p].session = base.credentials[p].session
           /\ Dropped(base, p, at).status = base.status
<1>. DEFINE dropped == [base.credentials[p] EXCEPT !.status = "revoked", !.revokeAt = at]
<1>1. base.credentials \in [Credentials -> Credential] /\ base.credentials[p] \in Credential
  BY DEF Grant
<1>2. dropped.status = "revoked" /\ dropped.session = base.credentials[p].session
  BY <1>1 DEF Credential
<1>3. Dropped(base, p, at) = [base EXCEPT !.credentials = [base.credentials EXCEPT ![p] = dropped]]
  BY DEF Dropped
<1>. HIDE DEF dropped
<1>4. \A c \in Credentials :
         [base.credentials EXCEPT ![p] = dropped][c] = IF c = p THEN dropped ELSE base.credentials[c]
  BY <1>1
<1>5. /\ Dropped(base, p, at).credentials = [base.credentials EXCEPT ![p] = dropped]
      /\ Dropped(base, p, at).status = base.status
  BY <1>3 DEF Grant
<1>. QED
  BY <1>2, <1>4, <1>5

(* A credential that has ended is left as it is by a rotation, and so is   *)
(* one that is revoked.                                                    *)
LEMMA RotatedRevoked ==
    ASSUME NEW credential \in Credential, credential.status = "revoked", NEW at, NEW emergency
    PROVE  Rotated(credential, at, emergency) = credential
  BY DEF Rotated, credentialUsable

LEMMA RotatedAbsent ==
    ASSUME NEW at, NEW emergency
    PROVE  Rotated(NoCredential, at, emergency) = NoCredential
  BY DEF Rotated, credentialUsable, NoCredential

LEMMA WrittenRooted ==
    ASSUME Typed, NEW q \in Request, q.new \in Credentials, Rooted(q.base),
           lookup' = lookup \cup {q.new}, grant' = Written(q)
    PROVE  Rooted(grant)'
<1>. SUFFICES ASSUME NEW c \in Credentials, c # q.new, c \notin lookup
              PROVE  Written(q).credentials[c] = NoCredential
  BY DEF Rooted
<1>1. q.base.credentials[c] = NoCredential
  BY DEF Rooted
<1>. QED
  BY <1>1, WrittenAt, RotatedAbsent

(* A write that does not race keeps what is revoked. *)
LEMMA WrittenRevoked ==
    ASSUME Typed, NEW q \in Request, Rooted(grant), q.base = grant, q.new \notin lookup,
           NEW c \in Credentials, grant.credentials[c].status = "revoked"
    PROVE  Written(q).credentials[c].status = "revoked"
<1>1. c \in lookup
  BY DEF Rooted, NoCredential
<1>2. grant.credentials[c] \in Credential
  BY DEF Typed, TypeOK, Grant
<1>3. Rotated(grant.credentials[c], q.at, q.emergency) = grant.credentials[c]
  BY <1>2, RotatedRevoked
<1>. QED
  BY <1>1, <1>3, WrittenAt

LEMMA HoldingsInit == Init => Holdings
<1>. SUFFICES ASSUME Init PROVE Holdings
  OBVIOUS
<1>1. Rooted(grant)
  BY DEF Init, Rooted, NoGrant
<1>2. Distinct
  BY IdleHolds DEF Init, Distinct
<1>3. \A r \in Requests : Holds(request[r])
  BY IdleHolds DEF Init
<1>. QED
  BY <1>1, <1>2, <1>3 DEF Init, Holdings

(* Every step keeps what the requests hold. *)
LEMMA HoldingsNext == KInv /\ Holdings /\ [Next]_vars => Holdings'
<1>. SUFFICES ASSUME Typed, Stages, Holdings, [Next]_vars PROVE Holdings'
  BY DEF KInv
<1>. USE DEF items, history
<1>t. TypeOK /\ now \in Nat /\ grant \in Grant /\ session \in [Sessions -> {"absent", "open", "closed"}]
  BY DEF Typed, TypeOK
<1>n. None \notin Credentials /\ None \notin Sessions
  BY AccessGrantsConstants
<1>1. CASE CreateRoute
  <2>1. Onward({}, {})
    BY <1>1, Unwritten DEF CreateRoute
  <2>. QED
    BY <1>1, <2>1, HoldingsStill DEF CreateRoute
<1>2. CASE closeLogicalSession
  <2>1. PICK s \in Sessions : session' = [session EXCEPT ![s] = "closed"] /\ session[s] = "open"
    BY <1>2 DEF closeLogicalSession
  <2>2. Onward({}, {})
    BY <1>2, <1>t, <2>1 DEF closeLogicalSession, Onward
  <2>. QED
    BY <1>2, <2>2, HoldingsStill DEF closeLogicalSession
<1>3. CASE Tick
  <2>1. Onward({}, {})
    BY <1>3, <1>t DEF Tick, Onward
  <2>. QED
    BY <1>3, <2>1, HoldingsStill DEF Tick
<1>4. ASSUME NEW r \in Requests, Step(r) PROVE Holdings'
  <2>q. /\ request[r] \in Request /\ Prepared(request[r]) /\ Staged(request[r]) /\ Holds(request[r])
    BY DEF Typed, TypeOK, PreparedAll, Stages, Holdings
  <2>i. Holds(Idle) /\ Idle.new = None /\ ~Opening(Idle) /\ Idle.pc = "idle"
    BY IdleHolds, IdleType
  <2>1. CASE UpdateRoute(r)
    <3>0. PICK q : q = [Idle EXCEPT !.pc = "update", !.op = "update"]
      OBVIOUS
    <3>1. q.pc = "update" /\ q.new = None
      BY <3>0 DEF Idle
    <3>2. Holds(q) /\ ~Opening(q)
      BY <3>1 DEF Holds, Storing, Opening
    <3>. QED
      BY <2>1, <3>0, <3>1, <3>2, HoldingsAside DEF UpdateRoute, Begin
  <2>2. CASE PutRoute(r)
    BY <2>2, <2>i, HoldingsAside DEF PutRoute, Finish
  <2>3. CASE DeleteRoute(r)
    <3>1. PICK listed \in BOOLEAN :
             Begin(r, [Idle EXCEPT !.pc = IF listed THEN "revoke" ELSE "route", !.op = "delete"])
      BY <2>3 DEF DeleteRoute
    <3>0. PICK q : q = [Idle EXCEPT !.pc = IF listed THEN "revoke" ELSE "route", !.op = "delete"]
      OBVIOUS
    <3>2. q.pc \in {"revoke", "route"} /\ q.new = None
      BY <3>0 DEF Idle
    <3>3. Holds(q) /\ ~Opening(q)
      BY <3>2 DEF Holds, Storing, Opening
    <3>. QED
      BY <2>3, <3>0, <3>1, <3>2, <3>3, HoldingsAside DEF DeleteRoute, Begin
  <2>4. CASE RevokeRoute(r)
    BY <2>4, <2>i, HoldingsAside DEF RevokeRoute, Finish
  <2>5. CASE CreateGrant(r)
    <3>1. PICK c \in Credentials, s \in Sessions \cup {None} :
             /\ FreshCredential(c) /\ (s # None => FreshSession(s))
             /\ Begin(r, [Idle EXCEPT !.pc = "transact", !.op = "create", !.new = c, !.session = s, !.at = now])
      BY <2>5 DEF CreateGrant
    <3>0. PICK q : q = [Idle EXCEPT !.pc = "transact", !.op = "create", !.new = c, !.session = s, !.at = now]
      OBVIOUS
    <3>2. q.pc = "transact" /\ q.new = c /\ q.session = s /\ q.at = now /\ q.prev = None
      BY <3>0 DEF Idle
    <3>3. Holds(q)
      BY <1>t, <3>1, <3>2 DEF Holds, Storing, Opening, FreshCredential, FreshSession
    <3>4. Opening(q) => FreshSession(q.session)
      BY <3>1, <3>2 DEF Opening
    <3>5. request' = [request EXCEPT ![r] = q]
      BY <3>0, <3>1 DEF Begin
    <3>6. UNCHANGED <<now, grant, lookup, session, raced>>
      BY <2>5, <3>1 DEF CreateGrant, Begin, history
    <3>. QED
      BY <3>1, <3>2, <3>3, <3>4, <3>5, <3>6, HoldingsAside
  <2>6. CASE TransactGrant(r)
    <3>0. PICK q \in Request : q = request[r]
      BY <2>q
    <3>1. /\ q.pc = "transact" /\ q.new \in Credentials /\ q.session \in Sessions \cup {None}
          /\ grant.status = "absent" /\ lookup = {} /\ q.op = "create" /\ q.prev = None
      BY <2>q, <2>6, <3>0 DEF TransactGrant, Prepared, Staged, Request, Holdings, Holds
    <3>2. /\ grant'.status = "ready" /\ lookup' = lookup \cup {q.new}
          /\ \A c \in Credentials \ {q.new} : grant'.credentials[c] = NoCredential
          /\ UNCHANGED <<now, session, raced>>
      BY <2>6, <3>0, <3>1 DEF TransactGrant, NoGrant
    <3>3. Rooted(grant)'
      BY <3>2 DEF Rooted
    <3>4. ASSUME NEW c \in Credentials PROVE grant.credentials[c].status # "revoked"
      BY <3>1 DEF Holdings, Rooted, NoCredential
    <3>5. Onward({q.new}, {})
      BY <1>t, <3>1, <3>2, <3>4 DEF Onward
    <3>6. Onward({q.new} \ {None}, IF Opening(q) THEN {q.session} ELSE {})
      BY <3>5, <3>1, <1>n DEF Onward
    <3>7. CASE q.session = None
      <4>1. request' = [request EXCEPT ![r] = Idle]
        BY <2>6, <3>0, <3>7 DEF TransactGrant, Finish
      <4>2. Holds(Idle)'
        BY IdleType DEF Holds, Idle, Storing, Opening
      <4>. QED
        BY <2>i, <3>0, <3>2, <3>3, <3>6, <4>1, <4>2, HoldingsStep
    <3>8. CASE q.session # None
      <4>0. PICK p : p = [request[r] EXCEPT !.pc = "session"]
        OBVIOUS
      <4>1. request' = [request EXCEPT ![r] = p]
        BY <2>6, <3>0, <3>8, <4>0 DEF TransactGrant, Goto
      <4>2. /\ p.pc = "session" /\ p.new = q.new /\ p.session = q.session /\ p.op = "create"
            /\ p.prev = None
        BY <3>0, <3>1, <4>0 DEF Request
      <4>3. session[q.session] = "absent"
        BY <2>q, <3>0, <3>1, <3>8 DEF Holds, Opening
      <4>4. Holds(p)'
        BY <3>2, <4>2, <4>3 DEF Holds, Storing, Opening
      <4>5. Opening(request[r])
        BY <3>0, <3>1, <3>8 DEF Opening
      <4>. QED
        BY <3>0, <3>2, <3>3, <3>6, <4>1, <4>2, <4>4, <4>5, HoldingsStep
    <3>. QED
      BY <3>7, <3>8
  <2>7. CASE AddCredential(r)
    <3>1. PICK c \in Credentials : FreshCredential(c) /\
             (\/ Begin(r, [Idle EXCEPT !.pc = "put", !.op = "add", !.new = c, !.base = grant, !.at = now])
              \/ \E s \in Sessions :
                   /\ FreshSession(s)
                   /\ Begin(r, [Idle EXCEPT !.pc = "session", !.op = "add", !.new = c, !.session = s]))
      BY <2>7 DEF AddCredential
    <3>2. CASE Begin(r, [Idle EXCEPT !.pc = "put", !.op = "add", !.new = c, !.base = grant, !.at = now])
      <4>0. PICK q : q = [Idle EXCEPT !.pc = "put", !.op = "add", !.new = c, !.base = grant, !.at = now]
        OBVIOUS
      <4>1. q.pc = "put" /\ q.new = c /\ q.base = grant /\ q.at = now /\ q.prev = None
        BY <4>0 DEF Idle
      <4>2. c \notin lookup /\ Rooted(grant)
        BY <3>1 DEF FreshCredential, Holdings
      <4>3. now <= now
        BY <1>t
      <4>4. Holds(q) /\ ~Opening(q)
        BY <4>1, <4>2, <4>3 DEF Holds, Storing, Opening
      <4>. QED
        BY <2>7, <3>1, <3>2, <4>0, <4>1, <4>4, HoldingsAside DEF AddCredential, Begin
    <3>3. CASE \E s \in Sessions :
                   /\ FreshSession(s)
                   /\ Begin(r, [Idle EXCEPT !.pc = "session", !.op = "add", !.new = c, !.session = s])
      <4>1. PICK s \in Sessions :
                   /\ FreshSession(s)
                   /\ Begin(r, [Idle EXCEPT !.pc = "session", !.op = "add", !.new = c, !.session = s])
        BY <3>3
      <4>0. PICK q : q = [Idle EXCEPT !.pc = "session", !.op = "add", !.new = c, !.session = s]
        OBVIOUS
      <4>2. q.pc = "session" /\ q.op = "add" /\ q.new = c /\ q.session = s /\ q.prev = None
        BY <4>0 DEF Idle
      <4>3. Holds(q)
        BY <3>1, <4>1, <4>2 DEF Holds, Storing, Opening, FreshCredential, FreshSession
      <4>. QED
        BY <2>7, <3>1, <4>0, <4>1, <4>2, <4>3, HoldingsAside DEF AddCredential, Begin
    <3>. QED
      BY <3>1, <3>2, <3>3
  <2>8. CASE createLogicalSession(r)
    <3>0. PICK q \in Request : q = request[r]
      BY <2>q
    <3>1. q.pc = "session" /\ q.new \in Credentials /\ q.session \in Sessions
      BY <2>q, <2>8, <3>0 DEF createLogicalSession, Prepared
    <3>2. /\ session' = [session EXCEPT ![q.session] = "open"]
          /\ UNCHANGED <<now, grant, lookup, raced>>
      BY <2>8, <3>0 DEF createLogicalSession
    <3>3. Opening(q)
      BY <1>n, <3>1 DEF Opening
    <3>4. Onward({q.new} \ {None}, IF Opening(q) THEN {q.session} ELSE {})
      BY <1>t, <3>1, <3>2, <3>3 DEF Onward
    <3>5. Rooted(grant)' /\ (grant'.status = "absent" => lookup' = {})
      BY <3>2 DEF Holdings, Rooted
    <3>6. CASE q.op = "create"
      <4>1. request' = [request EXCEPT ![r] = Idle]
        BY <2>8, <3>0, <3>6 DEF createLogicalSession, Finish
      <4>2. Holds(Idle)'
        BY IdleType DEF Holds, Idle, Storing, Opening
      <4>. QED
        BY <2>i, <3>0, <3>4, <3>5, <4>1, <4>2, HoldingsStep
    <3>7. CASE q.op # "create"
      <4>0. PICK p : p = [request[r] EXCEPT !.pc = "read"]
        OBVIOUS
      <4>1. request' = [request EXCEPT ![r] = p]
        BY <2>8, <3>0, <3>7, <4>0 DEF createLogicalSession, Goto
      <4>2. p.pc = "read" /\ p.new = q.new /\ p.prev = q.prev
        BY <3>0, <4>0 DEF Request
      <4>3. q.op = "add"
        <5>1. q.op \in {"add", "create"}
          BY <2>q, <3>0, <3>1 DEF Holds
        <5>. QED
          BY <3>7, <5>1
      <4>4. q.new \notin lookup /\ q.prev = None
        BY <2>q, <3>0, <3>1, <4>3 DEF Holds, Storing
      <4>5. Holds(p)' /\ ~Opening(p)
        BY <3>2, <4>2, <4>4 DEF Holds, Storing, Opening
      <4>. QED
        BY <3>0, <3>4, <3>5, <4>1, <4>2, <4>5, HoldingsStep
    <3>. QED
      BY <3>6, <3>7
  <2>9. CASE ReadGrant(r)
    <3>0. PICK q \in Request : q = request[r]
      BY <2>q
    <3>1. CASE grant.status = "ready"
      <4>0. PICK p : p = [request[r] EXCEPT !.pc = "put", !.base = grant, !.at = now]
        OBVIOUS
      <4>1. request' = [request EXCEPT ![r] = p]
        BY <2>9, <3>1, <4>0 DEF ReadGrant
      <4>2. p.pc = "put" /\ p.new = q.new /\ p.base = grant /\ p.at = now /\ p.prev = q.prev
        BY <3>0, <4>0 DEF Request
      <4>3. q.new \notin lookup /\ q.prev = None
        BY <2>q, <2>9, <3>0 DEF ReadGrant, Holds, Storing
      <4>4. Holds(p) /\ ~Opening(p)
        BY <1>t, <4>2, <4>3 DEF Holds, Storing, Opening, Holdings
      <4>. QED
        BY <2>9, <3>0, <4>1, <4>2, <4>4, HoldingsAside DEF ReadGrant
    <3>2. CASE grant.status # "ready"
      BY <2>9, <2>i, <3>2, HoldingsAside DEF ReadGrant, Finish
    <3>. QED
      BY <3>1, <3>2
  <2>10. CASE RotateCredential(r)
    <3>1. PICK c \in Credentials, p \in Credentials, emergency \in BOOLEAN :
             /\ FreshCredential(c) /\ Present(p)
             /\ Begin(r, [Idle EXCEPT !.pc = "put", !.op = "rotate", !.new = c, !.prev = p,
                                      !.session = grant.credentials[p].session,
                                      !.emergency = emergency, !.base = grant, !.at = now])
      BY <2>10 DEF RotateCredential
    <3>0. PICK q : q = [Idle EXCEPT !.pc = "put", !.op = "rotate", !.new = c, !.prev = p,
                                      !.session = grant.credentials[p].session,
                                      !.emergency = emergency, !.base = grant, !.at = now]
      OBVIOUS
    <3>2. /\ q.pc = "put" /\ q.new = c /\ q.base = grant /\ q.at = now /\ q.prev = p
          /\ q.session = q.base.credentials[p].session
      BY <3>0 DEF Idle
    <3>3. p \in lookup
      BY <3>1 DEF Holdings, Rooted, Present, NoCredential
    <3>4. Holds(q) /\ ~Opening(q)
      BY <1>t, <3>1, <3>2, <3>3 DEF Holds, Storing, Opening, FreshCredential, Holdings
    <3>. QED
      BY <2>10, <3>0, <3>1, <3>2, <3>4, HoldingsAside DEF RotateCredential, Begin
  <2>11. CASE TransactCredential(r)
    <3>0. PICK q \in Request : q = request[r]
      BY <2>q
    <3>1. /\ q.pc = "put" /\ q.new \in Credentials /\ q.base.status # "absent" /\ Rooted(q.base)
          /\ q.new \notin lookup /\ q.base \in Grant
          /\ request' = [request EXCEPT ![r] = Idle]
      BY <2>q, <2>11, <3>0 DEF TransactCredential, Prepared, Holds, Storing, Finish, Request
    <3>2. CASE grant.status # "revoked"
      <4>1. /\ grant' = Written(q) /\ lookup' = lookup \cup {q.new}
            /\ raced' = (raced \/ grant # q.base)
            /\ UNCHANGED <<now, session>>
        BY <2>11, <3>0, <3>2 DEF TransactCredential
      <4>2. Rooted(grant)'
        BY <3>1, <4>1, WrittenRooted
      <4>3. grant'.status # "absent"
        BY <3>1, <4>1, WrittenKeeps
      <4>4. ASSUME ~raced', NEW c \in Credentials, grant.credentials[c].status = "revoked"
            PROVE  grant'.credentials[c].status = "revoked"
        BY <3>1, <4>1, <4>4, WrittenRevoked DEF Holdings, Typed, TypeOK
      <4>5. Onward({q.new}, {})
        BY <1>t, <3>2, <4>1, <4>4 DEF Onward, Typed, TypeOK
      <4>6. Onward({q.new} \ {None}, IF Opening(q) THEN {q.session} ELSE {})
        BY <1>n, <3>1, <4>5 DEF Onward
      <4>7. Holds(Idle)'
        BY IdleType DEF Holds, Idle, Storing, Opening
      <4>. QED
        BY <2>i, <3>0, <3>1, <4>2, <4>3, <4>6, <4>7, HoldingsStep
    <3>3. CASE grant.status = "revoked"
      <4>1. UNCHANGED <<now, grant, lookup, session, raced>>
        BY <2>11, <3>3 DEF TransactCredential
      <4>. QED
        BY <2>i, <3>1, <4>1, HoldingsAside
    <3>. QED
      BY <3>2, <3>3
  <2>12. CASE RevokeCredential(r)
    <3>1. PICK p \in Credentials :
             \/ Begin(r, Idle)
             \/ Begin(r, [Idle EXCEPT !.pc = "drop", !.op = "drop", !.prev = p, !.base = grant, !.at = now])
      BY <2>12 DEF RevokeCredential
    <3>2. raced' = raced
      BY <2>12 DEF RevokeCredential
    <3>3. CASE Begin(r, Idle)
      BY <2>i, <3>2, <3>3, HoldingsAside DEF Begin
    <3>4. CASE Begin(r, [Idle EXCEPT !.pc = "drop", !.op = "drop", !.prev = p, !.base = grant, !.at = now])
      <4>0. PICK q : q = [Idle EXCEPT !.pc = "drop", !.op = "drop", !.prev = p, !.base = grant, !.at = now]
        OBVIOUS
      <4>1. q.pc = "drop" /\ q.new = None /\ q.base = grant /\ q.at = now
        BY <4>0 DEF Idle
      <4>2. Holds(q) /\ ~Opening(q)
        BY <1>t, <4>1 DEF Holds, Storing, Opening, Holdings
      <4>. QED
        BY <3>2, <3>4, <4>0, <4>1, <4>2, HoldingsAside DEF Begin
    <3>. QED
      BY <3>1, <3>3, <3>4
  <2>13. CASE PutCredential(r)
    <3>0. PICK q \in Request : q = request[r]
      BY <2>q
    <3>1. /\ q.pc = "drop" /\ q.prev \in Credentials /\ q.base \in Grant /\ q.at \in Nat
          /\ q.base.status # "absent" /\ Rooted(q.base)
          /\ q.base.credentials[q.prev].status # "absent"
          /\ request' = [request EXCEPT ![r] = Idle]
      BY <2>q, <2>13, <3>0 DEF PutCredential, Prepared, Holds, Finish, Request
    <3>2. /\ grant' = Dropped(q.base, q.prev, q.at)
          /\ raced' = (raced \/ grant # q.base)
          /\ UNCHANGED <<now, lookup, session>>
      BY <2>13, <3>0 DEF PutCredential, Dropped
    <3>3. q.prev \in lookup
      BY <3>1 DEF Rooted, NoCredential
    <3>4. Rooted(grant)'
      BY <3>1, <3>2, <3>3, DroppedAt DEF Rooted
    <3>5. grant'.status = q.base.status
      BY <3>1, <3>2, DroppedAt
    <3>6. \A c \in Credentials : q.base.credentials[c].status = "revoked"
                                  => grant'.credentials[c].status = "revoked"
      BY <3>1, <3>2, DroppedAt
    <3>7. Onward({}, {})
      <4>1. ~raced' => q.base = grant
        BY <3>2
      <4>2. raced => raced'
        BY <3>2
      <4>3. now' \in Nat /\ now <= now' /\ lookup' = lookup /\ session' = session
        BY <1>t, <3>2
      <4>4. ~raced' => /\ grant.status = "revoked" => grant'.status = "revoked"
                       /\ \A c \in Credentials : grant.credentials[c].status = "revoked"
                                                  => grant'.credentials[c].status = "revoked"
        BY <3>5, <3>6, <4>1
      <4>. QED
        BY <4>2, <4>3, <4>4 DEF Onward
    <3>8. Onward({q.new} \ {None}, IF Opening(q) THEN {q.session} ELSE {})
      BY <3>7 DEF Onward
    <3>9. Holds(Idle)'
      BY IdleType DEF Holds, Idle, Storing, Opening
    <3>. QED
      BY <2>i, <3>0, <3>1, <3>4, <3>5, <3>8, <3>9, HoldingsStep
  <2>14. CASE RevokeGrant(r)
    <3>0. PICK q : q = [Idle EXCEPT !.pc = "revoke", !.op = "revoke"]
      OBVIOUS
    <3>1. q.pc = "revoke" /\ q.new = None
      BY <3>0 DEF Idle
    <3>2. Holds(q) /\ ~Opening(q)
      BY <3>1 DEF Holds, Storing, Opening
    <3>. QED
      BY <2>14, <3>0, <3>1, <3>2, HoldingsAside DEF RevokeGrant, Begin
  <2>15. CASE MarkGrant(r)
    <3>0. PICK q \in Request : q = request[r]
      BY <2>q
    <3>1. PICK listed \in SUBSET {s \in Sessions : session[s] # "absent"} :
             request' = [request EXCEPT ![r] = [request[r] EXCEPT !.pc = "close", !.todo = listed]]
      BY <2>15 DEF MarkGrant
    <3>2. PICK p : p = [request[r] EXCEPT !.pc = "close", !.todo = listed]
      OBVIOUS
    <3>3. p.pc = "close" /\ p.todo = listed /\ p.new = q.new
      BY <3>0, <3>2 DEF Request
    <3>4. /\ grant'.status = "revoked" /\ grant'.credentials = grant.credentials
          /\ UNCHANGED <<now, lookup, session, raced>>
      BY <1>t, <2>15 DEF MarkGrant, Grant
    <3>5. Rooted(grant)'
      BY <3>4 DEF Holdings, Rooted
    <3>6. Onward({q.new} \ {None}, IF Opening(q) THEN {q.session} ELSE {})
      BY <1>t, <3>4 DEF Onward
    <3>7. Holds(p)' /\ ~Opening(p)
      BY <3>1, <3>3, <3>4 DEF Holds, Storing, Opening
    <3>. QED
      BY <3>0, <3>1, <3>2, <3>3, <3>4, <3>5, <3>6, <3>7, HoldingsStep
  <2>16. CASE CloseListed(r)
    <3>0. PICK q \in Request : q = request[r]
      BY <2>q
    <3>1. PICK s \in q.todo :
             /\ session' = [session EXCEPT ![s] = "closed"]
             /\ request' = [request EXCEPT ![r] = [request[r] EXCEPT !.todo = request[r].todo \ {s}]]
      BY <2>16, <3>0 DEF CloseListed
    <3>2. PICK p : p = [request[r] EXCEPT !.todo = request[r].todo \ {s}]
      OBVIOUS
    <3>3. p.pc = "close" /\ p.todo = q.todo \ {s} /\ p.new = q.new /\ q.pc = "close"
      BY <2>16, <3>0, <3>2 DEF Request, CloseListed
    <3>4. s \in Sessions /\ session[s] # "absent" /\ UNCHANGED <<now, grant, lookup, raced>>
      BY <2>q, <2>16, <3>0, <3>1, <3>3 DEF Request, Holds, CloseListed
    <3>5. Rooted(grant)' /\ (grant'.status = "absent" => lookup' = {})
      BY <3>4 DEF Holdings, Rooted
    <3>6. Onward({q.new} \ {None}, IF Opening(q) THEN {q.session} ELSE {})
      BY <1>t, <3>1, <3>4 DEF Onward
    <3>7. Holds(p)' /\ ~Opening(p)
      <4>1. ASSUME NEW x \in q.todo \ {s} PROVE session'[x] # "absent"
        BY <1>t, <2>q, <3>0, <3>1, <3>3, <3>4 DEF Holds, Request
      <4>2. ~raced' => grant'.status = "revoked"
        BY <2>q, <3>0, <3>3, <3>4 DEF Holds
      <4>. QED
        BY <3>3, <4>1, <4>2 DEF Holds, Storing, Opening
    <3>. QED
      BY <3>0, <3>1, <3>2, <3>3, <3>5, <3>6, <3>7, HoldingsStep
  <2>17. CASE SessionsClosed(r)
    <3>1. CASE request[r].op = "delete"
      <4>0. PICK q : q = [request[r] EXCEPT !.pc = "route"]
        OBVIOUS
      <4>1. q.pc = "route" /\ q.new = request[r].new
        BY <4>0, <2>q DEF Request
      <4>2. Holds(q) /\ ~Opening(q)
        BY <4>1 DEF Holds, Storing, Opening
      <4>. QED
        BY <2>17, <3>1, <4>0, <4>1, <4>2, HoldingsAside DEF SessionsClosed, Goto
    <3>2. CASE request[r].op # "delete"
      BY <2>17, <2>i, <3>2, HoldingsAside DEF SessionsClosed, Finish
    <3>. QED
      BY <3>1, <3>2
  <2>18. CASE Fail(r)
    BY <2>18, <2>i, HoldingsAside DEF Fail, Finish
  <2>. QED
    BY <1>4, <2>1, <2>2, <2>3, <2>4, <2>5, <2>6, <2>7, <2>8, <2>9, <2>10, <2>11, <2>12, <2>13,
       <2>14, <2>15, <2>16, <2>17, <2>18 DEF Step
<1>5. CASE UNCHANGED vars
  <2>1. Onward({}, {})
    BY <1>5, Unwritten DEF vars
  <2>. QED
    BY <1>5, <2>1, HoldingsStill DEF vars
<1>. QED
  BY <1>1, <1>2, <1>3, <1>4, <1>5 DEF Next

AllLost == \A c \in gone : Lost(c)

(* What is lost stays lost when the grant is not written. *)
LEMMA LostAside ==
    ASSUME Typed, NEW r \in Requests, NEW q, request' = [request EXCEPT ![r] = q],
           now' = now, grant' = grant, lookup' = lookup, raced => raced',
           ~raced' /\ route = "revoked" => route' = "revoked",
           \A s \in Sessions : session[s] = "closed" => session'[s] = "closed",
           q.pc = "put" => q.at = now,
           NEW c \in Credentials, Lost(c)
    PROVE  Lost(c)'
<1>1. \A x \in Requests : request'[x] = IF x = r THEN q ELSE request[x]
  BY DEF Typed, TypeOK
<1>2. grant.credentials[c].session \in Sessions \cup {None}
  BY DEF Typed, TypeOK, Grant, Credential
<1>3. Spent(c) => Spent(c)'
  BY <1>1 DEF Spent
<1>4. SessionEnded(c) => SessionEnded(c)'
  BY <1>2 DEF SessionEnded
<1>. QED
  BY <1>3, <1>4 DEF Lost

LEMMA AllLostAside ==
    ASSUME Typed, AllLost, NEW r \in Requests, NEW q, request' = [request EXCEPT ![r] = q],
           now' = now, grant' = grant, lookup' = lookup, raced => raced',
           ~raced' /\ route = "revoked" => route' = "revoked",
           \A s \in Sessions : session[s] = "closed" => session'[s] = "closed",
           q.pc = "put" => q.at = now,
           ASSUME NEW c \in gone' \ gone PROVE Lost(c)'
    PROVE  AllLost'
<1>. SUFFICES ASSUME NEW c \in gone PROVE Lost(c)'
  BY DEF AllLost
<1>1. c \in Credentials /\ Lost(c)
  BY DEF Typed, TypeOK, AllLost
<1>. QED
  BY <1>1, LostAside

(* The same when no request moves. *)
LEMMA AllLostStill ==
    ASSUME Typed, AllLost, UNCHANGED <<grant, lookup, request, raced>>, now' \in Nat, now <= now',
           ~raced /\ route = "revoked" => route' = "revoked",
           \A s \in Sessions : session[s] = "closed" => session'[s] = "closed",
           ASSUME NEW c \in gone' \ gone PROVE Lost(c)'
    PROVE  AllLost'
<1>. SUFFICES ASSUME NEW c \in gone PROVE Lost(c)'
  BY DEF AllLost
<1>1. c \in Credentials /\ Lost(c)
  BY DEF Typed, TypeOK, AllLost
<1>2. grant.credentials[c].session \in Sessions \cup {None} /\ grant.credentials[c] \in Credential
  BY <1>1 DEF Typed, TypeOK, Grant, Credential
<1>3. ~credentialUsable(grant.credentials[c], now) => ~credentialUsable(grant.credentials[c], now')
  BY <1>2 DEF credentialUsable, Credential, Typed, TypeOK
<1>4. Spent(c) => Spent(c)'
  BY <1>3 DEF Spent
<1>5. SessionEnded(c) => SessionEnded(c)'
  BY <1>2 DEF SessionEnded
<1>. QED
  BY <1>1, <1>4, <1>5 DEF Lost

(* A credential that could not be used is not usable later. *)
LEMMA StaysUnusable ==
    ASSUME NEW credential \in Credential, NEW at \in Nat, NEW later \in Nat, at <= later,
           ~credentialUsable(credential, at)
    PROVE  ~credentialUsable(credential, later)
  BY DEF credentialUsable, Credential

LEMMA RotatedSession ==
    ASSUME NEW credential \in Credential, NEW at, NEW emergency
    PROVE  Rotated(credential, at, emergency).session = credential.session
<1>1. CASE ~credentialUsable(credential, at)
  BY <1>1 DEF Rotated
<1>2. CASE credentialUsable(credential, at) /\ emergency
  BY <1>2 DEF Rotated, Credential
<1>3. CASE credentialUsable(credential, at) /\ ~emergency
  BY <1>3 DEF Rotated, Credential
<1>. QED
  BY <1>1, <1>2, <1>3

LEMMA RotatedUnusable ==
    ASSUME NEW credential \in Credential, NEW at \in Nat,
           NEW emergency \in BOOLEAN, emergency \/ ~credentialUsable(credential, at)
    PROVE  ~credentialUsable(Rotated(credential, at, emergency), at)
<1>1. CASE ~credentialUsable(credential, at)
  BY <1>1 DEF Rotated
<1>2. CASE credentialUsable(credential, at) /\ emergency
  BY <1>2 DEF Rotated, Credential, credentialUsable
<1>. QED
  BY <1>1, <1>2

(* No request has read the item that another one is about to write with a  *)
(* new credential, ...                                                     *)
LEMMA WrittenUnread ==
    ASSUME NEW q \in Request, q.new \in Credentials, q.new \notin lookup,
           NEW base \in Grant, Rooted(base)
    PROVE  base # Written(q)
<1>1. base.credentials[q.new].status = "absent"
  BY DEF Rooted, NoCredential
<1>2. Written(q).credentials[q.new].status = "active"
  <2>1. Written(q).credentials[q.new] = createStoredCredential(q.session, q.at)
    BY WrittenAt
  <2>. QED
    BY <2>1 DEF createStoredCredential
<1>3. base.credentials[q.new].status # Written(q).credentials[q.new].status
  BY <1>1, <1>2
<1>. QED
  BY <1>3, Zenon

(* ... so that what was lost stays lost by such a write, unless it races. *)
LEMMA WrittenLost ==
    ASSUME Typed, Holdings, NEW r \in Requests, NEW q \in Request, q = request[r],
           q.pc = "put", q.new \in Credentials, q.base = grant,
           grant' = Written(q), lookup' = lookup \cup {q.new},
           UNCHANGED <<now, route, session>>,
           \A x \in Requests \ {r} : request'[x] = request[x], request'[r].pc # "put",
           NEW c \in Credentials, Lost(c), ~raced
    PROVE  Lost(c)'
<1>1. Holds(q) /\ q.new \notin lookup /\ c \in lookup /\ q.at \in Nat /\ now \in Nat /\ q.at <= now
  BY DEF Holdings, Holds, Storing, Lost, Request, Typed, TypeOK
<1>2. grant.credentials[c] \in Credential /\ q.emergency \in BOOLEAN
  BY DEF Typed, TypeOK, Grant, Request
<1>3. Written(q).credentials[c] \in
        {grant.credentials[c], Rotated(grant.credentials[c], q.at, q.emergency)}
  BY <1>1, WrittenAt
<1>4. Written(q).credentials[c].session = grant.credentials[c].session
  BY <1>2, <1>3, RotatedSession
<1>5. Written(q).status = grant.status
  BY WrittenKeeps
<1>6. ASSUME Spent(c) PROVE Spent(c)'
  <2>1. ~credentialUsable(grant.credentials[c], q.at) /\ ~credentialUsable(grant.credentials[c], now)
    BY <1>6 DEF Spent
  <2>2. Written(q).credentials[c] = grant.credentials[c]
    BY <1>3, <2>1 DEF Rotated
  <2>3. ASSUME NEW x \in Requests, request'[x].pc = "put" PROVE request'[x].base # Written(q)
    <3>1. x # r /\ request'[x] = request[x]
      BY <2>3
    <3>2. request[x].base \in Grant /\ Rooted(request[x].base)
      BY <2>3, <3>1 DEF Typed, TypeOK, Request, Holdings, Holds
    <3>. QED
      BY <1>1, <3>1, <3>2, WrittenUnread
  <2>. QED
    BY <2>1, <2>2, <2>3 DEF Spent
<1>7. SessionEnded(c) => SessionEnded(c)'
  BY <1>4 DEF SessionEnded
<1>8. route = "revoked" => route' = "revoked"
  OBVIOUS
<1>9. grant.status = "revoked" => grant'.status = "revoked"
  BY <1>5
<1>. QED
  BY <1>6, <1>7, <1>8, <1>9 DEF Lost

(* The same for the Put that revokes a credential. *)
LEMMA DroppedLost ==
    ASSUME Typed, Holdings, NEW r \in Requests, NEW q \in Request, q = request[r],
           q.pc = "drop", q.prev \in Credentials, q.base = grant,
           q.base.credentials[q.prev].status # "revoked",
           grant' = Dropped(q.base, q.prev, q.at),
           UNCHANGED <<now, route, lookup, session>>,
           \A x \in Requests \ {r} : request'[x] = request[x], request'[r].pc # "put",
           NEW c \in Credentials, Lost(c) \/ (c = q.prev /\ c \in lookup), ~raced
    PROVE  Lost(c)'
<1>1. q.at \in Nat /\ grant \in Grant
  BY DEF Request, Typed, TypeOK
<1>2. grant'.status = grant.status /\ grant'.credentials[c].session = grant.credentials[c].session
  BY <1>1, DroppedAt
<1>3. grant'.credentials[q.prev].status = "revoked"
  BY <1>1, DroppedAt
<1>4. ASSUME NEW x \in Requests, request'[x].pc = "put" PROVE request'[x].base # grant'
  <2>1. x # r /\ request'[x] = request[x]
    BY <1>4
  <2>2. request[x].base.credentials[q.prev].status # "revoked"
    BY <1>4, <2>1 DEF Holdings, Holds
  <2>. QED
    BY <1>3, <2>1, <2>2
<1>5. ASSUME Spent(c) \/ c = q.prev PROVE Spent(c)'
  <2>1. CASE c = q.prev
    BY <1>3, <1>4, <2>1 DEF Spent, credentialUsable
  <2>2. CASE Spent(c) /\ c # q.prev
    <3>1. grant'.credentials[c] = grant.credentials[c]
      BY <1>1, <2>2, DroppedAt
    <3>. QED
      BY <1>4, <2>2, <3>1 DEF Spent
  <2>. QED
    BY <1>5, <2>1, <2>2
<1>6. SessionEnded(c) => SessionEnded(c)'
  BY <1>2 DEF SessionEnded
<1>. QED
  BY <1>2, <1>5, <1>6 DEF Lost

(* A credential of the grant has a lookup item. *)
LEMMA PresentFound ==
    ASSUME Holdings, NEW c \in Credentials, Present(c)
    PROVE  c \in lookup
  BY DEF Holdings, Rooted, Present, NoCredential

(* Every step keeps the losses. *)
LEMMA AllLostNext == FInv /\ [Next]_vars => AllLost'
<1>. SUFFICES ASSUME Typed, Stages, Holdings, AllLost, [Next]_vars PROVE AllLost'
  BY DEF FInv, KInv, AllLost
<1>. USE DEF items, history
<1>t. TypeOK /\ now \in Nat /\ grant \in Grant /\ session \in [Sessions -> {"absent", "open", "closed"}]
  BY DEF Typed, TypeOK
<1>n. None \notin Credentials /\ None \notin Sessions
  BY AccessGrantsConstants
<1>1. CASE CreateRoute
  <2>1. now' \in Nat /\ now <= now'
    BY <1>1, <1>t DEF CreateRoute
  <2>2. UNCHANGED <<grant, lookup, session, request, raced, gone>> /\ route # "revoked"
    BY <1>1 DEF CreateRoute
  <2>. QED
    BY <2>1, <2>2, AllLostStill
<1>2. CASE closeLogicalSession
  <2>1. PICK s \in Sessions :
           /\ session' = [session EXCEPT ![s] = "closed"]
           /\ gone' = gone \cup {c \in Credentials : grant.credentials[c].session = s}
    BY <1>2 DEF closeLogicalSession
  <2>2. ASSUME NEW c \in gone' \ gone PROVE Lost(c)'
    <3>1. c \in Credentials /\ grant.credentials[c].session = s
      BY <2>1, <2>2
    <3>2. c \in lookup
      BY <1>n, <3>1 DEF Holdings, Rooted, NoCredential
    <3>. QED
      BY <1>2, <1>n, <1>t, <2>1, <3>1, <3>2 DEF Lost, SessionEnded, closeLogicalSession
  <2>3. \A x \in Sessions : session[x] = "closed" => session'[x] = "closed"
    BY <1>t, <2>1
  <2>4. now' \in Nat /\ now <= now'
    BY <1>2, <1>t DEF closeLogicalSession
  <2>5. UNCHANGED <<route, grant, lookup, request, raced>>
    BY <1>2 DEF closeLogicalSession
  <2>. QED
    BY <2>2, <2>3, <2>4, <2>5, AllLostStill
<1>3. CASE Tick
  <2>1. now' \in Nat /\ now <= now'
    BY <1>3, <1>t DEF Tick
  <2>2. UNCHANGED <<route, grant, lookup, session, request, raced, gone>>
    BY <1>3 DEF Tick
  <2>. QED
    BY <2>1, <2>2, AllLostStill
<1>4. ASSUME NEW r \in Requests, Step(r) PROVE AllLost'
  <2>q. /\ request[r] \in Request /\ Prepared(request[r]) /\ Staged(request[r]) /\ Holds(request[r])
    BY DEF Typed, TypeOK, PreparedAll, Stages, Holdings
  <2>i. Idle.pc = "idle"
    BY IdleType
  <2>r. \A q : request' = [request EXCEPT ![r] = q]
               => /\ request'[r] = q
                  /\ \A x \in Requests \ {r} : request'[x] = request[x]
    BY <1>t DEF TypeOK
  <2>1. CASE UpdateRoute(r)
    <3>1. [Idle EXCEPT !.pc = "update", !.op = "update"].pc # "put"
      BY DEF Idle
    <3>. QED
      BY <2>1, <3>1, AllLostAside DEF UpdateRoute, Begin
  <2>2. CASE PutRoute(r)
    BY <2>2, <2>i, AllLostAside DEF PutRoute, Finish
  <2>3. CASE DeleteRoute(r)
    <3>1. PICK listed \in BOOLEAN :
             Begin(r, [Idle EXCEPT !.pc = IF listed THEN "revoke" ELSE "route", !.op = "delete"])
      BY <2>3 DEF DeleteRoute
    <3>2. [Idle EXCEPT !.pc = IF listed THEN "revoke" ELSE "route", !.op = "delete"].pc # "put"
      BY DEF Idle
    <3>. QED
      BY <2>3, <3>1, <3>2, AllLostAside DEF DeleteRoute, Begin
  <2>4. CASE RevokeRoute(r)
    <3>1. ASSUME NEW c \in gone' \ gone PROVE Lost(c)'
      <4>1. c \in Credentials /\ Present(c)
        BY <2>4, <3>1 DEF RevokeRoute, PresentCredentials
      <4>. QED
        BY <2>4, <4>1, PresentFound DEF RevokeRoute, Lost
    <3>2. /\ request' = [request EXCEPT ![r] = Idle]
          /\ UNCHANGED <<now, grant, lookup, session, raced>> /\ route' = "revoked"
      BY <2>4 DEF RevokeRoute, Finish
    <3>. QED
      BY <2>i, <3>1, <3>2, AllLostAside
  <2>5. CASE CreateGrant(r)
    <3>1. PICK c \in Credentials, s \in Sessions \cup {None} :
             Begin(r, [Idle EXCEPT !.pc = "transact", !.op = "create", !.new = c, !.session = s, !.at = now])
      BY <2>5 DEF CreateGrant
    <3>2. [Idle EXCEPT !.pc = "transact", !.op = "create", !.new = c, !.session = s, !.at = now].pc # "put"
      BY DEF Idle
    <3>. QED
      BY <2>5, <3>1, <3>2, AllLostAside DEF CreateGrant, Begin
  <2>6. CASE TransactGrant(r)
    <3>1. lookup = {} /\ gone' = gone
      BY <2>q, <2>6 DEF TransactGrant, Staged, Holdings
    <3>2. gone = {}
      BY <3>1 DEF AllLost, Lost
    <3>. QED
      BY <3>1, <3>2 DEF AllLost
  <2>7. CASE AddCredential(r)
    <3>1. PICK q : Begin(r, q) /\ (q.pc = "put" => q.at = now)
      <4>1. PICK c \in Credentials :
               \/ Begin(r, [Idle EXCEPT !.pc = "put", !.op = "add", !.new = c, !.base = grant, !.at = now])
               \/ \E s \in Sessions :
                     Begin(r, [Idle EXCEPT !.pc = "session", !.op = "add", !.new = c, !.session = s])
        BY <2>7 DEF AddCredential
      <4>2. [Idle EXCEPT !.pc = "put", !.op = "add", !.new = c, !.base = grant, !.at = now].at = now
        BY DEF Idle
      <4>3. \A s : [Idle EXCEPT !.pc = "session", !.op = "add", !.new = c, !.session = s].pc = "session"
        BY DEF Idle
      <4>. QED
        BY <4>1, <4>2, <4>3
    <3>. QED
      BY <2>7, <3>1, AllLostAside DEF AddCredential, Begin
  <2>8. CASE createLogicalSession(r)
    <3>1. /\ request[r].session \in Sessions /\ session[request[r].session] = "absent"
          /\ session' = [session EXCEPT ![request[r].session] = "open"]
          /\ UNCHANGED <<now, route, grant, lookup, raced, gone>>
      BY <1>n, <2>q, <2>8 DEF createLogicalSession, Prepared, Holds, Opening
    <3>2. \A s \in Sessions : session[s] = "closed" => session'[s] = "closed"
      BY <1>t, <3>1
    <3>3. PICK q : request' = [request EXCEPT ![r] = q] /\ q.pc # "put"
      <4>1. [request[r] EXCEPT !.pc = "read"].pc # "put"
        BY <2>q DEF Request
      <4>. QED
        BY <2>8, <2>i, <4>1 DEF createLogicalSession, Finish, Goto
    <3>. QED
      BY <3>1, <3>2, <3>3, AllLostAside
  <2>9. CASE ReadGrant(r)
    <3>1. PICK q : request' = [request EXCEPT ![r] = q] /\ (q.pc = "put" => q.at = now)
      <4>1. [request[r] EXCEPT !.pc = "put", !.base = grant, !.at = now].at = now
        BY <2>q DEF Request
      <4>. QED
        BY <2>9, <2>i, <4>1 DEF ReadGrant, Finish
    <3>. QED
      BY <2>9, <3>1, AllLostAside DEF ReadGrant
  <2>10. CASE RotateCredential(r)
    <3>1. PICK c \in Credentials, p \in Credentials, emergency \in BOOLEAN :
             Begin(r, [Idle EXCEPT !.pc = "put", !.op = "rotate", !.new = c, !.prev = p,
                                   !.session = grant.credentials[p].session,
                                   !.emergency = emergency, !.base = grant, !.at = now])
      BY <2>10 DEF RotateCredential
    <3>2. [Idle EXCEPT !.pc = "put", !.op = "rotate", !.new = c, !.prev = p,
                       !.session = grant.credentials[p].session,
                       !.emergency = emergency, !.base = grant, !.at = now].at = now
      BY DEF Idle
    <3>. QED
      BY <2>10, <3>1, <3>2, AllLostAside DEF RotateCredential, Begin
  <2>11. CASE TransactCredential(r)
    <3>0. PICK q \in Request : q = request[r]
      BY <2>q
    <3>1. /\ q.pc = "put" /\ q.new \in Credentials /\ q.emergency \in BOOLEAN /\ q.at \in Nat
          /\ q.emergency => q.prev \in Credentials
          /\ request' = [request EXCEPT ![r] = Idle]
          /\ q.new \notin lookup /\ q.at <= now /\ q.base \in Grant
      BY <2>q, <2>11, <3>0 DEF TransactCredential, Prepared, Request, Finish, Holds, Storing
    <3>2. CASE grant.status = "revoked"
      <4>1. UNCHANGED <<now, route, grant, lookup, session, raced, gone>>
        BY <2>11, <3>2 DEF TransactCredential
      <4>. QED
        BY <2>i, <3>1, <4>1, AllLostAside
    <3>3. CASE grant.status # "revoked"
      <4>1. /\ grant' = Written(q) /\ lookup' = lookup \cup {q.new}
            /\ raced' = (raced \/ grant # q.base)
            /\ gone' = IF q.emergency THEN gone \cup {q.prev} ELSE gone
            /\ UNCHANGED <<now, route, session>>
        BY <2>11, <3>0, <3>3 DEF TransactCredential
      <4>. SUFFICES ASSUME NEW c \in gone' PROVE Lost(c)'
        BY DEF AllLost
      <4>2. c \in Credentials
        BY <1>t, <3>1, <4>1 DEF TypeOK
      <4>3. CASE c \in gone
        <5>1. Lost(c)
          BY <4>3 DEF AllLost
        <5>2. CASE raced'
          BY <4>1, <5>1, <5>2 DEF Lost
        <5>3. CASE ~raced'
          <6>1. ~raced /\ q.base = grant
            BY <4>1, <5>3
          <6>. QED
            BY <2>i, <2>r, <3>0, <3>1, <4>1, <4>2, <5>1, <6>1, WrittenLost
        <5>. QED
          BY <5>2, <5>3
      <4>4. CASE c \notin gone /\ ~raced'
        <5>1. q.emergency /\ c = q.prev /\ q.base = grant /\ c \in lookup /\ c # q.new
          BY <1>n, <2>q, <3>0, <3>1, <4>1, <4>4 DEF Holds
        <5>2. /\ grant.credentials[c] \in Credential
              /\ Written(q).credentials[c] = Rotated(grant.credentials[c], q.at, q.emergency)
          BY <1>t, <4>2, <5>1, WrittenAt DEF Grant
        <5>3. ~credentialUsable(Written(q).credentials[c], now)
          <6>1. ~credentialUsable(Written(q).credentials[c], q.at)
            BY <3>1, <5>1, <5>2, RotatedUnusable
          <6>2. Written(q).credentials[c] \in Credential
            BY <3>1, <5>2, RotatedType
          <6>. QED
            BY <1>t, <3>1, <6>1, <6>2, StaysUnusable
        <5>4. ASSUME NEW x \in Requests, request'[x].pc = "put" PROVE request'[x].base # Written(q)
          <6>1. x # r /\ request'[x] = request[x]
            BY <2>i, <2>r, <3>1, <5>4
          <6>2. request[x].base \in Grant /\ Rooted(request[x].base)
            BY <1>t, <5>4, <6>1 DEF TypeOK, Request, Holdings, Holds
          <6>. QED
            BY <3>1, <6>1, <6>2, WrittenUnread
        <5>5. Spent(c)'
          BY <4>1, <5>3, <5>4 DEF Spent
        <5>. QED
          BY <4>1, <5>1, <5>5 DEF Lost
      <4>5. CASE c \notin gone /\ raced'
        BY <1>n, <2>q, <3>0, <3>1, <4>1, <4>5 DEF Lost, Holds
      <4>. QED
        BY <4>3, <4>4, <4>5
    <3>. QED
      BY <3>2, <3>3
  <2>12. CASE RevokeCredential(r)
    <3>1. PICK p \in Credentials :
             \/ Begin(r, Idle) /\ gone' = gone \cup {p} /\ grant.credentials[p].status = "revoked"
             \/ /\ Begin(r, [Idle EXCEPT !.pc = "drop", !.op = "drop", !.prev = p, !.base = grant, !.at = now])
                /\ gone' = gone
      BY <2>12 DEF RevokeCredential
    <3>2. raced' = raced
      BY <2>12 DEF RevokeCredential
    <3>3. CASE Begin(r, Idle) /\ gone' = gone \cup {p} /\ grant.credentials[p].status = "revoked"
      <4>1. p \in lookup /\ Spent(p)
        BY <3>3 DEF Holdings, Rooted, NoCredential, Spent, credentialUsable
      <4>2. Lost(p)
        BY <4>1 DEF Lost
      <4>3. Lost(p)'
        BY <2>i, <3>2, <3>3, <4>2, LostAside DEF Begin
      <4>. QED
        BY <2>i, <3>2, <3>3, <4>3, AllLostAside DEF Begin
    <3>4. CASE /\ Begin(r, [Idle EXCEPT !.pc = "drop", !.op = "drop", !.prev = p, !.base = grant, !.at = now])
               /\ gone' = gone
      <4>1. [Idle EXCEPT !.pc = "drop", !.op = "drop", !.prev = p, !.base = grant, !.at = now].pc # "put"
        BY DEF Idle
      <4>. QED
        BY <3>2, <3>4, <4>1, AllLostAside DEF Begin
    <3>. QED
      BY <3>1, <3>3, <3>4
  <2>13. CASE PutCredential(r)
    <3>0. PICK q \in Request : q = request[r]
      BY <2>q
    <3>1. /\ q.pc = "drop" /\ q.prev \in Credentials
          /\ q.base.credentials[q.prev].status \notin {"absent", "revoked"}
          /\ request' = [request EXCEPT ![r] = Idle] /\ Rooted(q.base)
      BY <2>q, <2>13, <3>0 DEF PutCredential, Prepared, Finish, Holds
    <3>2. /\ grant' = Dropped(q.base, q.prev, q.at)
          /\ raced' = (raced \/ grant # q.base)
          /\ gone' = gone \cup {q.prev}
          /\ UNCHANGED <<now, route, lookup, session>>
      BY <2>13, <3>0 DEF PutCredential, Dropped
    <3>3. q.prev \in lookup
      BY <3>1 DEF Rooted, NoCredential
    <3>. SUFFICES ASSUME NEW c \in gone' PROVE Lost(c)'
      BY DEF AllLost
    <3>4. c \in Credentials /\ (Lost(c) \/ (c = q.prev /\ c \in lookup))
      BY <1>t, <3>1, <3>2, <3>3 DEF AllLost, TypeOK
    <3>5. CASE raced'
      BY <3>2, <3>4, <3>5 DEF Lost
    <3>6. CASE ~raced'
      <4>1. ~raced /\ q.base = grant
        BY <3>2, <3>6
      <4>. QED
        BY <2>i, <2>r, <3>0, <3>1, <3>2, <3>4, <4>1, DroppedLost
    <3>. QED
      BY <3>5, <3>6
  <2>14. CASE RevokeGrant(r)
    <3>1. [Idle EXCEPT !.pc = "revoke", !.op = "revoke"].pc # "put"
      BY DEF Idle
    <3>. QED
      BY <2>14, <3>1, AllLostAside DEF RevokeGrant, Begin
  <2>15. CASE MarkGrant(r)
    <3>1. grant'.status = "revoked" /\ lookup' = lookup /\ gone' = gone
      BY <1>t, <2>15 DEF MarkGrant, Grant
    <3>. QED
      BY <3>1 DEF AllLost, Lost
  <2>16. CASE CloseListed(r)
    <3>1. PICK s \in request[r].todo :
             /\ session' = [session EXCEPT ![s] = "closed"]
             /\ request' = [request EXCEPT ![r] = [request[r] EXCEPT !.todo = request[r].todo \ {s}]]
      BY <2>16 DEF CloseListed
    <3>2. [request[r] EXCEPT !.todo = request[r].todo \ {s}].pc # "put"
      BY <2>q, <2>16 DEF CloseListed, Request
    <3>3. \A x \in Sessions : session[x] = "closed" => session'[x] = "closed"
      BY <1>t, <3>1
    <3>. QED
      BY <2>16, <3>1, <3>2, <3>3, AllLostAside DEF CloseListed
  <2>17. CASE SessionsClosed(r)
    <3>1. UNCHANGED <<now, route, grant, lookup, session, raced>>
      BY <2>17 DEF SessionsClosed
    <3>2. raced \/ grant.status = "revoked"
      BY <2>q, <2>17 DEF SessionsClosed, Holds
    <3>3. ASSUME NEW c \in gone' \ gone PROVE Lost(c)'
      <4>1. c \in Credentials /\ Present(c)
        BY <2>17, <3>3 DEF SessionsClosed, PresentCredentials
      <4>. QED
        BY <3>1, <3>2, <4>1, PresentFound DEF Lost
    <3>4. PICK q : request' = [request EXCEPT ![r] = q] /\ q.pc # "put"
      <4>1. [request[r] EXCEPT !.pc = "route"].pc # "put"
        BY <2>q DEF Request
      <4>. QED
        BY <2>17, <2>i, <4>1 DEF SessionsClosed, Finish, Goto
    <3>. QED
      BY <3>1, <3>3, <3>4, AllLostAside
  <2>18. CASE Fail(r)
    BY <2>18, <2>i, AllLostAside DEF Fail, Finish
  <2>. QED
    BY <1>4, <2>1, <2>2, <2>3, <2>4, <2>5, <2>6, <2>7, <2>8, <2>9, <2>10, <2>11, <2>12, <2>13,
       <2>14, <2>15, <2>16, <2>17, <2>18 DEF Step
<1>5. CASE UNCHANGED vars
  <2>1. now' \in Nat /\ now <= now'
    BY <1>5, <1>t DEF vars
  <2>2. UNCHANGED <<route, grant, lookup, session, request, raced, gone>>
    BY <1>5 DEF vars
  <2>. QED
    BY <2>1, <2>2, AllLostStill
<1>. QED
  BY <1>1, <1>2, <1>3, <1>4, <1>5 DEF Next

LEMMA FinalInvariant == Spec => []FInv
<1>1. Init => FInv
  BY TypedInit, StagesInit, HoldingsInit DEF FInv, KInv, Init
<1>2. FInv /\ [Next]_vars => FInv'
  BY TypedNext, StagesNext, HoldingsNext, AllLostNext DEF FInv, KInv, AllLost
<1>. QED
  BY <1>1, <1>2, PTL DEF Spec

(* What a revocation, an emergency rotation, a deletion or a close took    *)
(* away authenticates nobody, for any number of credentials, sessions and  *)
(* requests that overlap or fail anywhere, up to the first lost update.    *)
THEOREM RevocationsFinal == Spec => []RevocationIsFinal
<1>1. FInv => RevocationIsFinal
  BY DEF FInv, Lost, SessionEnded, Spent, RevocationIsFinal, Accepted
<1>. QED
  BY <1>1, FinalInvariant, PTL

-----------------------------------------------------------------------------
(* The requests implement the lifecycle                                      *)

(* The credential has ended as the lifecycle sees it. *)
Over(c) ==
    \/ grant.credentials[c].status = "revoked" \/ grant.status = "revoked" \/ route = "revoked"
    \/ SessionEnded(c)

LEMMA LifecycleAt ==
    ASSUME NEW c \in Credentials
    PROVE  Lifecycle[c] =
              IF grant.credentials[c].status = "absent" THEN Abstract!Unissued
              ELSE IF Over(c) THEN Abstract!Ended
              ELSE Abstract!Living(grant.credentials[c].revokeAt, grant.credentials[c].expiresAt)
  BY DEF Lifecycle, Over, SessionEnded, Abstract!Unissued, Abstract!Ended, Abstract!Living

LEMMA LifecycleDomain == Lifecycle = [c \in Credentials |-> Lifecycle[c]]
  BY DEF Lifecycle

LEMMA Phases ==
    /\ Abstract!Unissued.phase = "unissued" /\ Abstract!Ended.phase = "ended"
    /\ \A until, expiresAt : Abstract!Living(until, expiresAt).phase = "live"
    /\ \A until, expiresAt : Abstract!Living(until, expiresAt).until = until
    /\ \A until, expiresAt : Abstract!Living(until, expiresAt).expiresAt = expiresAt
  BY DEF Abstract!Unissued, Abstract!Ended, Abstract!Living

(* A step of the lifecycle, or none. *)
Follows == Abstract!Next \/ UNCHANGED <<now, Lifecycle, raced>>

(* A step that ends some of the living credentials. *)
LEMMA EndFollows ==
    ASSUME now' = now, raced' = raced,
           \A c \in Credentials : Lifecycle'[c] = Lifecycle[c]
                                  \/ (Lifecycle[c].phase = "live" /\ Lifecycle'[c] = Abstract!Ended)
    PROVE  Follows
<1>. DEFINE ending == {c \in Credentials : Lifecycle'[c] # Lifecycle[c]}
<1>1. Lifecycle' = [c \in Credentials |-> IF c \in ending THEN Abstract!Ended ELSE Lifecycle[c]]
  <2>1. Lifecycle' = [c \in Credentials |-> Lifecycle'[c]]
    BY DEF Lifecycle
  <2>. QED
    BY <2>1
<1>2. CASE ending = {}
  <2>1. Lifecycle' = [c \in Credentials |-> Lifecycle[c]]
    BY <1>1, <1>2
  <2>. QED
    BY <2>1, LifecycleDomain DEF Follows
<1>3. CASE ending # {}
  <2>1. \A c \in ending : Lifecycle[c].phase = "live"
    OBVIOUS
  <2>2. ending \in SUBSET Credentials
    OBVIOUS
  <2>. HIDE DEF ending
  <2>3. Abstract!End(ending)
    BY <1>1, <1>3, <2>1 DEF Abstract!End, Abstract!Live
  <2>. QED
    BY <2>2, <2>3 DEF Follows, Abstract!Next
<1>. QED
  BY <1>2, <1>3

(* In particular one that leaves the deadlines alone, or revokes. *)
Spares(c) ==
    /\ Over(c) => Over(c)'
    /\ \/ grant'.credentials[c] = grant.credentials[c]
       \/ /\ grant'.credentials[c].status = "revoked"
          /\ grant.credentials[c].status # "absent"

LEMMA OverFollows ==
    ASSUME now' = now, raced' = raced, \A c \in Credentials : Spares(c)
    PROVE  Follows
<1>1. \A c \in Credentials : Lifecycle'[c] = Lifecycle[c]
                              \/ (Lifecycle[c].phase = "live" /\ Lifecycle'[c] = Abstract!Ended)
  <2>. TAKE c \in Credentials
  <2>1. Lifecycle[c] =
          IF grant.credentials[c].status = "absent" THEN Abstract!Unissued
          ELSE IF Over(c) THEN Abstract!Ended
          ELSE Abstract!Living(grant.credentials[c].revokeAt, grant.credentials[c].expiresAt)
    BY LifecycleAt
  <2>2. Lifecycle'[c] =
          IF grant'.credentials[c].status = "absent" THEN Abstract!Unissued
          ELSE IF Over(c)' THEN Abstract!Ended
          ELSE Abstract!Living(grant'.credentials[c].revokeAt, grant'.credentials[c].expiresAt)
    BY DEF Lifecycle, Over, SessionEnded, Abstract!Unissued, Abstract!Ended, Abstract!Living
  <2>3. Spares(c)
    OBVIOUS
  <2>4. CASE grant'.credentials[c] = grant.credentials[c]
    BY <2>1, <2>2, <2>3, <2>4, Phases DEF Spares
  <2>5. CASE grant'.credentials[c].status = "revoked" /\ grant.credentials[c].status # "absent"
    <3>1. Over(c)'
      BY <2>5 DEF Over
    <3>. QED
      BY <2>1, <2>2, <2>5, <3>1, Phases
  <2>. QED
    BY <2>3, <2>4, <2>5 DEF Spares
<1>. QED
  BY <1>1, EndFollows

LEMMA LifecycleThen ==
    ASSUME NEW c \in Credentials
    PROVE  Lifecycle'[c] =
              IF grant'.credentials[c].status = "absent" THEN Abstract!Unissued
              ELSE IF Over(c)' THEN Abstract!Ended
              ELSE Abstract!Living(grant'.credentials[c].revokeAt, grant'.credentials[c].expiresAt)
  BY DEF Lifecycle, Over, SessionEnded, Abstract!Unissued, Abstract!Ended, Abstract!Living

LEMMA LifecycleShape == Lifecycle' = [c \in Credentials |-> Lifecycle'[c]]
  BY DEF Lifecycle

(* What a new credential is to the lifecycle. *)
LEMMA NewLiving ==
    ASSUME NEW n \in Credentials, NEW at \in Nat, NEW s,
           grant'.credentials[n] = createStoredCredential(s, at)
    PROVE  Lifecycle'[n] = IF Over(n)' THEN Abstract!Ended ELSE Abstract!Issued(at)
<1>1. /\ createStoredCredential(s, at).status = "active"
      /\ createStoredCredential(s, at).revokeAt = at + Lifetime
      /\ createStoredCredential(s, at).expiresAt = at + Lifetime
  BY DEF createStoredCredential
<1>. QED
  BY <1>1, LifecycleThen DEF Abstract!Issued

(* A step that stores a new credential ... *)
LEMMA IssueFollows ==
    ASSUME now \in Nat, now' = now, raced' = raced, NEW n \in Credentials, NEW at \in Nat, at <= now,
           grant.credentials[n].status = "absent", NEW s,
           grant'.credentials[n] = createStoredCredential(s, at),
           \A c \in Credentials \ {n} : Lifecycle'[c] = Lifecycle[c]
    PROVE  Follows
<1>1. Lifecycle[n] = Abstract!Unissued
  BY LifecycleAt
<1>2. Lifecycle'[n] \in {Abstract!Issued(at), Abstract!Ended}
  BY NewLiving
<1>3. Lifecycle' = [Lifecycle EXCEPT ![n] = Lifecycle'[n]]
  <2>1. [Lifecycle EXCEPT ![n] = Lifecycle'[n]]
          = [c \in Credentials |-> IF c = n THEN Lifecycle'[n] ELSE Lifecycle[c]]
    BY LifecycleDomain
  <2>. QED
    BY <2>1, LifecycleShape
<1>4. at \in 0..now
  OBVIOUS
<1>5. Abstract!Issue(n)
  BY <1>1, <1>2, <1>3, <1>4 DEF Abstract!Issue
<1>. QED
  BY <1>5 DEF Follows, Abstract!Next

(* ... in the place of one that could be used. *)
LEMMA RotateFollows ==
    ASSUME now \in Nat, now' = now, raced' = raced, NEW n \in Credentials, NEW at \in Nat, at <= now,
           grant.credentials[n].status = "absent",
           Lifecycle'[n] = Abstract!Issued(at),
           NEW p \in Credentials, p # n, Lifecycle[p].phase = "live", Lifecycle[p].until > at,
           Lifecycle'[p] \in {Abstract!Ended, Abstract!Overlapping(Lifecycle[p].expiresAt, at)},
           \A c \in Credentials \ {n, p} : Lifecycle'[c] = Lifecycle[c]
    PROVE  Follows
<1>1. Lifecycle[n] = Abstract!Unissued
  BY LifecycleAt
<1>2. Lifecycle' = [Lifecycle EXCEPT ![p] = Lifecycle'[p], ![n] = Abstract!Issued(at)]
  <2>1. [Lifecycle EXCEPT ![p] = Lifecycle'[p], ![n] = Abstract!Issued(at)]
          = [c \in Credentials |-> IF c = n THEN Abstract!Issued(at)
                                   ELSE IF c = p THEN Lifecycle'[p] ELSE Lifecycle[c]]
    BY LifecycleDomain
  <2>. QED
    BY <2>1, LifecycleShape
<1>3. at \in 0..now
  OBVIOUS
<1>4. Abstract!Rotate(p, n)
  BY <1>1, <1>2, <1>3 DEF Abstract!Rotate, Abstract!Live
<1>. QED
  BY <1>4 DEF Follows, Abstract!Next

(* The replaced credential, when it lived and could be used. *)
LEMMA RotatedLiving ==
    ASSUME NEW credential \in Credential, NEW at \in Nat, NEW emergency \in BOOLEAN,
           credentialUsable(credential, at)
    PROVE  LET then == Rotated(credential, at, emergency) IN
           /\ emergency => then.status = "revoked"
           /\ ~emergency => /\ then.status = "overlap" /\ then.expiresAt = credential.expiresAt
                            /\ Abstract!Living(then.revokeAt, then.expiresAt)
                                  = Abstract!Overlapping(credential.expiresAt, at)
<1>1. CASE emergency
  BY <1>1 DEF Rotated, Credential
<1>2. CASE ~emergency
  <2>. DEFINE revokeAt == IF credential.expiresAt < at + Overlap THEN credential.expiresAt ELSE at + Overlap
  <2>1. Rotated(credential, at, emergency) = [credential EXCEPT !.status = "overlap", !.revokeAt = revokeAt]
    BY <1>2 DEF Rotated
  <2>2. Abstract!Overlapping(credential.expiresAt, at) = Abstract!Living(revokeAt, credential.expiresAt)
    BY DEF Abstract!Overlapping
  <2>. HIDE DEF revokeAt
  <2>3. LET then == [credential EXCEPT !.status = "overlap", !.revokeAt = revokeAt] IN
        then.status = "overlap" /\ then.expiresAt = credential.expiresAt /\ then.revokeAt = revokeAt
    BY DEF Credential
  <2>. QED
    BY <1>2, <2>1, <2>2, <2>3
<1>. QED
  BY <1>1, <1>2

(* Adding and rotating without a race issue a credential or replace one. *)
LEMMA WrittenFollows ==
    ASSUME Typed, Holdings, NEW q \in Request, Holds(q), q.pc = "put", q.new \in Credentials,
           q.base = grant, grant' = Written(q), UNCHANGED <<now, route, session, raced>>
    PROVE  Follows
<1>. DEFINE n == q.new
<1>1. /\ now \in Nat /\ q.at \in Nat /\ q.at <= now /\ q.emergency \in BOOLEAN
      /\ \A c \in Credentials : grant.credentials[c] \in Credential
  BY DEF Typed, TypeOK, Request, Grant, Holds
<1>2. n \notin lookup /\ grant.credentials[n] = NoCredential
  BY DEF Holds, Storing, Holdings, Rooted
<1>3. grant.credentials[n].status = "absent"
  BY <1>2 DEF NoCredential
<1>4. /\ grant'.credentials[n] = createStoredCredential(q.session, q.at)
      /\ grant'.status = grant.status
  BY WrittenAt, WrittenKeeps
<1>5. ASSUME NEW c \in Credentials, grant'.credentials[c] = grant.credentials[c]
      PROVE  Lifecycle'[c] = Lifecycle[c]
  <2>1. Over(c)' <=> Over(c)
    BY <1>4, <1>5 DEF Over, SessionEnded
  <2>. QED
    BY <1>5, <2>1, LifecycleAt, LifecycleThen
<1>6. ASSUME NEW c \in Credentials \ {n}, c # q.prev
      PROVE  grant'.credentials[c] = grant.credentials[c]
  BY <1>6, WrittenAt
<1>7. CASE q.prev \notin Credentials \ {n}
  <2>1. \A c \in Credentials \ {n} : Lifecycle'[c] = Lifecycle[c]
    BY <1>5, <1>6, <1>7
  <2>. QED
    BY <1>1, <1>3, <1>4, <2>1, IssueFollows
<1>8. CASE q.prev \in Credentials \ {n}
  <2>0. PICK p \in Credentials : p = q.prev /\ p # n
    BY <1>8
  <2>1. /\ grant'.credentials[p] = Rotated(grant.credentials[p], q.at, q.emergency)
        /\ grant.credentials[p] \in Credential
    BY <1>1, <2>0, WrittenAt
  <2>2. grant'.credentials[p].session = grant.credentials[p].session
    BY <2>1, RotatedSession
  <2>3. \A c \in Credentials \ {n, p} : Lifecycle'[c] = Lifecycle[c]
    BY <1>5, <1>6, <2>0
  <2>4. CASE ~credentialUsable(grant.credentials[p], q.at)
    <3>1. grant'.credentials[p] = grant.credentials[p]
      BY <2>1, <2>4 DEF Rotated
    <3>2. \A c \in Credentials \ {n} : Lifecycle'[c] = Lifecycle[c]
      BY <1>5, <2>3, <3>1
    <3>. QED
      BY <1>1, <1>3, <1>4, <3>2, IssueFollows
  <2>5. CASE credentialUsable(grant.credentials[p], q.at) /\ Over(p)
    <3>1. grant.credentials[p].status \notin {"absent", "revoked"}
      BY <2>5 DEF credentialUsable
    <3>2. Over(p)'
      BY <1>4, <2>2, <2>5, <3>1 DEF Over, SessionEnded
    <3>3. grant'.credentials[p].status # "absent"
      BY <2>1, <3>1, RotatedKeeps
    <3>4. Lifecycle'[p] = Lifecycle[p]
      BY <2>5, <3>1, <3>2, <3>3, LifecycleAt, LifecycleThen
    <3>5. \A c \in Credentials \ {n} : Lifecycle'[c] = Lifecycle[c]
      BY <2>3, <3>4
    <3>. QED
      BY <1>1, <1>3, <1>4, <3>5, IssueFollows
  <2>6. CASE credentialUsable(grant.credentials[p], q.at) /\ ~Over(p)
    <3>1. /\ grant.credentials[p].status \notin {"absent", "revoked"}
          /\ grant.credentials[p].revokeAt > q.at
      BY <2>6 DEF credentialUsable
    <3>2. Lifecycle[p] = Abstract!Living(grant.credentials[p].revokeAt, grant.credentials[p].expiresAt)
      BY <2>6, <3>1, LifecycleAt
    <3>3. /\ Lifecycle[p].phase = "live" /\ Lifecycle[p].until > q.at
          /\ Lifecycle[p].expiresAt = grant.credentials[p].expiresAt
      BY <3>1, <3>2, Phases
    <3>4. ~SessionEnded(p) /\ grant.status # "revoked" /\ route # "revoked"
      BY <2>6 DEF Over
    <3>5. q.session = grant.credentials[p].session
      BY AccessGrantsConstants, <2>0 DEF Holds
    <3>6. ~Over(n)'
      <4>1. createStoredCredential(q.session, q.at).status = "active"
            /\ createStoredCredential(q.session, q.at).session = q.session
        BY DEF createStoredCredential
      <4>. QED
        BY <1>4, <3>4, <3>5, <4>1 DEF Over, SessionEnded
    <3>7. Lifecycle'[n] = Abstract!Issued(q.at)
      BY <1>1, <1>4, <3>6, NewLiving
    <3>8. Lifecycle'[p] \in {Abstract!Ended, Abstract!Overlapping(Lifecycle[p].expiresAt, q.at)}
      <4>1. CASE q.emergency
        <5>1. grant'.credentials[p].status = "revoked"
          <6>1. q.emergency = TRUE
            BY <1>1, <4>1
          <6>2. Rotated(grant.credentials[p], q.at, TRUE).status = "revoked"
            <7>1. grant.credentials[p] \in Credential /\ q.at \in Nat
              BY <1>1, <2>1
            <7>2. credentialUsable(grant.credentials[p], q.at)
              BY <2>6
            <7>3. Rotated(grant.credentials[p], q.at, TRUE)
                    = [grant.credentials[p] EXCEPT !.status = "revoked", !.revokeAt = q.at]
              BY <7>2, Zenon DEF Rotated
            <7>4. [grant.credentials[p] EXCEPT !.status = "revoked", !.revokeAt = q.at].status = "revoked"
              BY <7>1 DEF Credential
            <7>. QED
              BY <7>3, <7>4
          <6>. QED
            BY <2>1, <6>1, <6>2
        <5>2. Over(p)'
          BY <5>1 DEF Over
        <5>. QED
          BY <5>1, <5>2, LifecycleThen
      <4>2. CASE ~q.emergency
        <5>1. /\ grant'.credentials[p].status = "overlap"
              /\ Abstract!Living(grant'.credentials[p].revokeAt, grant'.credentials[p].expiresAt)
                    = Abstract!Overlapping(grant.credentials[p].expiresAt, q.at)
          BY <1>1, <2>1, <2>6, <4>2, RotatedLiving
        <5>2. ~Over(p)'
          BY <1>4, <2>2, <3>4, <5>1 DEF Over, SessionEnded
        <5>. QED
          BY <3>3, <5>1, <5>2, LifecycleThen
      <4>. QED
        BY <4>1, <4>2
    <3>. QED
      BY <1>1, <1>3, <2>0, <2>3, <3>3, <3>7, <3>8, RotateFollows
  <2>. QED
    BY <2>4, <2>5, <2>6
<1>. QED
  BY <1>7, <1>8

(* Every step is one of the lifecycle, or the first of a race. *)
LEMMA FollowsNext ==
    ASSUME FInv, [Next]_vars
    PROVE  Follows \/ raced'
<1>. SUFFICES ASSUME Typed, Stages, Holdings, ~raced' PROVE Follows
  BY DEF FInv, KInv
<1>. USE DEF items, history
<1>t. TypeOK /\ now \in Nat /\ grant \in Grant /\ session \in [Sessions -> {"absent", "open", "closed"}]
      /\ \A c \in Credentials : grant.credentials[c].session \in Sessions \cup {None}
  BY DEF Typed, TypeOK, Grant, Credential
<1>a. ASSUME now' = now, raced' = raced, grant' = grant,
             route = "revoked" => route' = "revoked",
             \A s \in Sessions : session[s] = "closed" => session'[s] = "closed"
      PROVE  Follows
  <2>1. ASSUME NEW c \in Credentials PROVE Spares(c)
    BY <1>a, <1>t DEF Spares, Over, SessionEnded
  <2>. QED
    BY <1>a, <2>1, OverFollows
<1>1. CASE CreateRoute
  BY <1>1, <1>a DEF CreateRoute
<1>2. CASE closeLogicalSession
  BY <1>2, <1>a, <1>t DEF closeLogicalSession
<1>3. CASE Tick
  <2>1. Lifecycle' = Lifecycle
    BY <1>3 DEF Tick, Lifecycle
  <2>. QED
    BY <1>3, <2>1 DEF Tick, Follows, Abstract!Next, Abstract!Tick
<1>4. ASSUME NEW r \in Requests, Step(r) PROVE Follows
  <2>q. /\ request[r] \in Request /\ Prepared(request[r]) /\ Staged(request[r]) /\ Holds(request[r])
    BY DEF Typed, TypeOK, PreparedAll, Stages, Holdings
  <2>0. PICK q \in Request : q = request[r]
    BY <2>q
  <2>1. CASE TransactGrant(r)
    <3>1. /\ q.new \in Credentials /\ q.at \in Nat /\ q.at <= now /\ grant.status = "absent"
          /\ lookup = {}
      BY <2>q, <2>0, <2>1 DEF TransactGrant, Prepared, Staged, Request, Holds, Holdings
    <3>2. \A c \in Credentials : grant.credentials[c] = NoCredential
      BY <3>1 DEF Holdings, Rooted
    <3>3. /\ grant'.credentials[q.new] = createStoredCredential(q.session, q.at)
          /\ \A c \in Credentials \ {q.new} : grant'.credentials[c] = NoCredential
          /\ UNCHANGED <<now, raced>>
      BY <2>0, <2>1, <3>1 DEF TransactGrant, NoGrant
    <3>4. NoCredential.status = "absent"
      BY DEF NoCredential
    <3>5. \A c \in Credentials \ {q.new} : Lifecycle'[c] = Lifecycle[c]
      BY <3>2, <3>3, <3>4, LifecycleAt, LifecycleThen
    <3>. QED
      BY <1>t, <3>1, <3>2, <3>3, <3>4, <3>5, IssueFollows
  <2>2. CASE TransactCredential(r)
    <3>1. CASE grant.status = "revoked"
      BY <1>a, <2>2, <3>1 DEF TransactCredential
    <3>2. CASE grant.status # "revoked"
      <4>1. /\ q.pc = "put" /\ q.new \in Credentials /\ Holds(q)
        BY <2>q, <2>0, <2>2 DEF TransactCredential, Prepared
      <4>2. /\ grant' = Written(q) /\ raced' = (raced \/ grant # q.base)
            /\ UNCHANGED <<now, route, session>>
        BY <2>0, <2>2, <3>2 DEF TransactCredential
      <4>3. q.base = grant /\ raced' = raced
        BY <1>t, <4>2 DEF TypeOK
      <4>. QED
        BY <4>1, <4>2, <4>3, WrittenFollows
    <3>. QED
      BY <3>1, <3>2
  <2>3. CASE PutCredential(r)
    <3>1. /\ q.prev \in Credentials /\ q.at \in Nat /\ q.base \in Grant
          /\ q.base.credentials[q.prev].status \notin {"absent", "revoked"}
      BY <2>q, <2>0, <2>3 DEF PutCredential, Prepared, Request
    <3>2. /\ grant' = Dropped(q.base, q.prev, q.at)
          /\ raced' = (raced \/ grant # q.base)
          /\ UNCHANGED <<now, route, session>>
      BY <2>0, <2>3 DEF PutCredential, Dropped
    <3>3. q.base = grant /\ raced' = raced
      BY <1>t, <3>2 DEF TypeOK
    <3>4. ASSUME NEW c \in Credentials PROVE Spares(c)
      <4>1. /\ \A d \in Credentials \ {q.prev} : grant'.credentials[d] = grant.credentials[d]
            /\ grant'.credentials[q.prev].status = "revoked"
            /\ grant'.credentials[q.prev].session = grant.credentials[q.prev].session
            /\ grant'.status = grant.status
        BY <3>1, <3>2, <3>3, DroppedAt
      <4>. QED
        BY <3>1, <3>2, <3>3, <4>1 DEF Spares, Over, SessionEnded
    <3>. QED
      BY <3>2, <3>3, <3>4, OverFollows
  <2>4. CASE MarkGrant(r)
    <3>1. /\ grant'.status = "revoked" /\ grant'.credentials = grant.credentials
          /\ UNCHANGED <<now, raced>>
      BY <1>t, <2>4 DEF MarkGrant, Grant
    <3>2. ASSUME NEW c \in Credentials PROVE Spares(c)
      BY <3>1 DEF Spares, Over
    <3>. QED
      BY <3>1, <3>2, OverFollows
  <2>5. CASE createLogicalSession(r)
    <3>1. /\ q.session \in Sessions /\ session[q.session] = "absent"
          /\ session' = [session EXCEPT ![q.session] = "open"]
          /\ UNCHANGED <<now, route, grant, raced>>
      BY AccessGrantsConstants, <2>q, <2>0, <2>5 DEF createLogicalSession, Prepared, Holds, Opening
    <3>2. \A s \in Sessions : session[s] = "closed" => session'[s] = "closed"
      BY <1>t, <3>1
    <3>. QED
      BY <1>a, <3>1, <3>2
  <2>6. CASE CloseListed(r)
    <3>1. PICK s \in request[r].todo : session' = [session EXCEPT ![s] = "closed"]
      BY <2>6 DEF CloseListed
    <3>2. \A x \in Sessions : session[x] = "closed" => session'[x] = "closed"
      BY <1>t, <3>1
    <3>. QED
      BY <1>a, <2>6, <3>2 DEF CloseListed
  <2>7. CASE PutRoute(r)
    <3>1. raced' = (raced \/ route # "ready") /\ route' = "ready"
          /\ UNCHANGED <<now, grant, session>>
      BY <2>7 DEF PutRoute
    <3>2. raced' = raced /\ route = "ready"
      BY <1>t, <3>1 DEF TypeOK
    <3>. QED
      BY <1>a, <3>1, <3>2
  <2>8. CASE RevokeRoute(r)
    BY <1>a, <2>8 DEF RevokeRoute
  <2>9. CASE \/ UpdateRoute(r) \/ DeleteRoute(r) \/ CreateGrant(r) \/ AddCredential(r)
             \/ ReadGrant(r) \/ RotateCredential(r) \/ RevokeCredential(r) \/ RevokeGrant(r)
             \/ SessionsClosed(r) \/ Fail(r)
    <3>1. UNCHANGED <<now, route, grant, session, raced>>
      BY <2>9 DEF UpdateRoute, DeleteRoute, CreateGrant, AddCredential, ReadGrant, RotateCredential,
         RevokeCredential, RevokeGrant, SessionsClosed, Fail, Begin
    <3>. QED
      BY <1>a, <3>1
  <2>. QED
    BY <1>4, <2>1, <2>2, <2>3, <2>4, <2>5, <2>6, <2>7, <2>8, <2>9 DEF Step
<1>5. CASE UNCHANGED vars
  BY <1>5, <1>a DEF vars
<1>. QED
  BY <1>1, <1>2, <1>3, <1>4, <1>5 DEF Next

(* The concurrent requests implement the lifecycle of the credentials, for *)
(* any number of credentials, sessions and requests: each of their steps   *)
(* is one of GrantLifecycle's, or none, until an item is written back that *)
(* had changed since it was read.                                          *)
THEOREM LifecycleImplemented == Spec => ImplementsLifecycle
<1>1. Init => Abstract!Init
  BY DEF Init, NoGrant, NoCredential, Lifecycle, Abstract!Init, Abstract!Unissued
<1>2. FInv /\ [Next]_vars => [Abstract!Next \/ raced']_(Abstract!vars)
  BY FollowsNext DEF Follows, Abstract!vars
<1>. QED
  BY <1>1, <1>2, FinalInvariant, PTL DEF Spec, ImplementsLifecycle, Abstract!Spec

=============================================================================
