------------------------- MODULE AuthorizationCache -------------------------
(***************************************************************************)
(* How one proxy task authenticates connections that present one           *)
(* credential, while the control plane takes the credential, or the route, *)
(* grant or session behind it, away (route-service.ts, dynamo-store.ts).   *)
(*                                                                         *)
(* The task keeps an accepted authorization for 30 seconds.  At most once  *)
(* a second, and in one request shared by all waiting connections, it      *)
(* reads the authorization epoch; when the epoch moved it clears the       *)
(* cache.  A control-plane request first writes the loss and then advances *)
(* the epoch, and may stop in between.  What an authorization is based on  *)
(* is read before an await and cached after it.  A connection is admitted  *)
(* only after the route, the grant and the session, but not the            *)
(* credential, were read again.                                            *)
(*                                                                         *)
(* Abstractions.  Nothing is given back in this module, so the reads of an *)
(* authentication (lookup, grant, route, session) are one step: a passing  *)
(* one might as well have read everything at its first request.  Deadlines *)
(* are the time left until them.                                           *)
(***************************************************************************)
EXTENDS Integers, FiniteSets

CONSTANTS
    Connections,  \* connections that present the credential to the task
    Admins,       \* concurrent control-plane requests
    LocalAdmins,  \* those made inside the proxy task (the local runtime)
    Ttl,          \* AUTHORIZATION_CACHE_TTL_MS
    Refresh,      \* AUTHORIZATION_EPOCH_REFRESH_MS
    MaxEpoch      \* bound on the authorization epoch

ASSUME AuthorizationConstants ==
    /\ LocalAdmins \subseteq Admins
    /\ Ttl \in Nat \ {0} /\ Refresh \in Nat \ {0}
    /\ MaxEpoch \in Nat

Losses == {"credential", "scope"}  \* scope: the route, the grant or the session

VARIABLES
    lost,       \* losses written to the items
    epoch,      \* the AUTHORIZATION#GLOBAL item
    admin,      \* admin[a]: what the control-plane request a is about to do
    known,      \* #authorizationEpoch
    refreshIn,  \* time until #authorizationEpochRefreshAt
    refresh,    \* #authorizationEpochRefresh and the epoch it read
    entry,      \* the cache entry of the credential: the time left to it
    conn,       \* conn[c]: a connection
    announced,  \* announced[l]: the first epoch that tells of the loss l (history)
    answered    \* the loss of the scope was answered (history)

store == <<lost, epoch, admin, announced, answered>>
task == <<known, refreshIn, refresh, entry, conn>>
cacheVars == <<store, task>>

NoRequest == [pc |-> "idle", loss |-> "credential"]
NoRefresh == [pc |-> "none", epoch |-> 0]
NoEntry == [left |-> 0, overlapped |-> FALSE]

(* overlapped: the cache was cleared after the items were read (history).  *)
(* late: it began when the loss of the scope had been answered (history).  *)
NoConnection == [pc |-> "idle", overlapped |-> FALSE, late |-> FALSE]

CacheInit ==
    /\ lost = {} /\ epoch = 0
    /\ admin = [a \in Admins |-> NoRequest]
    /\ known = -1 /\ refreshIn = 0 /\ refresh = NoRefresh
    /\ entry = NoEntry
    /\ conn = [c \in Connections |-> NoConnection]
    /\ announced = [l \in Losses |-> 0]
    /\ answered = FALSE

-----------------------------------------------------------------------------
(* The control plane *)

(* The cache is emptied, also of what connections that have read the items *)
(* will add to it only later.                                              *)
ClearCache ==
    /\ entry' = NoEntry
    /\ conn' = [c \in Connections |->
                   [conn[c] EXCEPT !.overlapped = @ \/ conn[c].pc = "cache"]]

invalidateAuthorizationCache ==
    /\ ClearCache
    /\ known' = -1 /\ refreshIn' = 0
    /\ UNCHANGED refresh

(* The request has answered; in the local runtime it clears the cache. *)
Answer(a, l) ==
    /\ answered' = (answered \/ l = "scope")
    /\ IF a \in LocalAdmins THEN invalidateAuthorizationCache ELSE UNCHANGED task

(* A revocation, an emergency rotation or a close writes the item.  One    *)
(* that finds a revoked credential or a closed session is done, whether or *)
(* not the request before it got to the epoch.                             *)
Write(a) ==
    /\ admin[a].pc = "idle"
    /\ \E l \in Losses :
          \/ /\ lost' = lost \cup {l}
             /\ admin' = [admin EXCEPT ![a] = [pc |-> "bump", loss |-> l]]
             /\ UNCHANGED <<answered, task>>
          \/ l \in lost /\ Answer(a, l) /\ UNCHANGED <<lost, admin>>
    /\ UNCHANGED <<epoch, announced>>

(* ADD one to the epoch, which from then on tells of every loss written so *)
(* far.                                                                    *)
AdvanceEpoch ==
    /\ epoch < MaxEpoch
    /\ epoch' = epoch + 1
    /\ announced' = [l \in Losses |-> IF l \in lost /\ announced[l] = 0 THEN epoch + 1
                                                                       ELSE announced[l]]

bumpAuthorizationEpoch(a) ==
    /\ admin[a].pc = "bump"
    /\ AdvanceEpoch
    /\ admin' = [admin EXCEPT ![a] = NoRequest]
    /\ Answer(a, admin[a].loss)
    /\ UNCHANGED lost

(* Creating and updating routes, adding credentials and the operations on  *)
(* other grants advance the epoch too; those of the local runtime that     *)
(* change an authorization clear the cache.                                *)
OtherChange ==
    /\ AdvanceEpoch
    /\ \/ UNCHANGED task
       \/ LocalAdmins # {} /\ invalidateAuthorizationCache
    /\ UNCHANGED <<lost, admin, answered>>

(* The control plane stops, or the request for the epoch fails. *)
Stop(a) ==
    /\ admin[a].pc = "bump"
    /\ admin' = [admin EXCEPT ![a] = NoRequest]
    /\ UNCHANGED <<lost, epoch, announced, answered, task>>

-----------------------------------------------------------------------------
(* The proxy task *)

Goto(c, pc) == conn' = [conn EXCEPT ![c].pc = pc]

(* authenticate begins; it asks for the epoch when it is due, unless a     *)
(* request for it is under way.                                            *)
Authenticate(c) ==
    /\ conn[c].pc = "idle"
    /\ conn' = [conn EXCEPT ![c] = [pc |-> IF refreshIn = 0 THEN "refresh" ELSE "lookup",
                                    overlapped |-> FALSE, late |-> answered]]
    /\ refresh' = IF refreshIn = 0 /\ refresh = NoRefresh THEN [NoRefresh EXCEPT !.pc = "asked"]
                                                          ELSE refresh
    /\ UNCHANGED <<store, known, refreshIn, entry>>

(* The store reads the epoch ... *)
getAuthorizationEpoch ==
    /\ refresh.pc = "asked"
    /\ refresh' = [pc |-> "read", epoch |-> epoch]
    /\ UNCHANGED <<store, known, refreshIn, entry, conn>>

Waiting(c) == conn[c].pc = "refresh"

(* Mutant of EpochRead: the cache is kept when the epoch moved. *)
EpochReadOnly ==
    /\ refresh.pc = "read"
    /\ known' = refresh.epoch
    /\ refreshIn' = Refresh
    /\ refresh' = NoRefresh
    /\ entry' = entry
    /\ conn' = [c \in Connections |->
                   IF Waiting(c) THEN [conn[c] EXCEPT !.pc = "lookup"] ELSE conn[c]]
    /\ UNCHANGED store

(* ... and the task takes notice, or the request fails and with it every   *)
(* connection that waited for it.                                          *)
EpochRead ==
    /\ refresh.pc = "read"
    /\ known' = refresh.epoch
    /\ refreshIn' = Refresh
    /\ refresh' = NoRefresh
    /\ entry' = IF known # refresh.epoch THEN NoEntry ELSE entry
    /\ conn' = [c \in Connections |->
                   IF Waiting(c) THEN [conn[c] EXCEPT !.pc = "lookup"]
                   ELSE [conn[c] EXCEPT !.overlapped =
                            @ \/ (known # refresh.epoch /\ conn[c].pc = "cache")]]
    /\ UNCHANGED store

EpochFailed ==
    /\ refresh # NoRefresh
    /\ refresh' = NoRefresh
    /\ conn' = [c \in Connections |-> IF Waiting(c) THEN NoConnection ELSE conn[c]]
    /\ UNCHANGED <<store, known, refreshIn, entry>>

(* Mutant of LookupCache: every use renews the entry. *)
LookupRenews(c) ==
    /\ conn[c].pc = "lookup"
    /\ IF entry.left > 0 THEN Goto(c, "accepted") /\ entry' = [entry EXCEPT !.left = Ttl]
                         ELSE Goto(c, "read") /\ entry' = NoEntry
    /\ UNCHANGED <<store, known, refreshIn, refresh>>

(* The cache answers, or the items have to be read. *)
LookupCache(c) ==
    /\ conn[c].pc = "lookup"
    /\ IF entry.left > 0 THEN Goto(c, "accepted") /\ UNCHANGED entry
                         ELSE Goto(c, "read") /\ entry' = NoEntry
    /\ UNCHANGED <<store, known, refreshIn, refresh>>

(* authenticateAccessGrant and getLogicalSession, which may fail: refused. *)
authenticateAccessGrant(c) ==
    /\ conn[c].pc = "read"
    /\ \/ lost = {} /\ Goto(c, "cache")
       \/ conn' = [conn EXCEPT ![c] = NoConnection]
    /\ UNCHANGED <<store, known, refreshIn, refresh, entry>>

cacheAuthorization(c) ==
    /\ conn[c].pc = "cache"
    /\ entry' = [left |-> Ttl, overlapped |-> conn[c].overlapped]
    /\ conn' = [conn EXCEPT ![c] = [@ EXCEPT !.pc = "accepted", !.overlapped = FALSE]]
    /\ UNCHANGED <<store, known, refreshIn, refresh>>

(* Mutant of assertNewConnectionAllowed: the authorization is believed. *)
BelieveAuthorization(c) ==
    /\ conn[c].pc = "accepted"
    /\ Goto(c, "admitted")
    /\ UNCHANGED <<store, known, refreshIn, refresh, entry>>

(* assertNewConnectionAllowed reads the route, the grant and the session.  *)
(* The connection may also end before it, or be refused for other reasons. *)
assertNewConnectionAllowed(c) ==
    /\ conn[c].pc = "accepted"
    /\ \/ "scope" \notin lost /\ Goto(c, "admitted")
       \/ conn' = [conn EXCEPT ![c] = NoConnection]
    /\ UNCHANGED <<store, known, refreshIn, refresh, entry>>

Leave(c) ==
    /\ conn[c].pc = "admitted"
    /\ conn' = [conn EXCEPT ![c] = NoConnection]
    /\ UNCHANGED <<store, known, refreshIn, refresh, entry>>

(* A full cache gives up its oldest entry for another credential's. *)
Evict ==
    /\ entry # NoEntry
    /\ entry' = NoEntry
    /\ UNCHANGED <<store, known, refreshIn, refresh, conn>>

CacheTick ==
    /\ refreshIn > 0 \/ entry.left > 0
    /\ refreshIn' = IF refreshIn > 0 THEN refreshIn - 1 ELSE 0
    /\ entry' = IF entry.left > 1 THEN [entry EXCEPT !.left = @ - 1] ELSE NoEntry
    /\ UNCHANGED <<store, known, refresh, conn>>

-----------------------------------------------------------------------------
AdminStep(a) == Write(a) \/ bumpAuthorizationEpoch(a) \/ Stop(a)

Continue(c) ==
    \/ LookupCache(c) \/ authenticateAccessGrant(c) \/ cacheAuthorization(c)
    \/ assertNewConnectionAllowed(c) \/ Leave(c)

EpochStep == getAuthorizationEpoch \/ EpochRead \/ EpochFailed

CacheNext ==
    \/ \E a \in Admins : AdminStep(a)
    \/ \E c \in Connections : Authenticate(c) \/ Continue(c)
    \/ OtherChange \/ EpochStep \/ Evict \/ CacheTick

(* Time passes, requests end one way or the other, and a task runs what it *)
(* is given to run.                                                        *)
Fairness ==
    /\ WF_cacheVars(CacheTick) /\ WF_cacheVars(EpochStep)
    /\ \A c \in Connections : WF_cacheVars(Continue(c))

CacheSpec == CacheInit /\ [][CacheNext]_cacheVars /\ Fairness

-----------------------------------------------------------------------------
(* Shapes of the state. *)
CacheTypeOK ==
    /\ lost \in SUBSET Losses /\ answered \in BOOLEAN
    /\ epoch \in Nat
    /\ admin \in [Admins -> [pc: {"idle", "bump"}, loss: Losses]]
    /\ known \in Nat \cup {-1} /\ refreshIn \in 0..Refresh
    /\ refresh \in [pc: {"none", "asked", "read"}, epoch: Nat]
    /\ entry \in [left: 0..Ttl, overlapped: BOOLEAN]
    /\ conn \in [Connections -> [pc: {"idle", "refresh", "lookup", "read", "cache", "accepted",
                                      "admitted"},
                                 overlapped: BOOLEAN, late: BOOLEAN]]
    /\ announced \in [Losses -> Nat]

(* Once the task has read an epoch that tells of a loss, the cache answers *)
(* for the credential no more, unless an authentication that had read the  *)
(* items before the cache was cleared put its result there afterwards.     *)
NoticedLossIsRefused ==
    \A l \in Losses : announced[l] # 0 /\ known >= announced[l] /\ entry.left > 0
                      => entry.overlapped

(* A connection that began after a close, a revocation of the grant or a   *)
(* deletion of the profile was answered is never admitted, whatever the    *)
(* cache says: "Closing a session rejects new connections immediately".    *)
ClosedAdmitsNobody == \A c \in Connections : conn[c].pc = "admitted" => ~conn[c].late

(* A lost credential is in the end accepted no more, also when the epoch   *)
(* was never advanced and however often the cached authorization is used.  *)
LossTakesHold ==
    lost # {} ~> [](\A c \in Connections : conn[c].pc # "accepted")

=============================================================================
