----------------------------- MODULE SessionProofs -----------------------------
(***************************************************************************)
(* Proofs about what a connection is admitted with and what it is bound    *)
(* to.                                                                     *)
(*                                                                         *)
(* About AuthorizationCache, for any number of connections and of          *)
(* control-plane requests, in the proxy task or out of it, and any         *)
(* lifetime of an entry and of an epoch: the types, that a loss the task   *)
(* has noticed is refused, and that what was closed admits nobody.         *)
(*                                                                         *)
(* About SessionBinding, for any number of operations of a session, slots, *)
(* profiles, records, limits and sessions left by earlier connections:     *)
(* what is answered is bound, bindings stick, and a failback is quiet.     *)
(***************************************************************************)
EXTENDS AuthorizationCache, SessionBinding, FiniteSetTheorems, SequenceTheorems, TLAPS

-----------------------------------------------------------------------------
(* Definitions *)

(* The task has read an epoch that tells of the loss l. *)
Noticed(l) == announced[l] # 0 /\ announced[l] <= known

(* The epoch tells of losses that were written, and nobody read a later    *)
(* one than there is.                                                      *)
EpochsTell ==
    /\ \A l \in Losses : announced[l] # 0 => l \in lost /\ announced[l] <= epoch
    /\ known <= epoch /\ refresh.epoch <= epoch

(* What is cached, or is about to be, of a credential whose loss was       *)
(* noticed had been read before the cache was cleared.                     *)
Overlaps(l) ==
    Noticed(l) =>
        /\ entry.left > 0 => entry.overlapped
        /\ \A c \in Connections : conn[c].pc = "cache" => conn[c].overlapped

NoticedInv == CacheTypeOK /\ EpochsTell /\ \A l \in Losses : Overlaps(l)

(* A loss that was answered, or is about to be, was written; a connection  *)
(* that began after it meets it wherever it has got to.                    *)
Written ==
    /\ answered => "scope" \in lost
    /\ \A a \in Admins : admin[a].pc = "bump" => admin[a].loss \in lost

Late(c) == conn[c].late => "scope" \in lost /\ conn[c].pc # "admitted"

ClosedInv == CacheTypeOK /\ Written /\ \A c \in Connections : Late(c)

-----------------------------------------------------------------------------
(* Types *)

Connection ==
    [pc: {"idle", "refresh", "lookup", "read", "cache", "accepted", "admitted"},
     overlapped: BOOLEAN, late: BOOLEAN]

CacheEntry == [left: 0..Ttl, overlapped: BOOLEAN]

LEMMA EmptyTypes ==
    /\ NoEntry \in CacheEntry /\ NoEntry.left = 0
    /\ NoConnection \in Connection /\ NoConnection.pc = "idle" /\ ~NoConnection.late
    /\ NoRequest \in [pc: {"idle", "bump"}, loss: Losses] /\ NoRequest.pc = "idle"
    /\ NoRefresh \in [pc: {"none", "asked", "read"}, epoch: Nat] /\ NoRefresh.epoch = 0
  BY AuthorizationConstants
     DEF NoEntry, CacheEntry, NoConnection, Connection, NoRequest, NoRefresh, Losses

(* The cache is cleared: the entry is gone, and a connection that is about *)
(* to cache is marked.                                                     *)
LEMMA Cleared ==
    ASSUME CacheTypeOK, ClearCache
    PROVE  /\ entry' = NoEntry /\ entry' \in CacheEntry
           /\ conn' \in [Connections -> Connection]
           /\ \A c \in Connections : /\ conn'[c].pc = conn[c].pc /\ conn'[c].late = conn[c].late
                                     /\ conn[c].pc = "cache" => conn'[c].overlapped
<1>1. entry' = NoEntry /\ entry' \in CacheEntry
  BY EmptyTypes DEF ClearCache
<1>2. ASSUME NEW c \in Connections
      PROVE  /\ conn'[c] \in Connection
             /\ conn'[c].pc = conn[c].pc /\ conn'[c].late = conn[c].late
             /\ conn[c].pc = "cache" => conn'[c].overlapped
  <2>1. conn[c] \in Connection
    BY DEF CacheTypeOK, Connection
  <2>2. conn'[c] = [conn[c] EXCEPT !.overlapped = conn[c].overlapped \/ conn[c].pc = "cache"]
    BY DEF ClearCache
  <2>3. (conn[c].overlapped \/ conn[c].pc = "cache") \in BOOLEAN
    BY <2>1 DEF Connection
  <2>. QED
    BY <2>1, <2>2, <2>3 DEF Connection
<1>. QED
  BY <1>1, <1>2 DEF ClearCache

(* What a request that answers does to the task. *)
LEMMA Answered ==
    ASSUME CacheTypeOK, NEW a \in Admins, NEW l \in Losses, Answer(a, l)
    PROVE  /\ answered' = (answered \/ l = "scope") /\ answered' \in BOOLEAN
           /\ invalidateAuthorizationCache \/ UNCHANGED task
BY Zenon DEF Answer, CacheTypeOK

(* The types of the task are kept by an invalidation. *)
TaskOK ==
    /\ known \in Nat \cup {-1} /\ refreshIn \in 0..Refresh
    /\ refresh \in [pc: {"none", "asked", "read"}, epoch: Nat]
    /\ entry \in CacheEntry
    /\ conn \in [Connections -> Connection]

StoreOK ==
    /\ lost \in SUBSET Losses /\ answered \in BOOLEAN
    /\ epoch \in Nat
    /\ admin \in [Admins -> [pc: {"idle", "bump"}, loss: Losses]]
    /\ announced \in [Losses -> Nat]

LEMMA TypeParts == CacheTypeOK <=> StoreOK /\ TaskOK
BY DEF CacheTypeOK, StoreOK, TaskOK, CacheEntry, Connection

LEMMA Invalidated ==
    ASSUME CacheTypeOK, invalidateAuthorizationCache \/ UNCHANGED task
    PROVE  TaskOK'
<1>1. CASE invalidateAuthorizationCache
  <2>1. ClearCache /\ known' = -1 /\ refreshIn' = 0 /\ refresh' = refresh
    BY <1>1 DEF invalidateAuthorizationCache
  <2>. QED
    BY <2>1, Cleared, TypeParts, AuthorizationConstants DEF TaskOK
<1>2. CASE UNCHANGED task
  BY <1>2, TypeParts DEF task, TaskOK
<1>. QED
  BY <1>1, <1>2

LEMMA Advanced ==
    ASSUME CacheTypeOK, AdvanceEpoch
    PROVE  /\ epoch' = epoch + 1 /\ epoch' \in Nat /\ announced' \in [Losses -> Nat]
           /\ \A l \in Losses : \/ announced'[l] = announced[l]
                                \/ l \in lost /\ announced[l] = 0 /\ announced'[l] = epoch + 1
BY DEF AdvanceEpoch, CacheTypeOK

(* The step of a connection. *)
LEMMA ConnectionStep ==
    ASSUME CacheTypeOK, NEW c \in Connections, Continue(c)
    PROVE  /\ UNCHANGED <<store, known, refreshIn, refresh>>
           /\ entry' \in {entry, NoEntry, [left |-> Ttl, overlapped |-> conn[c].overlapped]}
           /\ \E d \in Connection :
                 /\ conn' = [conn EXCEPT ![c] = d]
                 /\ d.late => conn[c].late
                 /\ d.pc = "admitted" => "scope" \notin lost
                 /\ d.pc = "cache" => lost = {}
<1>1. conn[c] \in Connection
  BY DEF CacheTypeOK, Connection
<1>2. ASSUME NEW pc \in {"accepted", "read", "cache", "admitted"}, Goto(c, pc),
             pc = "admitted" => "scope" \notin lost, pc = "cache" => lost = {}
      PROVE  \E d \in Connection :
                 /\ conn' = [conn EXCEPT ![c] = d]
                 /\ d.late => conn[c].late
                 /\ d.pc = "admitted" => "scope" \notin lost
                 /\ d.pc = "cache" => lost = {}
  <2>1. PICK d : d = [conn[c] EXCEPT !.pc = pc]
    OBVIOUS
  <2>2. d \in Connection /\ d.late = conn[c].late /\ d.pc = pc
    BY <1>1, <2>1 DEF Connection
  <2>3. conn' = [conn EXCEPT ![c] = d]
    BY <1>2, <2>1 DEF Goto
  <2>. QED
    BY <1>2, <2>2, <2>3
<1>3. ASSUME conn' = [conn EXCEPT ![c] = NoConnection]
      PROVE  \E d \in Connection :
                 /\ conn' = [conn EXCEPT ![c] = d]
                 /\ d.late => conn[c].late
                 /\ d.pc = "admitted" => "scope" \notin lost
                 /\ d.pc = "cache" => lost = {}
  BY <1>3, EmptyTypes
<1>4. CASE LookupCache(c)
  BY <1>4, <1>2 DEF LookupCache
<1>5. CASE authenticateAccessGrant(c)
  BY <1>5, <1>2, <1>3 DEF authenticateAccessGrant
<1>6. CASE cacheAuthorization(c)
  <2>1. PICK d : d = [conn[c] EXCEPT !.pc = "accepted", !.overlapped = FALSE]
    OBVIOUS
  <2>2. d \in Connection /\ d.late = conn[c].late /\ d.pc = "accepted"
    BY <1>1, <2>1 DEF Connection
  <2>3. conn' = [conn EXCEPT ![c] = d]
    BY <1>6, <2>1 DEF cacheAuthorization
  <2>. QED
    BY <1>6, <2>2, <2>3 DEF cacheAuthorization
<1>7. CASE assertNewConnectionAllowed(c)
  BY <1>7, <1>2, <1>3 DEF assertNewConnectionAllowed
<1>8. CASE Leave(c)
  BY <1>8, <1>3 DEF Leave
<1>. QED
  BY <1>4, <1>5, <1>6, <1>7, <1>8 DEF Continue

LEMMA TypeNext ==
    ASSUME CacheTypeOK, [CacheNext]_cacheVars
    PROVE  CacheTypeOK'
<1>. USE AuthorizationConstants
<1>t. StoreOK /\ TaskOK
  BY TypeParts
<1>p. StoreOK' /\ TaskOK' => CacheTypeOK'
  BY DEF CacheTypeOK, StoreOK, TaskOK, CacheEntry, Connection
<1>a. ASSUME UNCHANGED store, TaskOK' PROVE CacheTypeOK'
  BY <1>a, <1>t, <1>p DEF store, StoreOK
<1>1. ASSUME NEW a \in Admins, AdminStep(a) PROVE CacheTypeOK'
  <2>1. CASE Write(a)
    <3>1. PICK l \in Losses :
             \/ /\ lost' = lost \cup {l}
                /\ admin' = [admin EXCEPT ![a] = [pc |-> "bump", loss |-> l]]
                /\ UNCHANGED <<answered, task>>
             \/ l \in lost /\ Answer(a, l) /\ UNCHANGED <<lost, admin>>
      BY <2>1 DEF Write
    <3>2. answered' \in BOOLEAN /\ TaskOK'
      BY <3>1, <1>t, Answered, Invalidated DEF StoreOK
    <3>3. lost' \in SUBSET Losses /\ admin' \in [Admins -> [pc: {"idle", "bump"}, loss: Losses]]
      BY <3>1, <1>t DEF StoreOK
    <3>. QED
      BY <2>1, <3>2, <3>3, <1>t, <1>p DEF Write, StoreOK
  <2>2. CASE bumpAuthorizationEpoch(a)
    <3>1. admin[a].loss \in Losses
      BY <1>t DEF StoreOK
    <3>2. answered' \in BOOLEAN /\ TaskOK'
      BY <2>2, <3>1, Answered, Invalidated DEF bumpAuthorizationEpoch
    <3>3. epoch' \in Nat /\ announced' \in [Losses -> Nat]
      BY <2>2, Advanced DEF bumpAuthorizationEpoch
    <3>4. lost' = lost /\ admin' \in [Admins -> [pc: {"idle", "bump"}, loss: Losses]]
      BY <2>2, <1>t, EmptyTypes DEF bumpAuthorizationEpoch, StoreOK
    <3>. QED
      BY <3>2, <3>3, <3>4, <1>t, <1>p DEF StoreOK
  <2>3. CASE Stop(a)
    BY <2>3, <1>t, <1>p, EmptyTypes DEF Stop, StoreOK, TaskOK, task
  <2>. QED
    BY <1>1, <2>1, <2>2, <2>3 DEF AdminStep
<1>2. ASSUME NEW c \in Connections, Authenticate(c) PROVE CacheTypeOK'
  <2>1. conn' \in [Connections -> Connection]
    BY <1>2, <1>t DEF Authenticate, StoreOK, TaskOK, Connection
  <2>2. refresh' \in [pc: {"none", "asked", "read"}, epoch: Nat]
    BY <1>2, <1>t DEF Authenticate, TaskOK, NoRefresh
  <2>. QED
    BY <1>2, <1>t, <1>a, <2>1, <2>2 DEF Authenticate, TaskOK
<1>3. ASSUME NEW c \in Connections, Continue(c) PROVE CacheTypeOK'
  <2>1. entry' \in CacheEntry
    BY <1>3, <1>t, ConnectionStep, EmptyTypes DEF TaskOK, CacheEntry, Connection
  <2>2. conn' \in [Connections -> Connection]
    BY <1>3, <1>t, ConnectionStep DEF TaskOK
  <2>. QED
    BY <1>3, <1>t, <1>a, <2>1, <2>2, ConnectionStep DEF TaskOK
<1>4. CASE OtherChange
  <2>1. epoch' \in Nat /\ announced' \in [Losses -> Nat]
    BY <1>4, Advanced DEF OtherChange
  <2>2. TaskOK'
    BY <1>4, Invalidated DEF OtherChange
  <2>. QED
    BY <1>4, <2>1, <2>2, <1>t, <1>p DEF OtherChange, StoreOK
<1>5. CASE getAuthorizationEpoch
  BY <1>5, <1>t, <1>a DEF getAuthorizationEpoch, TaskOK, StoreOK
<1>6. CASE EpochRead
  <2>1. ASSUME NEW c \in Connections PROVE conn'[c] \in Connection
    <3>1. conn[c] \in Connection
      BY <1>t DEF TaskOK
    <3>2. (conn[c].overlapped \/ (known # refresh.epoch /\ conn[c].pc = "cache")) \in BOOLEAN
      BY <3>1 DEF Connection
    <3>3. conn'[c] = IF Waiting(c) THEN [conn[c] EXCEPT !.pc = "lookup"]
                     ELSE [conn[c] EXCEPT !.overlapped =
                             conn[c].overlapped \/ (known # refresh.epoch /\ conn[c].pc = "cache")]
      BY <1>6 DEF EpochRead
    <3>. QED
      BY <3>1, <3>2, <3>3 DEF Connection
  <2>2. conn' \in [Connections -> Connection]
    BY <1>6, <2>1 DEF EpochRead
  <2>3. known' \in Nat /\ refreshIn' \in 0..Refresh /\ entry' \in CacheEntry
    BY <1>6, <1>t, EmptyTypes DEF EpochRead, TaskOK
  <2>. QED
    BY <1>6, <1>t, <1>a, <2>2, <2>3, EmptyTypes DEF EpochRead, TaskOK
<1>7. CASE EpochFailed
  BY <1>7, <1>t, <1>a, EmptyTypes DEF EpochFailed, TaskOK
<1>8. CASE Evict
  BY <1>8, <1>t, <1>a, EmptyTypes DEF Evict, TaskOK
<1>9. CASE CacheTick
  <2>1. entry' \in CacheEntry
    BY <1>9, <1>t, EmptyTypes DEF CacheTick, TaskOK, CacheEntry
  <2>2. refreshIn' \in 0..Refresh
    BY <1>9, <1>t DEF CacheTick, TaskOK
  <2>. QED
    BY <1>9, <1>t, <1>a, <2>1, <2>2 DEF CacheTick, TaskOK
<1>10. CASE UNCHANGED cacheVars
  BY <1>10, <1>t, <1>a DEF cacheVars, task, TaskOK
<1>. QED
  BY <1>1, <1>2, <1>3, <1>4, <1>5, <1>6, <1>7, <1>8, <1>9, <1>10 DEF CacheNext, EpochStep

LEMMA TypeInit == CacheInit => CacheTypeOK
<1>. SUFFICES ASSUME CacheInit PROVE CacheTypeOK
  OBVIOUS
<1>1. StoreOK
  BY EmptyTypes DEF CacheInit, StoreOK, Losses
<1>2. TaskOK
  BY AuthorizationConstants, EmptyTypes DEF CacheInit, TaskOK
<1>. QED
  BY <1>1, <1>2, TypeParts

(* The cache, the connections and the control plane keep their shapes, for *)
(* any number of connections and requests.                                 *)
THEOREM AuthorizationTypes == CacheSpec => []CacheTypeOK
<1>1. CacheTypeOK /\ [CacheNext]_cacheVars => CacheTypeOK'
  BY TypeNext
<1>. QED
  BY <1>1, TypeInit, PTL DEF CacheSpec

-----------------------------------------------------------------------------
(* A loss that was noticed *)

(* A task that was told to clear its cache has noticed nothing. *)
LEMMA NothingNoticed ==
    ASSUME CacheTypeOK', invalidateAuthorizationCache, NEW l \in Losses
    PROVE  ~Noticed(l)'
BY DEF CacheTypeOK, Noticed, invalidateAuthorizationCache

(* No loss is told of by an epoch the task has already read. *)
LEMMA NothingNew ==
    ASSUME NoticedInv, AdvanceEpoch, known' = known, NEW l \in Losses, Noticed(l)'
    PROVE  Noticed(l)
<1>1. announced'[l] # epoch + 1
  BY DEF NoticedInv, CacheTypeOK, EpochsTell, Noticed
<1>. QED
  BY <1>1, Advanced DEF NoticedInv, Noticed

LEMMA NoticedNext ==
    ASSUME NoticedInv, [CacheNext]_cacheVars
    PROVE  NoticedInv'
<1>t. CacheTypeOK /\ CacheTypeOK'
  BY TypeNext DEF NoticedInv
<1>i. EpochsTell /\ \A l \in Losses : Overlaps(l)
  BY DEF NoticedInv
<1>n. known \in Nat \cup {-1} /\ epoch \in Nat /\ refresh.epoch \in Nat /\ announced \in [Losses -> Nat]
  BY <1>t DEF CacheTypeOK
<1>. SUFFICES EpochsTell' /\ \A l \in Losses : Overlaps(l)'
  BY <1>t DEF NoticedInv
<1>a. ASSUME UNCHANGED store, known' = known, refresh'.epoch <= epoch PROVE EpochsTell'
  BY <1>a, <1>i, <1>n DEF store, EpochsTell
<1>b. ASSUME lost \subseteq lost', UNCHANGED <<epoch, announced>>,
             invalidateAuthorizationCache \/ UNCHANGED task
      PROVE  EpochsTell' /\ \A l \in Losses : Overlaps(l)'
  <2>1. CASE UNCHANGED task
    BY <1>b, <2>1, <1>i, <1>n DEF task, EpochsTell, Overlaps, Noticed
  <2>2. CASE invalidateAuthorizationCache
    <3>1. EpochsTell'
      BY <1>b, <2>2, <1>i, <1>n DEF invalidateAuthorizationCache, EpochsTell
    <3>2. \A l \in Losses : Overlaps(l)'
      BY <2>2, <1>t, NothingNoticed DEF Overlaps
    <3>. QED
      BY <3>1, <3>2
  <2>. QED
    BY <1>b, <2>1, <2>2
<1>c. ASSUME lost' = lost, AdvanceEpoch, invalidateAuthorizationCache \/ UNCHANGED task
      PROVE  EpochsTell' /\ \A l \in Losses : Overlaps(l)'
  <2>1. \A l \in Losses : announced'[l] # 0 => l \in lost' /\ announced'[l] <= epoch'
    BY <1>c, <1>i, <1>n, <1>t, Advanced DEF EpochsTell
  <2>2. epoch' = epoch + 1
    BY <1>c, <1>t, Advanced
  <2>3. CASE UNCHANGED task
    <3>1. EpochsTell'
      BY <2>1, <2>2, <2>3, <1>i, <1>n DEF task, EpochsTell
    <3>2. ASSUME NEW l \in Losses PROVE Overlaps(l)'
      <4>1. Noticed(l)' => Noticed(l)
        BY <1>c, <2>3, NothingNew DEF task
      <4>. QED
        BY <2>3, <4>1, <1>i DEF task, Overlaps
    <3>. QED
      BY <3>1, <3>2
  <2>4. CASE invalidateAuthorizationCache
    <3>1. EpochsTell'
      BY <2>1, <2>2, <2>4, <1>i, <1>n DEF invalidateAuthorizationCache, EpochsTell
    <3>2. \A l \in Losses : Overlaps(l)'
      BY <2>4, <1>t, NothingNoticed DEF Overlaps
    <3>. QED
      BY <3>1, <3>2
  <2>. QED
    BY <1>c, <2>3, <2>4
<1>d. ASSUME UNCHANGED <<announced, known>>,
             entry'.left > 0 => entry' = entry \/ (entry.left > 0 /\ entry'.overlapped = entry.overlapped),
             \A c \in Connections : conn'[c].pc = "cache" => conn'[c] = conn[c]
      PROVE  \A l \in Losses : Overlaps(l)'
  <2>1. ASSUME NEW l \in Losses PROVE Overlaps(l)'
    <3>. SUFFICES ASSUME Noticed(l)' PROVE /\ entry'.left > 0 => entry'.overlapped
                                           /\ \A c \in Connections : conn'[c].pc = "cache" => conn'[c].overlapped
      BY DEF Overlaps
    <3>1. Noticed(l)
      BY <1>d DEF Noticed
    <3>. QED
      BY <1>d, <1>i, <3>1 DEF Overlaps
  <2>. QED
    BY <2>1
<1>1. ASSUME NEW a \in Admins, AdminStep(a)
      PROVE  EpochsTell' /\ \A l \in Losses : Overlaps(l)'
  <2>1. CASE Write(a)
    <3>1. PICK l \in Losses :
             \/ /\ lost' = lost \cup {l}
                /\ admin' = [admin EXCEPT ![a] = [pc |-> "bump", loss |-> l]]
                /\ UNCHANGED <<answered, task>>
             \/ l \in lost /\ Answer(a, l) /\ UNCHANGED <<lost, admin>>
      BY <2>1 DEF Write
    <3>2. invalidateAuthorizationCache \/ UNCHANGED task
      BY <3>1, <1>t, Answered
    <3>. QED
      BY <2>1, <3>1, <3>2, <1>b DEF Write
  <2>2. CASE bumpAuthorizationEpoch(a)
    <3>1. invalidateAuthorizationCache \/ UNCHANGED task
      BY <2>2, <1>t, Answered DEF bumpAuthorizationEpoch, CacheTypeOK
    <3>. QED
      BY <2>2, <3>1, <1>c DEF bumpAuthorizationEpoch
  <2>3. CASE Stop(a)
    BY <2>3, <1>b DEF Stop
  <2>. QED
    BY <1>1, <2>1, <2>2, <2>3 DEF AdminStep
<1>2. ASSUME NEW c \in Connections, Authenticate(c)
      PROVE  EpochsTell' /\ \A l \in Losses : Overlaps(l)'
  <2>1. refresh'.epoch <= epoch
    BY <1>2, <1>i, <1>n, EmptyTypes DEF Authenticate, EpochsTell, NoRefresh
  <2>2. \A d \in Connections : conn'[d].pc = "cache" => conn'[d] = conn[d]
    BY <1>2, <1>t DEF Authenticate, CacheTypeOK
  <2>. QED
    BY <1>2, <2>1, <2>2, <1>a, <1>d DEF Authenticate, store
<1>3. ASSUME NEW c \in Connections, Continue(c)
      PROVE  EpochsTell' /\ \A l \in Losses : Overlaps(l)'
  <2>0. EpochsTell'
    BY <1>3, <1>t, <1>i, <1>a, ConnectionStep DEF EpochsTell
  <2>1. ASSUME NEW l \in Losses PROVE Overlaps(l)'
    <3>. SUFFICES ASSUME Noticed(l)' PROVE /\ entry'.left > 0 => entry'.overlapped
                                           /\ \A d \in Connections : conn'[d].pc = "cache" => conn'[d].overlapped
      BY DEF Overlaps
    <3>1. Noticed(l)
      BY <1>3, <1>t, ConnectionStep DEF Noticed, store
    <3>2. lost # {}
      BY <3>1, <1>i DEF EpochsTell, Noticed
    <3>3. \A d \in Connections : conn'[d].pc = "cache" => conn'[d] = conn[d]
      BY <1>3, <3>2, <1>t, ConnectionStep DEF CacheTypeOK
    <3>4. entry.left > 0 => entry.overlapped
      BY <3>1, <1>i DEF Overlaps
    <3>5. entry'.left > 0 => entry'.overlapped
      <4>1. CASE cacheAuthorization(c)
        <5>1. conn[c].overlapped
          BY <4>1, <3>1, <1>i DEF cacheAuthorization, Overlaps
        <5>. QED
          BY <4>1, <5>1 DEF cacheAuthorization
      <4>2. CASE ~cacheAuthorization(c)
        <5>1. entry' \in {entry, NoEntry}
          BY <1>3, <4>2 DEF Continue, LookupCache, authenticateAccessGrant,
                            assertNewConnectionAllowed, Leave
        <5>. QED
          BY <5>1, <3>4, EmptyTypes
      <4>. QED
        BY <4>1, <4>2
    <3>. QED
      BY <3>1, <3>3, <3>5, <1>i DEF Overlaps
  <2>. QED
    BY <2>0, <2>1
<1>4. CASE OtherChange
  BY <1>4, <1>c DEF OtherChange
<1>5. CASE getAuthorizationEpoch
  BY <1>5, <1>n, <1>a, <1>d DEF getAuthorizationEpoch, store
<1>6. CASE EpochRead
  <2>1. EpochsTell'
    BY <1>6, <1>i, <1>n, EmptyTypes DEF EpochRead, EpochsTell, store
  <2>2. CASE known = refresh.epoch
    <3>1. \A c \in Connections : conn'[c].pc = "cache" => conn'[c].overlapped = conn[c].overlapped /\ conn[c].pc = "cache"
      <4>1. ASSUME NEW c \in Connections, conn'[c].pc = "cache"
            PROVE  conn'[c].overlapped = conn[c].overlapped /\ conn[c].pc = "cache"
        <5>1. conn[c] \in Connection
          BY <1>t DEF CacheTypeOK, Connection
        <5>2. conn'[c] = IF Waiting(c) THEN [conn[c] EXCEPT !.pc = "lookup"]
                         ELSE [conn[c] EXCEPT !.overlapped =
                                 conn[c].overlapped \/ (known # refresh.epoch /\ conn[c].pc = "cache")]
          BY <1>6 DEF EpochRead
        <5>3. (conn[c].overlapped \/ (known # refresh.epoch /\ conn[c].pc = "cache")) = conn[c].overlapped
          BY <2>2, <5>1 DEF Connection
        <5>. QED
          BY <4>1, <5>1, <5>2, <5>3 DEF Connection
      <4>. QED
        BY <4>1
    <3>2. UNCHANGED <<announced, known, entry>>
      BY <1>6, <2>2 DEF EpochRead, store
    <3>. QED
      BY <2>1, <3>1, <3>2, <1>i DEF Overlaps, Noticed
  <2>3. CASE known # refresh.epoch
    <3>1. \A c \in Connections : conn'[c].pc = "cache" => conn'[c].overlapped
      <4>1. ASSUME NEW c \in Connections, conn'[c].pc = "cache" PROVE conn'[c].overlapped
        <5>1. conn[c] \in Connection
          BY <1>t DEF CacheTypeOK, Connection
        <5>2. conn'[c] = IF Waiting(c) THEN [conn[c] EXCEPT !.pc = "lookup"]
                         ELSE [conn[c] EXCEPT !.overlapped =
                                 conn[c].overlapped \/ (known # refresh.epoch /\ conn[c].pc = "cache")]
          BY <1>6 DEF EpochRead
        <5>. QED
          BY <4>1, <2>3, <5>1, <5>2 DEF Connection
      <4>. QED
        BY <4>1
    <3>2. entry'.left = 0
      BY <1>6, <2>3, EmptyTypes DEF EpochRead
    <3>. QED
      BY <2>1, <3>1, <3>2 DEF Overlaps
  <2>. QED
    BY <2>2, <2>3
<1>7. CASE EpochFailed
  <2>1. \A c \in Connections : conn'[c].pc = "cache" => conn'[c] = conn[c]
    BY <1>7, EmptyTypes DEF EpochFailed
  <2>. QED
    BY <1>7, <2>1, <1>n, <1>a, <1>d, EmptyTypes DEF EpochFailed, store
<1>8. CASE Evict
  BY <1>8, <1>i, <1>a, <1>d, EmptyTypes DEF Evict, EpochsTell, store
<1>9. CASE CacheTick
  <2>1. entry \in CacheEntry
    BY <1>t DEF CacheTypeOK, CacheEntry
  <2>2. entry'.left > 0 => entry.left > 0 /\ entry'.overlapped = entry.overlapped
    BY <1>9, <2>1, EmptyTypes DEF CacheTick, CacheEntry
  <2>. QED
    BY <1>9, <2>2, <1>i, <1>a, <1>d DEF CacheTick, EpochsTell, store
<1>10. CASE UNCHANGED cacheVars
  BY <1>10, <1>b DEF cacheVars, store
<1>. QED
  BY <1>1, <1>2, <1>3, <1>4, <1>5, <1>6, <1>7, <1>8, <1>9, <1>10 DEF CacheNext, EpochStep

LEMMA NoticedInit == CacheInit => NoticedInv
BY TypeInit, EmptyTypes DEF CacheInit, NoticedInv, EpochsTell, Overlaps, Noticed

(* Once the task has read an epoch that tells of a loss, the cache answers *)
(* for the credential no more, but for what an authentication had read     *)
(* before the cache was cleared; for any number of connections, requests   *)
(* that stop before the epoch included, and any reordering of the reads.   *)
THEOREM LossRefused == CacheSpec => []NoticedLossIsRefused
<1>1. NoticedInv /\ [CacheNext]_cacheVars => NoticedInv'
  BY NoticedNext
<1>2. NoticedInv => NoticedLossIsRefused
  BY DEF NoticedInv, CacheTypeOK, Overlaps, Noticed, NoticedLossIsRefused
<1>. QED
  BY <1>1, <1>2, NoticedInit, PTL DEF CacheSpec

-----------------------------------------------------------------------------
(* What was closed *)

LEMMA ClosedNext ==
    ASSUME ClosedInv, [CacheNext]_cacheVars
    PROVE  ClosedInv'
<1>t. CacheTypeOK /\ CacheTypeOK'
  BY TypeNext DEF ClosedInv
<1>i. Written /\ \A c \in Connections : Late(c)
  BY DEF ClosedInv
<1>. SUFFICES Written' /\ \A c \in Connections : Late(c)'
  BY <1>t DEF ClosedInv
<1>a. ASSUME UNCHANGED store PROVE Written'
  BY <1>a, <1>i DEF store, Written
<1>b. ASSUME lost \subseteq lost',
             \A c \in Connections : conn'[c].late = conn[c].late /\ conn'[c].pc = conn[c].pc
      PROVE  \A c \in Connections : Late(c)'
  BY <1>b, <1>i DEF Late
<1>c. ASSUME invalidateAuthorizationCache \/ UNCHANGED task
      PROVE  \A c \in Connections : conn'[c].late = conn[c].late /\ conn'[c].pc = conn[c].pc
  BY <1>c, <1>t, Cleared DEF invalidateAuthorizationCache, task
<1>1. ASSUME NEW a \in Admins, AdminStep(a)
      PROVE  Written' /\ \A c \in Connections : Late(c)'
  <2>1. CASE Write(a)
    <3>1. PICK l \in Losses :
             \/ /\ lost' = lost \cup {l}
                /\ admin' = [admin EXCEPT ![a] = [pc |-> "bump", loss |-> l]]
                /\ UNCHANGED <<answered, task>>
             \/ l \in lost /\ Answer(a, l) /\ UNCHANGED <<lost, admin>>
      BY <2>1 DEF Write
    <3>2. CASE /\ lost' = lost \cup {l}
               /\ admin' = [admin EXCEPT ![a] = [pc |-> "bump", loss |-> l]]
               /\ UNCHANGED <<answered, task>>
      <4>1. \A b \in Admins : admin'[b].pc = "bump" => admin'[b].loss \in lost'
        BY <3>2, <1>i, <1>t DEF Written, CacheTypeOK
      <4>2. Written'
        BY <3>2, <4>1, <1>i DEF Written
      <4>. QED
        BY <3>2, <4>2, <1>b, <1>c
    <3>3. CASE l \in lost /\ Answer(a, l) /\ UNCHANGED <<lost, admin>>
      <4>1. answered' => "scope" \in lost
        BY <3>3, <1>i, <1>t, Answered DEF Written
      <4>2. Written'
        BY <3>3, <4>1, <1>i DEF Written
      <4>3. invalidateAuthorizationCache \/ UNCHANGED task
        BY <3>3, <1>t, Answered
      <4>. QED
        BY <3>3, <4>2, <4>3, <1>b, <1>c
    <3>. QED
      BY <3>1, <3>2, <3>3
  <2>2. CASE bumpAuthorizationEpoch(a)
    <3>1. admin[a].loss \in Losses /\ admin[a].loss \in lost /\ lost' = lost
      BY <2>2, <1>i, <1>t DEF bumpAuthorizationEpoch, CacheTypeOK, Written
    <3>2. Answer(a, admin[a].loss)
      BY <2>2 DEF bumpAuthorizationEpoch
    <3>3. answered' => "scope" \in lost
      BY <3>1, <3>2, <1>i, <1>t, Answered DEF Written
    <3>4. \A b \in Admins : admin'[b].pc = "bump" => admin'[b].loss \in lost
      BY <2>2, <1>i, <1>t, EmptyTypes DEF bumpAuthorizationEpoch, Written, CacheTypeOK
    <3>5. invalidateAuthorizationCache \/ UNCHANGED task
      BY <3>1, <3>2, <1>t, Answered
    <3>6. Written'
      BY <3>1, <3>3, <3>4 DEF Written
    <3>. QED
      BY <3>1, <3>5, <3>6, <1>b, <1>c
  <2>3. CASE Stop(a)
    <3>1. \A b \in Admins : admin'[b].pc = "bump" => admin'[b].loss \in lost
      BY <2>3, <1>i, <1>t, EmptyTypes DEF Stop, Written, CacheTypeOK
    <3>. QED
      BY <2>3, <3>1, <1>i, <1>b, <1>c DEF Stop, Written
  <2>. QED
    BY <1>1, <2>1, <2>2, <2>3 DEF AdminStep
<1>2. ASSUME NEW c \in Connections, Authenticate(c)
      PROVE  Written' /\ \A d \in Connections : Late(d)'
  <2>1. \A d \in Connections \ {c} : conn'[d] = conn[d]
    BY <1>2, <1>t DEF Authenticate, CacheTypeOK
  <2>2. conn'[c].late = answered /\ conn'[c].pc # "admitted"
    BY <1>2, <1>t DEF Authenticate, CacheTypeOK
  <2>3. Written' /\ lost' = lost
    BY <1>2, <1>a DEF Authenticate, store
  <2>. QED
    BY <2>1, <2>2, <2>3, <1>i DEF Late, Written
<1>3. ASSUME NEW c \in Connections, Continue(c)
      PROVE  Written' /\ \A d \in Connections : Late(d)'
  <2>1. PICK e \in Connection :
           /\ conn' = [conn EXCEPT ![c] = e]
           /\ e.late => conn[c].late
           /\ e.pc = "admitted" => "scope" \notin lost
    BY <1>3, <1>t, ConnectionStep
  <2>2. conn'[c] = e /\ \A d \in Connections \ {c} : conn'[d] = conn[d]
    BY <2>1, <1>t DEF CacheTypeOK
  <2>3. Written' /\ lost' = lost
    BY <1>3, <1>t, <1>a, ConnectionStep DEF store
  <2>. QED
    BY <2>1, <2>2, <2>3, <1>i DEF Late
<1>4. CASE OtherChange
  BY <1>4, <1>i, <1>b, <1>c DEF OtherChange, Written
<1>5. CASE getAuthorizationEpoch
  BY <1>5, <1>a, <1>b DEF getAuthorizationEpoch, store
<1>6. CASE EpochRead
  <2>1. ASSUME NEW c \in Connections
        PROVE  conn'[c].late = conn[c].late /\ (conn'[c].pc = conn[c].pc \/ conn'[c].pc = "lookup")
    <3>1. conn[c] \in Connection
      BY <1>t DEF CacheTypeOK, Connection
    <3>2. conn'[c] = IF Waiting(c) THEN [conn[c] EXCEPT !.pc = "lookup"]
                     ELSE [conn[c] EXCEPT !.overlapped =
                             conn[c].overlapped \/ (known # refresh.epoch /\ conn[c].pc = "cache")]
      BY <1>6 DEF EpochRead
    <3>. QED
      BY <3>1, <3>2 DEF Connection
  <2>. QED
    BY <1>6, <2>1, <1>i, <1>a DEF EpochRead, store, Late
<1>7. CASE EpochFailed
  BY <1>7, <1>i, <1>a, EmptyTypes DEF EpochFailed, store, Late
<1>8. CASE Evict
  BY <1>8, <1>a, <1>b DEF Evict, store
<1>9. CASE CacheTick
  BY <1>9, <1>a, <1>b DEF CacheTick, store
<1>10. CASE UNCHANGED cacheVars
  BY <1>10, <1>a, <1>b DEF cacheVars, store, task
<1>. QED
  BY <1>1, <1>2, <1>3, <1>4, <1>5, <1>6, <1>7, <1>8, <1>9, <1>10 DEF CacheNext, EpochStep

LEMMA ClosedInit == CacheInit => ClosedInv
BY TypeInit, EmptyTypes DEF CacheInit, ClosedInv, Written, Late

(* "Closing a session rejects new connections immediately": what was       *)
(* closed, revoked or deleted admits no connection that begins after the   *)
(* answer, however old the cached authorization it is given, for any       *)
(* lifetime of an entry and wherever a request before it stopped.          *)
THEOREM ClosedRefused == CacheSpec => []ClosedAdmitsNobody
<1>1. ClosedInv /\ [CacheNext]_cacheVars => ClosedInv'
  BY ClosedNext
<1>2. ClosedInv => ClosedAdmitsNobody
  BY DEF ClosedInv, Late, ClosedAdmitsNobody
<1>. QED
  BY <1>1, <1>2, ClosedInit, PTL DEF CacheSpec

-----------------------------------------------------------------------------
(* Sessions: what the operations on one hold at each stage *)

(* The record of an operation, with what its calls learn.                  *)
IsOp(r) ==
    r \in [pc : {r.pc}, mode : {r.mode}, route : {r.route}, calls : {r.calls},
           attempts : [Providers -> Int], excluded : {r.excluded}, previous : {r.previous},
           preferred : {r.preferred}, handle : {r.handle}, failback : BOOLEAN,
           retries : {r.retries}, read : {r.read}, queue : {r.queue}, slot : {r.slot},
           endpoint : {r.endpoint}, lost : BOOLEAN, stored : BOOLEAN]

Calling == {"window", "rank", "try", "resolve", "circuit", "bind"}
Managed(o) == op[o].mode = "managed"

Shapes ==
    /\ IsSession(session) /\ now \in Int
    /\ op = [o \in Ops |-> op[o]] /\ \A o \in Ops : IsOp(op[o])
    /\ claim = [o \in Ops |-> claim[o]]

(* What a call read is a session of before: if no version was written      *)
(* since, neither was a binding or a window.                               *)
Before(s, t) ==
    /\ s.version <= t.version
    /\ s.version = t.version => s.bound = t.bound /\ s.healthySince = t.healthySince
Snapshot(o) ==
    Managed(o) /\ op[o].pc \in Calling \cup {"closing"} =>
        IsSession(op[o].read) /\ Before(op[o].read, session)

(* The provider a call is at, and the identity the gateway gave it.        *)
AtProvider(o) ==
    /\ op[o].pc = "resolve" => Head(op[o].queue) = Mobile
    /\ op[o].pc \in {"circuit", "bind"} =>
          /\ Head(op[o].queue) \in {Mobile, Gateway}
          /\ Managed(o) /\ Head(op[o].queue) = Gateway => op[o].endpoint[1] = "hash"

(* An operation holds a claim from its slot, or its circuit, on.           *)
Holding(o) ==
    \/ op[o].pc \in {"resolve", "bind", "open", "connected"}
    \/ op[o].pc = "circuit" /\ Head(op[o].queue) = Mobile
Held(o) == Holding(o) => claim[o].provider # Undefined
Honest(o) ==
    op[o].stored \/ op[o].pc \in {"window", "bind", "closing"} => Managed(o)

(* The binding a call read satisfies its profile.                          *)
Eligible(r, b) ==
    LET route == Profiles[r.route]
    IN  /\ b # Undefined
        /\ providerCompatible(b.provider, route, route.protocol, route.port, r.mode)
        /\ Allowed(b.provider, route)
        /\ b.profile = profileBindingFingerprint(r.route)
        /\ b.endpoint \notin r.excluded

(* A call that has not seen its binding lost keeps to it at every stage.   *)
Prefers(r) ==
    LET b == r.read.bound
    IN  /\ r.previous = b.provider /\ r.handle = b.endpoint
        /\ b.provider = Mobile => r.preferred = b.endpoint
        /\ r.pc # "rank" => Head(r.queue) = b.provider
        /\ r.pc = "resolve" => Slot(r.slot) = b.endpoint
        /\ r.pc \in {"circuit", "bind"} => r.endpoint = b.endpoint

InUse(q) == op[q].pc \in {"open", "connected"} /\ op[q].stored

(* Or probes the preferred class: its window was long enough, and until a  *)
(* version is written nobody uses the binding.                             *)
Probes(o) ==
    LET s == op[o].read
    IN  /\ op[o].failback /\ s.healthySince # Undefined
        /\ now - s.healthySince >= Stabilization
        /\ s.version = session.version => \A q \in Ops : ~InUse(q)

Deciding(o) ==
    /\ Managed(o) /\ op[o].pc \in Calling \ {"window"}
    /\ Eligible(op[o], op[o].read.bound) /\ ~op[o].lost
KeepsOrProbes(o) == Deciding(o) => Prefers(op[o]) \/ Probes(o)

(* A call that looks at the health window has an eligible binding.         *)
Windowed(o) ==
    op[o].pc = "window" => Eligible(op[o], op[o].read.bound)

Own(o) == /\ Snapshot(o) /\ AtProvider(o) /\ Held(o) /\ Honest(o)
          /\ Windowed(o) /\ KeepsOrProbes(o)
SessionInv == Shapes /\ \A o \in Ops : Own(o)

Touches(o) ==
    /\ op' = [q \in Ops |-> op'[q]] /\ claim' = [q \in Ops |-> claim'[q]]
    /\ \A q \in Ops \ {o} : op'[q] = op[q] /\ claim'[q] = claim[q]

-----------------------------------------------------------------------------
(* Lemmas: steps that leave the others what they have *)

LEMMA BeforeIsTransitive ==
  ASSUME NEW r, NEW s, NEW t, IsSession(r), IsSession(s), IsSession(t), Before(r, s), Before(s, t)
  PROVE  Before(r, t)
BY DEF Before, IsSession

LEMMA OpAt ==
  ASSUME Shapes, NEW o \in Ops, NEW rec, op' = [op EXCEPT ![o] = rec]
  PROVE  /\ op' = [q \in Ops |-> op'[q]] /\ op'[o] = rec
         /\ \A q \in Ops \ {o} : op'[q] = op[q]
BY DEF Shapes

LEMMA ClaimAt ==
  ASSUME Shapes, NEW o \in Ops, NEW rec, claim' = [claim EXCEPT ![o] = rec]
  PROVE  /\ claim' = [q \in Ops |-> claim'[q]] /\ claim'[o] = rec
         /\ \A q \in Ops \ {o} : claim'[q] = claim[q]
BY DEF Shapes

LEMMA OwnStays ==
  ASSUME SessionInv, NEW o \in Ops, op'[o] = op[o], claim'[o] = claim[o],
         IsSession(session)', now' \in Int, now' >= now, Before(session, session'),
         session.version = session'.version => \A q \in Ops : InUse(q)' => InUse(q)
  PROVE  Own(o)'
<1>1. Shapes /\ Own(o)
  BY DEF SessionInv
<1>2. Snapshot(o)'
  <2>1. Snapshot(o)
    BY <1>1 DEF Own
  <2>2. SUFFICES ASSUME Managed(o), op[o].pc \in Calling \cup {"closing"}
                 PROVE  IsSession(op[o].read) /\ Before(op[o].read, session')
    BY DEF Snapshot, Managed
  <2>3. IsSession(op[o].read) /\ Before(op[o].read, session)
    BY <2>1, <2>2 DEF Snapshot
  <2> QED
    BY <2>3, <1>1, BeforeIsTransitive DEF Shapes
<1>3. AtProvider(o)'
  BY <1>1 DEF Own, AtProvider, Managed
<1>4. Held(o)' /\ Honest(o)' /\ Windowed(o)'
  BY <1>1 DEF Own, Held, Holding, Honest, Windowed, Managed
<1>5. KeepsOrProbes(o)'
  <2>1. SUFFICES ASSUME Deciding(o), ~Prefers(op[o])
                 PROVE  Probes(o)'
    BY DEF KeepsOrProbes, Deciding, Managed
  <2>2. Probes(o)
    BY <1>1, <2>1 DEF Own, KeepsOrProbes
  <2>3. IsSession(op[o].read) /\ Before(op[o].read, session)
    BY <1>1, <2>1 DEF Own, Snapshot, Deciding
  <2>4. op[o].read.version = session'.version =>
            op[o].read.version = session.version /\ session.version = session'.version
    BY <1>1, <2>3 DEF Shapes, IsSession, Before
  <2>5. op[o].read.version = session'.version => \A q \in Ops : ~InUse(q)'
    BY <2>2, <2>4 DEF Probes
  <2>6. op[o].read.healthySince # Undefined
        /\ now' - op[o].read.healthySince >= Stabilization
    BY <2>2, <2>3, <1>1, SessionConstants DEF Probes, IsSession, Shapes
  <2> QED
    BY <2>2, <2>5, <2>6 DEF Probes
<1> QED
  BY <1>2, <1>3, <1>4, <1>5 DEF Own

(* A step of one operation leaves the others what they rely on.            *)
LEMMA StepOfOne ==
  ASSUME SessionInv, NEW o \in Ops, Touches(o), IsOp(op'[o]), Own(o)',
         IsSession(session)', now' = now, Before(session, session'),
         session.version = session'.version => (InUse(o)' => InUse(o))
  PROVE  SessionInv'
<1>1. \A q \in Ops \ {o} : op'[q] = op[q] /\ claim'[q] = claim[q]
  BY DEF Touches
<1>2. \A q \in Ops \ {o} : InUse(q)' => InUse(q)
  BY <1>1 DEF InUse
<1>3. now' \in Int /\ now' >= now
  BY DEF SessionInv, Shapes
<1>4. \A q \in Ops \ {o} : Own(q)'
  BY <1>1, <1>2, <1>3, OwnStays
<1>5. Shapes'
  BY <1>1, <1>3 DEF Shapes, SessionInv, Touches
<1> QED
  BY <1>4, <1>5 DEF SessionInv

(* One that leaves the session alone, and does not come to use a binding.  *)
LEMMA QuietStep ==
  ASSUME SessionInv, NEW o \in Ops, Touches(o), IsOp(op'[o]), Own(o)',
         UNCHANGED <<session, now>>, InUse(o)' => InUse(o)
  PROVE  SessionInv'
<1>1. IsSession(session)' /\ now' = now /\ Before(session, session')
  BY DEF SessionInv, Shapes, Before, IsSession
<1> QED
  BY <1>1, StepOfOne

(* An operation out of its calls has nothing to keep.                      *)
LEMMA OwnOutside ==
  ASSUME NEW o \in Ops, op'[o].pc \in {"idle", "start", "failed", "done"},
         op'[o].stored => op'[o].mode = "managed"
  PROVE  Own(o)'
BY DEF Own, Snapshot, AtProvider, Held, Holding, Honest, Windowed, KeepsOrProbes, Deciding,
       Managed, Calling

LEMMA UnclaimedAt ==
  ASSUME Shapes, NEW o \in Ops, NEW rec, op' = [op EXCEPT ![o] = rec], Unclaimed(o) \/ UNCHANGED claim
  PROVE  Touches(o) /\ op'[o] = rec
<1>1. /\ op' = [q \in Ops |-> op'[q]] /\ op'[o] = rec
      /\ \A q \in Ops \ {o} : op'[q] = op[q]
  BY OpAt
<1>2. /\ claim' = [q \in Ops |-> claim'[q]]
      /\ \A q \in Ops \ {o} : claim'[q] = claim[q]
  <2>1. CASE Unclaimed(o)
    BY <2>1, ClaimAt DEF Unclaimed
  <2>2. CASE UNCHANGED claim
    BY <2>2 DEF Shapes
  <2> QED
    BY <2>1, <2>2
<1> QED
  BY <1>1, <1>2 DEF Touches

LEMMA NoOpIsOp == IsOp(NoOp) /\ ~NoOp.stored
<1>1. [p \in Providers |-> 0] \in [Providers -> Int]
  OBVIOUS
<1>2. PICK attempts : attempts = [p \in Providers |-> 0]
  OBVIOUS
<1> QED
  BY <1>1, <1>2 DEF NoOp, IsOp

LEMMA FinishedIsOp ==
  ASSUME NEW rec, NEW pc
  PROVE  /\ IsOp(Finished(rec, pc)) /\ Finished(rec, pc).pc = pc
         /\ Finished(rec, pc).mode = rec.mode /\ ~Finished(rec, pc).stored
<1>1. PICK none : none = NoOp
  OBVIOUS
<1>2. Finished(rec, pc) = [none EXCEPT !.pc = pc, !.mode = rec.mode]
  BY <1>1 DEF Finished
<1> QED
  BY <1>1, <1>2, NoOpIsOp DEF IsOp

LEMMA RefusedKeeps ==
  ASSUME SessionInv, NEW o \in Ops, NEW rec, NEW pc \in {"failed", "done"},
         op' = [op EXCEPT ![o] = Finished(rec, pc)], Unclaimed(o) \/ UNCHANGED claim,
         UNCHANGED <<session, now>>
  PROVE  SessionInv'
<1>1. Touches(o) /\ op'[o] = Finished(rec, pc)
  BY UnclaimedAt DEF SessionInv
<1>2. IsOp(op'[o]) /\ op'[o].pc = pc /\ ~op'[o].stored
  BY <1>1, FinishedIsOp
<1>3. Own(o)'
  BY <1>2, OwnOutside
<1> QED
  BY <1>1, <1>2, <1>3, QuietStep DEF InUse

LEMMA StartAgainKeeps ==
  ASSUME SessionInv, NEW o \in Ops, NEW rec, IsOp(rec), rec.stored => rec.mode = "managed",
         rec.pc = "start", op' = [op EXCEPT ![o] = rec], Unclaimed(o) \/ UNCHANGED claim,
         UNCHANGED <<session, now>>
  PROVE  SessionInv'
<1>1. Touches(o) /\ op'[o] = rec
  BY UnclaimedAt DEF SessionInv
<1>2. Own(o)'
  BY <1>1, OwnOutside
<1> QED
  BY <1>1, <1>2, QuietStep DEF InUse

LEMMA FailsKeeps ==
  ASSUME SessionInv, NEW o \in Ops, NEW rec, IsOp(rec), rec.stored => rec.mode = "managed",
         Fails(o, rec), UNCHANGED <<session, now>>
  PROVE  SessionInv'
<1>1. CASE rec.calls > 1
  <2>1. PICK again : again = [NoEndpoint(rec) EXCEPT !.pc = "start", !.calls = @ - 1]
    OBVIOUS
  <2>2. IsOp(again) /\ again.pc = "start" /\ again.stored = rec.stored /\ again.mode = rec.mode
    BY <2>1 DEF NoEndpoint, IsOp
  <2>3. op' = [op EXCEPT ![o] = again]
    BY <1>1, <2>1 DEF Fails
  <2> QED
    BY <2>2, <2>3, StartAgainKeeps DEF Fails
<1>2. CASE ~(rec.calls > 1)
  BY <1>2, RefusedKeeps DEF Fails
<1> QED
  BY <1>1, <1>2

LEMMA ExhaustedKeeps ==
  ASSUME SessionInv, NEW o \in Ops, NEW rec, IsOp(rec), rec.stored => rec.mode = "managed",
         Exhausted(o, rec), UNCHANGED <<session, now>>
  PROVE  SessionInv'
<1>1. CASE Refused(o)
  BY <1>1, RefusedKeeps DEF Refused
<1>2. CASE Fails(o, rec)
  BY <1>2, FailsKeeps
<1> QED
  BY <1>1, <1>2 DEF Exhausted

-----------------------------------------------------------------------------
(* Every operation keeps the invariant *)

LEMMA BeginKeeps ==
  ASSUME SessionInv, NEW o \in Ops, Begin(o)
  PROVE  SessionInv'
<1>1. PICK mode \in Modes, budget \in CallBudgets :
          op' = [op EXCEPT ![o] = [NoOp EXCEPT !.pc = "start", !.mode = mode,
                                               !.route = world.route, !.calls = budget]]
  BY DEF Begin
<1>2. PICK rec : rec = [NoOp EXCEPT !.pc = "start", !.mode = mode,
                                    !.route = world.route, !.calls = budget]
  OBVIOUS
<1>3. IsOp(rec) /\ rec.pc = "start" /\ ~rec.stored
  BY <1>2, NoOpIsOp DEF IsOp
<1>4. op' = [op EXCEPT ![o] = rec]
  BY <1>1, <1>2
<1> QED
  BY <1>3, <1>4, StartAgainKeeps DEF Begin

LEMMA AbortKeeps ==
  ASSUME SessionInv, NEW o \in Ops, Abort(o)
  PROVE  SessionInv'
BY FailsKeeps DEF Abort, SessionInv, Shapes, Own, Honest, Managed

LEMMA OpenFailsKeeps ==
  ASSUME SessionInv, NEW o \in Ops, OpenFails(o)
  PROVE  SessionInv'
<1>1. PICK rec : rec = [op[o] EXCEPT !.excluded = @ \cup {op[o].endpoint}]
  OBVIOUS
<1>2. IsOp(op[o]) /\ (op[o].stored => op[o].mode = "managed")
  BY DEF SessionInv, Shapes, Own, Honest, Managed
<1>3. IsOp(rec) /\ rec.stored = op[o].stored /\ rec.mode = op[o].mode
  BY <1>1, <1>2 DEF IsOp
<1> QED
  BY <1>1, <1>2, <1>3, FailsKeeps DEF OpenFails

LEMMA OpensKeeps ==
  ASSUME SessionInv, NEW o \in Ops, Opens(o)
  PROVE  SessionInv'
<1>1. CASE Refused(o)
  BY <1>1, RefusedKeeps DEF Refused, Opens
<1>2. CASE op' = [op EXCEPT ![o].pc = "connected"] /\ UNCHANGED claim
  <2>1. PICK rec : rec = [op[o] EXCEPT !.pc = "connected"]
    OBVIOUS
  <2>2. IsOp(op[o]) /\ Own(o) /\ Shapes /\ op[o].pc = "open"
    BY DEF SessionInv, Shapes, Opens
  <2>3. IsOp(rec) /\ rec.pc = "connected" /\ rec.mode = op[o].mode /\ rec.stored = op[o].stored
    BY <2>1, <2>2 DEF IsOp
  <2>4. Touches(o) /\ op'[o] = rec /\ claim'[o] = claim[o]
    BY <1>2, <2>1, <2>2, UnclaimedAt
  <2>5. Own(o)'
    BY <2>2, <2>3, <2>4 DEF Own, Snapshot, AtProvider, Held, Holding, Honest, Windowed,
       KeepsOrProbes, Deciding, Managed, Calling
  <2> QED
    BY <2>2, <2>3, <2>4, <2>5, QuietStep DEF InUse, Opens
<1> QED
  BY <1>1, <1>2 DEF Opens

LEMMA DisconnectKeeps ==
  ASSUME SessionInv, NEW o \in Ops, Disconnect(o)
  PROVE  SessionInv'
<1>1. CASE op[o].mode # "managed"
  BY <1>1, RefusedKeeps DEF Disconnect
<1>2. CASE op[o].mode = "managed"
  <2>1. PICK rec : rec = [Finished(op[o], "closing") EXCEPT !.read = session]
    OBVIOUS
  <2>2. /\ IsOp(rec) /\ rec.pc = "closing" /\ rec.read = session /\ ~rec.stored
        /\ rec.mode = "managed"
    BY <1>2, <2>1, FinishedIsOp DEF IsOp
  <2>3. Touches(o) /\ op'[o] = rec
    BY <1>2, <2>1, UnclaimedAt DEF Disconnect, SessionInv
  <2>4. IsSession(session) /\ Before(session, session)
    BY DEF SessionInv, Shapes, IsSession, Before
  <2>5. Own(o)'
    BY <2>2, <2>3, <2>4 DEF Own, Snapshot, AtProvider, Held, Holding, Honest, Windowed,
       KeepsOrProbes, Deciding, Managed, Calling, Disconnect, Shapes
  <2> QED
    BY <2>2, <2>3, <2>5, QuietStep DEF InUse, Disconnect
<1> QED
  BY <1>1, <1>2

LEMMA RecordDisconnectKeeps ==
  ASSUME SessionInv, NEW o \in Ops, RecordDisconnect(o)
  PROVE  SessionInv'
<1>1. PICK updated : updated = [op[o].read EXCEPT !.disconnectedAt = now]
  OBVIOUS
<1>2. op[o].pc = "closing" /\ Own(o) /\ Shapes
  BY DEF RecordDisconnect, SessionInv
<1>3. IsSession(op[o].read) /\ Before(op[o].read, session) /\ IsSession(session)
  BY <1>2 DEF Own, Snapshot, Honest, Shapes
<1>4. /\ IsSession(updated) /\ updated.version = op[o].read.version
      /\ updated.bound = op[o].read.bound /\ updated.healthySince = op[o].read.healthySince
  BY <1>1, <1>3 DEF IsSession
<1>5. (session' = updated /\ session.version = op[o].read.version) \/ session' = session
  BY <1>1 DEF RecordDisconnect, saveLogicalSession, Saves
<1>6. IsSession(session)' /\ Before(session, session')
  BY <1>3, <1>4, <1>5 DEF Before, IsSession
<1>7. Touches(o) /\ op'[o] = Finished(op[o], "done")
  BY <1>2, UnclaimedAt DEF RecordDisconnect
<1>8. IsOp(op'[o]) /\ op'[o].pc = "done" /\ ~op'[o].stored
  BY <1>7, FinishedIsOp
<1> QED
  BY <1>6, <1>7, <1>8, OwnOutside, StepOfOne DEF InUse, RecordDisconnect

(* What happens around the operations leaves each of them what it has.     *)
LEMMA AroundKeeps ==
  ASSUME SessionInv, UNCHANGED <<op, claim>>, IsSession(session)', Before(session, session'),
         now' \in Int, now' >= now
  PROVE  SessionInv'
<1>1. \A o \in Ops : op'[o] = op[o] /\ claim'[o] = claim[o]
  OBVIOUS
<1>2. \A q \in Ops : InUse(q)' => InUse(q)
  BY DEF InUse
<1>3. \A o \in Ops : Own(o)'
  BY <1>1, <1>2, OwnStays
<1>4. Shapes'
  BY DEF Shapes, SessionInv
<1> QED
  BY <1>3, <1>4 DEF SessionInv

LEMMA SameSession ==
  ASSUME SessionInv, UNCHANGED session
  PROVE  IsSession(session)' /\ Before(session, session')
BY DEF SessionInv, Shapes, Before, IsSession

LEMMA TickKeeps ==
  ASSUME SessionInv, Tick
  PROVE  SessionInv'
BY AroundKeeps, SameSession DEF Tick, SessionInv, Shapes

LEMMA ChangeKeeps ==
  ASSUME SessionInv, Change \/ UpdateProfile \/ UNCHANGED vars
  PROVE  SessionInv'
<1>1. UNCHANGED <<session, op, claim, now>>
  BY DEF Change, UpdateProfile, vars
<1> QED
  BY <1>1, AroundKeeps, SameSession DEF SessionInv, Shapes

LEMMA CloseSessionKeeps ==
  ASSUME SessionInv, CloseSession
  PROVE  SessionInv'
<1>1. PICK closed : closed = [session EXCEPT !.status = "closed"]
  OBVIOUS
<1>2. IsSession(session) /\ session' = closed /\ now \in Int
  BY <1>1 DEF CloseSession, SessionInv, Shapes
<1>3. /\ IsSession(closed) /\ closed.version = session.version
      /\ closed.bound = session.bound /\ closed.healthySince = session.healthySince
  BY <1>1, <1>2 DEF IsSession
<1>4. IsSession(session)' /\ Before(session, session')
  BY <1>2, <1>3 DEF Before, IsSession
<1> QED
  BY <1>2, <1>4, AroundKeeps DEF CloseSession

LEMMA EligibleIs ==
  ASSUME NEW o, NEW s
  PROVE  BindingCompatible(o, s) <=> Eligible(op[o], s.bound)
BY DEF BindingCompatible, Eligible, Compatible

(* What a call carries when it has decided: the session it read, and its   *)
(* binding as what it prefers.                                             *)
Decided(rec, out, s) ==
    /\ IsOp(out) /\ out.pc = "rank" /\ out.read = s /\ out.mode = rec.mode /\ out.route = rec.route
    /\ out.excluded = rec.excluded /\ out.stored = rec.stored
Preferred(out, s) ==
    /\ out.previous = s.bound.provider /\ out.handle = s.bound.endpoint
    /\ s.bound.provider = Mobile => out.preferred = s.bound.endpoint

LEMMA PreferringDecides ==
  ASSUME NEW rec, IsOp(rec), NEW s, NEW compatible \in BOOLEAN, NEW prefer \in BOOLEAN
  PROVE  /\ Decided(rec, Preferring(rec, s, compatible, prefer), s)
         /\ Preferring(rec, s, compatible, prefer).failback = rec.failback
         /\ prefer /\ s.bound # Undefined => Preferred(Preferring(rec, s, compatible, prefer), s)
<1>1. PICK handle : handle = IF s.bound = Undefined THEN SessionHandle ELSE s.bound.endpoint
  OBVIOUS
<1>2. PICK kept : kept = [rec EXCEPT !.pc = "rank", !.read = s, !.lost = FALSE, !.handle = handle]
  OBVIOUS
<1>3. Decided(rec, kept, s) /\ kept.handle = handle /\ kept.failback = rec.failback
  BY <1>2 DEF IsOp, Decided
<1>4. PICK preferred : preferred = IF s.bound.provider = Mobile THEN s.bound.endpoint ELSE Undefined
  OBVIOUS
<1>5. PICK own : own = [kept EXCEPT !.previous = s.bound.provider, !.preferred = preferred]
  OBVIOUS
<1>6. Decided(rec, own, s) /\ own.failback = rec.failback
      /\ own.previous = s.bound.provider /\ own.preferred = preferred /\ own.handle = handle
  BY <1>3, <1>5 DEF IsOp, Decided
<1>7. PICK other : other = [kept EXCEPT !.previous = s.bound.provider, !.preferred = Undefined,
                                        !.handle = rebindAffinitySeed(s.version, rec.route)]
  OBVIOUS
<1>8. Decided(rec, other, s) /\ other.failback = rec.failback
  BY <1>3, <1>7 DEF IsOp, Decided
<1>9. Preferring(rec, s, compatible, prefer)
          = IF prefer /\ s.bound # Undefined THEN own
            ELSE IF s.bound # Undefined /\ ~compatible THEN other ELSE kept
  BY <1>1, <1>2, <1>4, <1>5, <1>7 DEF Preferring
<1>10. s.bound # Undefined => Preferred(own, s)
  BY <1>1, <1>4, <1>6 DEF Preferred
<1> QED
  BY <1>3, <1>6, <1>8, <1>9, <1>10

(* A decision that prefers an eligible binding, or has none to prefer,     *)
(* leaves the call with what it keeps to.                                  *)
LEMMA DecidedKeeps ==
  ASSUME SessionInv, NEW o \in Ops, NEW out, NEW s, Touches(o), op'[o] = out,
         Decided(op[o], out, s), IsSession(s), Managed(o),
         Eligible(op[o], s.bound) => Preferred(out, s),
         IsSession(session)', now' = now, Before(session, session'), Before(s, session')
  PROVE  SessionInv'
<1>1. /\ IsOp(out) /\ out.pc = "rank" /\ out.read = s /\ out.mode = op[o].mode
      /\ out.route = op[o].route /\ out.excluded = op[o].excluded
  BY DEF Decided
<1>2. Eligible(out, s.bound) <=> Eligible(op[o], s.bound)
  BY <1>1 DEF Eligible
<1>3. Eligible(out, s.bound) => Prefers(out)
  BY <1>1, <1>2 DEF Prefers, Preferred
<1>4. Snapshot(o)' /\ KeepsOrProbes(o)'
  BY <1>1, <1>3 DEF Snapshot, KeepsOrProbes, Deciding, Managed
<1>5. AtProvider(o)' /\ Held(o)' /\ Honest(o)' /\ Windowed(o)'
  BY <1>1 DEF AtProvider, Held, Holding, Honest, Windowed, Managed
<1>6. Own(o)' /\ ~InUse(o)'
  BY <1>1, <1>4, <1>5 DEF Own, InUse
<1> QED
  BY <1>1, <1>6, StepOfOne

LEMMA ReadSessionKeeps ==
  ASSUME SessionInv, NEW o \in Ops, ReadSession(o)
  PROVE  SessionInv'
<1>1. op[o].pc = "start" /\ UNCHANGED <<session, now>> /\ Shapes /\ Own(o) /\ IsOp(op[o])
      /\ IsSession(session) /\ Before(session, session)
  BY DEF ReadSession, SessionInv, Shapes, IsSession, Before
<1>2. IsSession(session)' /\ Before(session, session')
  BY SameSession, <1>1
<1>3. CASE op[o].mode = "stateless"
  <2>1. PICK rec : rec = [op[o] EXCEPT !.pc = "rank"]
    OBVIOUS
  <2>2. IsOp(rec) /\ rec.pc = "rank" /\ rec.mode = "stateless" /\ rec.stored = op[o].stored
    BY <1>1, <1>3, <2>1 DEF IsOp
  <2>3. Touches(o) /\ op'[o] = rec
    BY <1>1, <1>3, <2>1, UnclaimedAt DEF ReadSession
  <2>4. Own(o)' /\ ~InUse(o)'
    BY <1>1, <1>3, <2>2, <2>3 DEF Own, Snapshot, AtProvider, Held, Holding, Honest, Windowed,
       KeepsOrProbes, Deciding, Managed, InUse
  <2> QED
    BY <1>1, <2>2, <2>3, <2>4, QuietStep
<1>4. CASE op' = [op EXCEPT ![o] = [@ EXCEPT !.pc = "window", !.read = session]] /\ UNCHANGED claim
           /\ op[o].mode = "managed" /\ BindingCompatible(o, session)
  <2>1. PICK rec : rec = [op[o] EXCEPT !.pc = "window", !.read = session]
    OBVIOUS
  <2>2. /\ IsOp(rec) /\ rec.pc = "window" /\ rec.mode = "managed" /\ rec.read = session
        /\ rec.route = op[o].route /\ rec.excluded = op[o].excluded
    BY <1>1, <1>4, <2>1 DEF IsOp
  <2>3. Touches(o) /\ op'[o] = rec
    BY <1>1, <1>4, <2>1, UnclaimedAt
  <2>4. Eligible(op[o], session.bound)
    BY <1>4, EligibleIs
  <2>5. Eligible(rec, rec.read.bound)
    BY <1>4, <2>2, <2>4 DEF Eligible
  <2>6. Own(o)' /\ ~InUse(o)'
    BY <1>1, <1>2, <2>2, <2>3, <2>5 DEF Own, Snapshot, AtProvider, Held, Holding, Honest, Windowed,
       KeepsOrProbes, Deciding, Managed, InUse
  <2> QED
    BY <1>1, <2>2, <2>3, <2>6, QuietStep
<1>5. CASE UNCHANGED claim
           /\ op' = [op EXCEPT ![o] = Preferring(@, session, BindingCompatible(o, session),
                                                  BindingCompatible(o, session))]
  <2>1. BindingCompatible(o, session) \in BOOLEAN
    BY DEF BindingCompatible
  <2>2. PICK compatible \in BOOLEAN : compatible = BindingCompatible(o, session)
    BY <2>1, Zenon
  <2>3. PICK out : out = Preferring(op[o], session, compatible, compatible)
    OBVIOUS
  <2>4. op' = [op EXCEPT ![o] = out]
    BY <1>5, <2>2, <2>3, Zenon
  <2>5. Touches(o) /\ op'[o] = out
    BY <1>1, <1>5, <2>4, UnclaimedAt
  <2>6. Decided(op[o], out, session)
        /\ (compatible /\ session.bound # Undefined => Preferred(out, session))
    BY <1>1, <2>3, PreferringDecides, Zenon
  <2>7. Eligible(op[o], session.bound) => compatible = TRUE /\ session.bound # Undefined
    BY <2>2, EligibleIs DEF Eligible
  <2>8. CASE Managed(o)
    BY <1>1, <1>2, <2>5, <2>6, <2>7, <2>8, DecidedKeeps
  <2>9. CASE ~Managed(o)
    <3>1. /\ IsOp(out) /\ out.pc = "rank" /\ out.mode # "managed" /\ ~out.stored
      BY <1>1, <2>6, <2>9 DEF Decided, Managed, Own, Honest, IsOp
    <3>2. Own(o)' /\ ~InUse(o)'
      BY <2>5, <3>1 DEF Own, Snapshot, AtProvider, Held, Holding, Honest, Windowed,
         KeepsOrProbes, Deciding, Managed, InUse
    <3> QED
      BY <1>1, <2>5, <3>1, <3>2, QuietStep
  <2> QED
    BY <2>8, <2>9
<1>6. CASE Refused(o)
  BY <1>1, <1>6, RefusedKeeps DEF Refused
<1> QED
  BY <1>3, <1>4, <1>5, <1>6 DEF ReadSession

(* While no session connection holds a claim, none uses the binding.       *)
LEMMA NobodyInUse ==
  ASSUME SessionInv, SessionLoad = 0
  PROVE  \A q \in Ops : ~InUse(q)
<1> DEFINE using == {q \in Ops : claim[q].provider # Undefined /\ op[q].mode = "managed"}
<1>1. IsFiniteSet(using)
  BY SessionConstants, FS_Subset
<1>2. using = {}
  BY <1>1, FS_EmptySet DEF SessionLoad
<1>3. \A q \in Ops : InUse(q) => q \in using
  BY DEF InUse, SessionInv, Own, Held, Holding, Honest, Managed
<1> QED
  BY <1>2, <1>3

LEMMA ObserveClassKeeps ==
  ASSUME SessionInv, NEW o \in Ops, ObserveClass(o)
  PROVE  SessionInv'
<1> DEFINE s == op[o].read
           healthy == Compatible(o, Mobile) /\ health(Mobile) = "healthy"
           since == IF healthy THEN now ELSE Undefined
           moves == (s.healthySince # Undefined) # healthy
           updated == [s EXCEPT !.healthySince = since, !.version = @ + 1]
           failback == healthy /\ s.healthySince # Undefined /\ MayFailBack(s)
           read == IF moves /\ Saves(s.version) THEN updated ELSE s
           decided == Preferring(op[o], read, TRUE, ~failback)
<1>1. op[o].pc = "window" /\ UNCHANGED <<now, claim>> /\ Shapes /\ Own(o) /\ IsOp(op[o])
      /\ Managed(o) /\ IsSession(session) /\ now \in Int
  BY DEF ObserveClass, SessionInv, Shapes, Own, Honest
<1>2. IsSession(s) /\ Before(s, session)
  BY <1>1 DEF Own, Snapshot, Calling
<1>3. Eligible(op[o], s.bound)
  BY <1>1 DEF Own, Windowed
<1>4. PICK since0 : since0 = since
  OBVIOUS
<1>5. since0 # Undefined => since0 \in Int
  BY <1>1, <1>4
<1>6. PICK updated0 : updated0 = [s EXCEPT !.healthySince = since0, !.version = @ + 1]
  OBVIOUS
<1>7. IsSession(updated0) /\ updated0.version = s.version + 1 /\ updated0.bound = s.bound
  <2>1. PICK last : last = s
    OBVIOUS
  <2>2. IsSession(last)
    BY <1>2, <2>1
  <2>3. updated0 = [last EXCEPT !.healthySince = since0, !.version = @ + 1]
    BY <1>6, <2>1
  <2>4. IsSession(updated0) /\ updated0.version = last.version + 1 /\ updated0.bound = last.bound
    <3>1. PICK version \in Nat : version = last.version + 1
      BY <2>2 DEF IsSession
    <3>2. updated0 = [last EXCEPT !.healthySince = since0, !.version = version]
      BY <2>3, <3>1
    <3> QED
      BY ONLY <1>5, <2>2, <3>1, <3>2 DEF IsSession
  <2> QED
    BY <2>1, <2>4
<1>8. moves \in BOOLEAN /\ failback \in BOOLEAN /\ Saves(s.version) \in BOOLEAN
  BY DEF MayFailBack, Saves
<1>9. PICK read0 : read0 = read
  OBVIOUS
<1>10. read0 = updated0 \/ read0 = s
  BY <1>4, <1>6, <1>9
<1>11. /\ IsSession(session)' /\ Before(session, session') /\ Before(read0, session')
  <2>1. CASE moves /\ Saves(s.version)
    <3>1. session' = updated0 /\ read0 = updated0 /\ session.version = s.version
      BY <2>1, <1>4, <1>6, <1>9, Zenon DEF ObserveClass, saveLogicalSession, Saves
    <3> QED
      BY <3>1, <1>2, <1>7 DEF Before, IsSession
  <2>2. CASE ~(moves /\ Saves(s.version))
    <3>1. session' = session /\ read0 = s
      BY <2>2, <1>9, Zenon DEF ObserveClass, saveLogicalSession
    <3> QED
      BY <3>1, <1>1, <1>2 DEF Before, IsSession
  <2> QED
    BY <2>1, <2>2
<1>12. PICK prefer \in BOOLEAN : prefer = ~failback
  BY <1>8, Zenon
<1>13. PICK base : base = Preferring(op[o], read0, TRUE, prefer)
  OBVIOUS
<1>14. base = decided
  BY <1>9, <1>12, <1>13, Zenon
<1>15. Decided(op[o], base, read0) /\ base.failback = op[o].failback
       /\ (prefer /\ read0.bound # Undefined => Preferred(base, read0))
  BY <1>1, <1>13, PreferringDecides, Zenon
<1>16. PICK flag \in BOOLEAN : flag = (base.failback \/ failback)
  <2>1. (base.failback \/ failback) \in BOOLEAN
    OBVIOUS
  <2> QED
    BY <2>1, Zenon
<1>17. PICK out : out = [base EXCEPT !.failback = flag]
  OBVIOUS
<1>18. op' = [op EXCEPT ![o] = out]
  <2>1. op' = [op EXCEPT ![o] = [decided EXCEPT !.failback = decided.failback \/ failback]]
    BY DEF ObserveClass
  <2> QED
    BY <2>1, <1>14, <1>16, <1>17, Zenon
<1> HIDE DEF healthy, since, moves, updated, failback, read, decided
<1>19. Decided(op[o], out, read0) /\ out.failback = flag
       /\ (prefer /\ read0.bound # Undefined => Preferred(out, read0))
  BY <1>15, <1>17 DEF Decided, IsOp, Preferred
<1>20. Touches(o) /\ op'[o] = out
  BY <1>1, <1>18, UnclaimedAt
<1>21. CASE prefer = TRUE
  <2>1. Eligible(op[o], read0.bound) => Preferred(out, read0)
    BY <1>19, <1>21 DEF Eligible
  <2> QED
    BY <1>1, <1>2, <1>7, <1>10, <1>11, <1>19, <1>20, <2>1, DecidedKeeps
<1>22. CASE prefer = FALSE
  <2>1. failback
    BY <1>22, <1>12
  <2>2. healthy /\ s.healthySince # Undefined /\ MayFailBack(s)
    BY <2>1, Zenon DEF failback
  <2>3. ~moves
    BY <2>2, Zenon DEF moves
  <2>4. read0 = s
    BY <2>3, <1>9 DEF read
  <2>5. flag = TRUE
    BY <2>1, <1>16
  <2>6. \A q \in Ops : ~InUse(q)
    BY <2>2, NobodyInUse DEF MayFailBack
  <2>7. \A q \in Ops : ~InUse(q)'
    BY <2>6, <1>19, <1>20 DEF InUse, Touches, Decided
  <2>8. Probes(o)'
    BY <2>2, <2>4, <2>5, <2>7, <1>1, <1>19, <1>20 DEF Probes, MayFailBack, Mature, Decided
  <2>9. Own(o)' /\ ~InUse(o)'
    BY <2>8, <2>4, <1>1, <1>2, <1>11, <1>19, <1>20 DEF Own, Snapshot, AtProvider, Held, Holding,
       Honest, Windowed, KeepsOrProbes, Managed, InUse, Decided
  <2> QED
    BY <2>9, <1>1, <1>11, <1>19, <1>20, StepOfOne DEF Decided
<1> QED
  BY <1>21, <1>22

(* A call goes on: what it knows and prefers stays, or it saw its binding  *)
(* lost.                                                                   *)
LEMMA CallGoesOn ==
  ASSUME SessionInv, NEW o \in Ops, NEW out, Touches(o), op'[o] = out, IsOp(out),
         UNCHANGED <<session, now>>, op[o].pc \in Calling \ {"window"},
         out.pc \in (Calling \ {"window"}) \cup {"open"},
         out.pc = "bind" => Managed(o), out.pc = "open" => ~Managed(o),
         out.mode = op[o].mode, out.route = op[o].route, out.excluded = op[o].excluded,
         out.read = op[o].read, out.failback = op[o].failback, out.stored = op[o].stored,
         ~out.lost => ~op[o].lost,
         ~out.lost /\ Deciding(o) /\ Prefers(op[o]) => Prefers(out),
         AtProvider(o)', Held(o)'
  PROVE  SessionInv'
<1>1. Own(o)
  BY DEF SessionInv
<1>2. IsSession(session)' /\ Before(session, session')
  BY SameSession
<1>3. Managed(o)' <=> Managed(o)
  BY DEF Managed
<1>4. Eligible(out, out.read.bound) => Eligible(op[o], op[o].read.bound)
  BY DEF Eligible
<1>5. Snapshot(o)' /\ Honest(o)' /\ Windowed(o)' /\ ~InUse(o)'
  BY <1>1, <1>3 DEF Own, Snapshot, Honest, Windowed, InUse, Calling
<1>6. Probes(o) => Probes(o)'
  <2>1. (\A q \in Ops : ~InUse(q)) => \A q \in Ops : ~InUse(q)'
    BY <1>5 DEF InUse, Touches
  <2> QED
    BY <2>1 DEF Probes
<1>7. KeepsOrProbes(o)'
  <2>1. SUFFICES ASSUME Deciding(o)' PROVE Prefers(out) \/ Probes(o)'
    BY DEF KeepsOrProbes
  <2>2. Deciding(o) /\ ~out.lost
    BY <2>1, <1>3, <1>4 DEF Deciding
  <2> QED
    BY <2>2, <1>1, <1>6 DEF Own, KeepsOrProbes
<1> QED
  BY <1>5, <1>7, QuietStep DEF Own

LEMMA ObservedIsBoolean ==
  ASSUME NEW o, NEW listing, IsOp(op[o])
  PROVE  Observed(o, listing) \in BOOLEAN
BY DEF Observed, IsOp, BoundLost

LEMMA SortedOne ==
  ASSUME NEW e
  PROVE  SortedBy({e}, ByLoadThenId) = <<e>>
<1> DEFINE P(s) == \A i, j \in DOMAIN s :
              i < j => s[i] # s[j] /\ ~KeyLess(ByLoadThenId(s[j]), ByLoadThenId(s[i]))
<1>1. Cardinality({e}) = 1
  BY FS_Singleton
<1>2. PICK single : single = [i \in 1 .. 1 |-> e]
  OBVIOUS
<1>3. single \in [1 .. 1 -> {e}] /\ P(single)
  BY <1>2
<1>4. PICK chosen : chosen = CHOOSE s \in [1 .. 1 -> {e}] : P(s)
  OBVIOUS
<1>5. chosen \in [1 .. 1 -> {e}]
  <2> HIDE DEF P
  <2> QED
    BY <1>3, <1>4
<1>6. chosen = <<e>>
  BY <1>5
<1> QED
  BY <1>1, <1>4, <1>6 DEF SortedBy

LEMMA SortedNone == SortedBy({}, ByLoadThenId) = <<>>
<1> DEFINE P(s) == \A i, j \in DOMAIN s :
              i < j => s[i] # s[j] /\ ~KeyLess(ByLoadThenId(s[j]), ByLoadThenId(s[i]))
<1>1. Cardinality({}) = 0
  BY FS_EmptySet
<1>2. PICK empty : empty = [i \in 1 .. 0 |-> {}]
  OBVIOUS
<1>3. empty \in [1 .. 0 -> {}] /\ P(empty)
  BY <1>2
<1>4. PICK chosen : chosen = CHOOSE s \in [1 .. 0 -> {}] : P(s)
  OBVIOUS
<1>5. chosen \in [1 .. 0 -> {}]
  <2> HIDE DEF P
  <2> QED
    BY <1>3, <1>4
<1>6. chosen = <<>>
  BY <1>5
<1> QED
  BY <1>1, <1>4, <1>6 DEF SortedBy

(* At most one entry for each of the two adapters.                         *)
LEMMA ScoredIs ==
  ASSUME NEW o
  PROVE  \E m, g : /\ m.id = Mobile /\ g.id = Gateway /\ Scored(o) \subseteq {m, g}
                   /\ Compatible(o, Mobile) /\ Candidates(o, Listing(FALSE)) # {} => m \in Scored(o)
                   /\ Compatible(o, Gateway) /\ Gateway \notin world.circuits => g \in Scored(o)
<1>1. PICK slots : slots = SlotEntries(Candidates(o, Listing(FALSE)), world.saturation.rank)
  OBVIOUS
<1>2. Candidates(o, Listing(FALSE)) # {} => slots # {}
  BY <1>1 DEF SlotEntries
<1>3. PICK best : best = LeastLoaded(slots)
  OBVIOUS
<1>4. PICK m : m = Entry(Mobile, best.load, best.saturated)
  OBVIOUS
<1>5. PICK g : g = Entry(Gateway, ProviderLoad(Gateway), world.saturation.gateway[ProviderLoad(Gateway)])
  OBVIOUS
<1>6. m.id = Mobile /\ g.id = Gateway
  BY <1>4, <1>5 DEF Entry
<1>7. Scored(o) = {m : p \in {p \in {Mobile} : Compatible(o, p) /\ slots # {}}}
                  \cup {Entry(Gateway, ProviderLoad(p), world.saturation.gateway[ProviderLoad(p)]) :
                          p \in {p \in {Gateway} : Compatible(o, p) /\ Gateway \notin world.circuits}}
  BY <1>1, <1>3, <1>4 DEF Scored
<1>8. /\ Scored(o) \subseteq {m, g}
      /\ Compatible(o, Mobile) /\ Candidates(o, Listing(FALSE)) # {} => m \in Scored(o)
      /\ Compatible(o, Gateway) /\ Gateway \notin world.circuits => g \in Scored(o)
  BY <1>2, <1>5, <1>7
<1> QED
  BY <1>6, <1>8, Zenon

LEMMA FirstOfTwo ==
  ASSUME NEW e, NEW f, NEW rest \in {<<>>, <<f>>}
  PROVE  Len(<<e>> \o rest) \in Nat \ {0} /\ (<<e>> \o rest)[1] = e
<1>1. <<e>> \in Seq({e, f}) /\ <<f>> \in Seq({e, f}) /\ <<>> \in Seq({e, f})
  OBVIOUS
<1>2. Len(<<e>>) = 1 /\ <<e>>[1] = e /\ Len(<<f>>) = 1 /\ Len(<<>>) = 0
  OBVIOUS
<1>3. <<e>> \in Seq({e, f}) /\ rest \in Seq({e, f}) /\ Len(<<e>>) = 1 /\ <<e>>[1] = e
      /\ Len(rest) \in Nat
  BY <1>1, <1>2, Zenon
<1>4. /\ Len(<<e>> \o rest) = Len(<<e>>) + Len(rest)
      /\ \A i \in 1 .. Len(<<e>>) + Len(rest) :
            (<<e>> \o rest)[i] = IF i <= Len(<<e>>) THEN <<e>>[i] ELSE rest[i - Len(<<e>>)]
  BY <1>3, ConcatProperties
<1> QED
  BY <1>3, <1>4

(* The provider used before comes first, while it has attempts left.       *)
LEMMA OwnProviderFirst ==
  ASSUME NEW o, NEW p \in {Mobile, Gateway}, op[o].previous = p,
         \E e \in Scored(o) : e.id = p, op[o].attempts[p] < PerProvider,
         NEW ranked, ranked = rankProviders(Scored(o), op[o].mode, op[o].previous, op[o].attempts)
  PROVE  Len(ranked) \in Nat \ {0} /\ ranked[1].id = p
<1>1. PICK m, g : m.id = Mobile /\ g.id = Gateway /\ Scored(o) \subseteq {m, g}
  BY ScoredIs
<1>2. PICK used : used = {e \in Scored(o) : e.id = p}
  OBVIOUS
<1>3. PICK e, f : used = {e} /\ e.id = p /\ (Scored(o) \ used = {} \/ Scored(o) \ used = {f})
  BY <1>1, <1>2, SessionConstants
<1>4. \A x \in used : op[o].attempts[x.id] < PerProvider
  BY <1>2
<1>5. ranked = SortedBy(used, ByLoadThenId) \o SortedBy(Scored(o) \ used, ByLoadThenId)
  BY <1>2, <1>3, <1>4 DEF rankProviders
<1>6. ranked = <<e>> \o <<>> \/ ranked = <<e>> \o <<f>>
  BY <1>3, <1>5, SortedOne, SortedNone
<1>7. PICK rest \in {<<>>, <<f>>} : ranked = <<e>> \o rest
  BY <1>6, Zenon
<1>8. Len(ranked) \in Nat \ {0} /\ ranked[1] = e
  BY <1>7, FirstOfTwo
<1> QED
  BY <1>3, <1>8

LEMMA QueueStarts ==
  ASSUME NEW ranked, Len(ranked) \in Nat \ {0}, NEW queue,
         queue = [i \in 1 .. Min({Len(ranked), PerOperation}) |-> ranked[i].id]
  PROVE  Head(queue) = ranked[1].id
<1>1. PICK k : k = Min({Len(ranked), PerOperation})
  OBVIOUS
<1>2. PICK n \in Nat \ {0} : n = Len(ranked)
  OBVIOUS
<1>3. k \in {n, PerOperation}
  <2>1. \E x \in {n, PerOperation} : \A y \in {n, PerOperation} : x <= y
    BY <1>2, SessionConstants
  <2> QED
    BY <1>1, <1>2, <2>1 DEF Min
<1>4. k \in Nat \ {0}
  BY <1>3, SessionConstants
<1> QED
  BY <1>1, <1>4

LEMMA RankKeeps ==
  ASSUME SessionInv, NEW o \in Ops, Rank(o)
  PROVE  SessionInv'
<1> DEFINE r == op[o]
           listing == Listing(FALSE)
<1>1. r.pc = "rank" /\ UNCHANGED <<session, now>> /\ Shapes /\ Own(o) /\ IsOp(r)
      /\ (r.stored => r.mode = "managed")
  BY DEF Rank, SessionInv, Shapes, Own, Honest, Managed
<1>2. PICK given \in BOOLEAN : given = Observed(o, listing)
  BY <1>1, ObservedIsBoolean, Zenon
<1>3. PICK seen : seen = [r EXCEPT !.lost = given]
  OBVIOUS
<1>4. IsOp(seen) /\ (seen.stored => seen.mode = "managed")
  BY <1>1, <1>3 DEF IsOp
<1>5. seen = [r EXCEPT !.lost = Observed(o, listing)]
  BY <1>2, <1>3, Zenon
<1>6. PICK ranked : ranked = rankProviders(Scored(o), r.mode, r.previous, r.attempts)
  OBVIOUS
<1>7. PICK queue : queue = [i \in 1 .. Min({Len(ranked), PerOperation}) |-> ranked[i].id]
  OBVIOUS
<1>8. PICK out : out = [seen EXCEPT !.pc = "try", !.queue = queue]
  OBVIOUS
<1>9. \/ Fails(o, seen) \/ Exhausted(o, seen)
      \/ op' = [op EXCEPT ![o] = out] /\ UNCHANGED claim
  BY <1>5, <1>6, <1>7, <1>8, Zenon DEF Rank
<1>10. CASE Fails(o, seen) \/ Exhausted(o, seen)
  BY <1>1, <1>4, <1>10, FailsKeeps, ExhaustedKeeps
<1>11. CASE op' = [op EXCEPT ![o] = out] /\ UNCHANGED claim
  <2>1. Touches(o) /\ op'[o] = out
    BY <1>1, <1>11, UnclaimedAt
  <2>2. /\ IsOp(out) /\ out.pc = "try" /\ out.queue = queue /\ out.lost = given
        /\ out.mode = r.mode /\ out.route = r.route /\ out.excluded = r.excluded
        /\ out.read = r.read /\ out.failback = r.failback /\ out.stored = r.stored
        /\ out.previous = r.previous /\ out.handle = r.handle /\ out.preferred = r.preferred
    BY <1>1, <1>3, <1>8 DEF IsOp
  <2>3. ~given => ~r.lost /\ ~BoundLost(o, listing)
    BY <1>2, Zenon DEF Observed
  <2>4. ASSUME ~given, Deciding(o), Prefers(r)
        PROVE  Prefers(out)
    <3>1. PICK p : p = r.read.bound.provider
      OBVIOUS
    <3>2. /\ r.mode = "managed" /\ r.read.bound # Undefined /\ p \in {Mobile, Gateway}
          /\ Compatible(o, p) /\ r.previous = p
      BY <2>4, <1>1, <3>1 DEF Deciding, Managed, Eligible, Compatible, Prefers, Own, Snapshot,
         IsSession, IsBinding
    <3>3. BoundTo(o, p)
      BY <3>1, <3>2 DEF BoundTo
    <3>4. p \in Providers /\ r.attempts[p] \in Int
      BY <3>2, <1>1, SessionConstants DEF IsOp
    <3>5. ~(r.attempts[p] >= PerProvider)
      BY <2>3, <2>4, <3>3, <3>4, <1>1 DEF BoundLost
    <3>6. r.attempts[p] < PerProvider
      BY <3>4, <3>5, SessionConstants
    <3>7. p = Gateway => Gateway \notin world.circuits
      BY <2>3, <2>4, <3>3 DEF BoundLost
    <3>8. p = Mobile => Candidates(o, listing) # {}
      BY <2>3, <2>4, <3>3 DEF BoundLost
    <3>9. \E e \in Scored(o) : e.id = p
      BY <3>2, <3>7, <3>8, ScoredIs
    <3>10. Len(ranked) \in Nat \ {0} /\ ranked[1].id = p
      BY <3>2, <3>6, <3>9, <1>6, OwnProviderFirst
    <3>11. Head(queue) = p
      BY <3>10, <1>7, QueueStarts
    <3> QED
      BY <3>1, <3>11, <2>2, <2>4 DEF Prefers
  <2>5. AtProvider(o)' /\ Held(o)'
    BY <2>1, <2>2 DEF AtProvider, Held, Holding
  <2>6. ~out.lost => ~r.lost
    BY <2>2, <2>3
  <2>7. ~out.lost /\ Deciding(o) /\ Prefers(r) => Prefers(out)
    BY <2>2, <2>4
  <2> QED
    BY <1>1, <2>1, <2>2, <2>5, <2>6, <2>7, CallGoesOn DEF Calling
<1> QED
  BY <1>9, <1>10, <1>11

LEMMA AttemptsAt ==
  ASSUME NEW attempts \in [Providers -> Int], NEW p, NEW n \in Int
  PROVE  [attempts EXCEPT ![p] = n] \in [Providers -> Int]
OBVIOUS

LEMMA PassKeeps ==
  ASSUME SessionInv, NEW o \in Ops, Pass(o)
  PROVE  SessionInv'
<1> DEFINE r == op[o]
           p == Head(op[o].queue)
<1>1. r.pc = "try" /\ UNCHANGED <<session, now>> /\ Shapes /\ Own(o) /\ IsOp(r)
      /\ (r.stored => r.mode = "managed")
  BY DEF Pass, SessionInv, Shapes, Own, Honest, Managed
<1>2. PICK given \in BOOLEAN : given = (r.lost \/ BoundTo(o, p))
  <2>1. (r.lost \/ BoundTo(o, p)) \in BOOLEAN
    OBVIOUS
  <2> QED
    BY <2>1, Zenon
<1>3. PICK queue : queue = Tail(r.queue)
  OBVIOUS
<1>4. PICK attempts : attempts = [r.attempts EXCEPT ![p] = PerProvider]
  OBVIOUS
<1>5. attempts \in [Providers -> Int]
  <2>1. r.attempts \in [Providers -> Int] /\ PerProvider \in Int
    BY <1>1, SessionConstants DEF IsOp
  <2> QED
    BY <2>1, <1>4, AttemptsAt
<1>6. PICK tried : tried = [r EXCEPT !.queue = queue, !.attempts = attempts, !.lost = given]
  OBVIOUS
<1>7. tried = [r EXCEPT !.queue = Tail(@), !.attempts[p] = PerProvider, !.lost = @ \/ BoundTo(o, p)]
  BY <1>2, <1>3, <1>4, <1>6, Zenon
<1>8. Exhausted(o, tried) \/ (op' = [op EXCEPT ![o] = tried] /\ UNCHANGED claim)
  BY <1>7, Zenon DEF Pass
<1>9. /\ IsOp(tried) /\ tried.pc = "try" /\ tried.lost = given
      /\ tried.mode = r.mode /\ tried.route = r.route /\ tried.excluded = r.excluded
      /\ tried.read = r.read /\ tried.failback = r.failback /\ tried.stored = r.stored
  BY <1>1, <1>5, <1>6 DEF IsOp
<1>10. CASE Exhausted(o, tried)
  BY <1>1, <1>9, <1>10, ExhaustedKeeps
<1>11. CASE op' = [op EXCEPT ![o] = tried] /\ UNCHANGED claim
  <2>1. Touches(o) /\ op'[o] = tried
    BY <1>1, <1>11, UnclaimedAt
  <2>2. ~given => ~r.lost /\ ~BoundTo(o, p)
    BY <1>2, Zenon
  <2>3. Deciding(o) /\ Prefers(r) => BoundTo(o, p)
    BY <1>1 DEF Deciding, Managed, Eligible, Prefers, BoundTo
  <2>4. AtProvider(o)' /\ Held(o)'
    BY <2>1, <1>9 DEF AtProvider, Held, Holding
  <2> QED
    BY <1>1, <1>9, <2>1, <2>2, <2>3, <2>4, CallGoesOn DEF Calling
<1> QED
  BY <1>8, <1>10, <1>11

LEMMA ClaimedAt ==
  ASSUME Shapes, NEW o \in Ops, NEW rec, NEW tunnel,
         op' = [op EXCEPT ![o] = rec], claim' = [claim EXCEPT ![o] = tunnel]
  PROVE  Touches(o) /\ op'[o] = rec /\ claim'[o] = tunnel
BY OpAt, ClaimAt DEF Touches

LEMMA SlotsDiffer ==
  ASSUME NEW s, NEW t, Slot(s) = Slot(t)
  PROVE  s = t
BY DEF Slot

LEMMA ClaimSlotKeeps ==
  ASSUME SessionInv, NEW o \in Ops, ClaimSlot(o)
  PROVE  SessionInv'
<1> DEFINE r == op[o]
           slots == Candidates(o, world.slots)
<1>1. r.pc = "try" /\ UNCHANGED <<session, now>> /\ Shapes /\ Own(o) /\ IsOp(r)
      /\ (r.stored => r.mode = "managed") /\ Head(r.queue) = Mobile
  BY DEF ClaimSlot, SessionInv, Shapes, Own, Honest, Managed
<1>2. PICK given \in BOOLEAN : given = Observed(o, world.slots)
  BY <1>1, ObservedIsBoolean, Zenon
<1>3. PICK attempts : attempts = [r.attempts EXCEPT ![Mobile] = @ + 1]
  OBVIOUS
<1>4. attempts \in [Providers -> Int]
  <2>1. PICK n \in Int : n = r.attempts[Mobile] + 1
    BY <1>1, SessionConstants DEF IsOp
  <2>2. r.attempts \in [Providers -> Int] /\ attempts = [r.attempts EXCEPT ![Mobile] = n]
    BY <1>1, <1>3, <2>1 DEF IsOp
  <2> QED
    BY <2>2, AttemptsAt
<1>5. PICK tried : tried = [r EXCEPT !.attempts = attempts, !.lost = given]
  OBVIOUS
<1>6. tried = [r EXCEPT !.attempts[Mobile] = @ + 1, !.lost = Observed(o, world.slots)]
  BY <1>2, <1>3, <1>5, Zenon
<1>7. PICK s : s = SelectSlot(o, slots)
  OBVIOUS
<1>8. PICK out : out = [tried EXCEPT !.pc = "resolve", !.slot = s]
  OBVIOUS
<1>9. PICK tunnel : tunnel = [provider |-> Mobile, endpoint |-> Slot(s)]
  OBVIOUS
<1>10. \/ slots = {} /\ Fails(o, tried)
       \/ slots # {} /\ claim' = [claim EXCEPT ![o] = tunnel] /\ op' = [op EXCEPT ![o] = out]
  BY <1>6, <1>7, <1>8, <1>9, Zenon DEF ClaimSlot
<1>11. /\ IsOp(tried) /\ tried.stored = r.stored /\ tried.mode = r.mode
  BY <1>1, <1>4, <1>5 DEF IsOp
<1>12. CASE Fails(o, tried)
  BY <1>1, <1>11, <1>12, FailsKeeps
<1>13. CASE slots # {} /\ claim' = [claim EXCEPT ![o] = tunnel] /\ op' = [op EXCEPT ![o] = out]
  <2>1. Touches(o) /\ op'[o] = out /\ claim'[o] = tunnel
    BY <1>1, <1>13, ClaimedAt
  <2>2. /\ IsOp(out) /\ out.pc = "resolve" /\ out.queue = r.queue /\ out.lost = given
        /\ out.mode = r.mode /\ out.route = r.route /\ out.excluded = r.excluded
        /\ out.read = r.read /\ out.failback = r.failback /\ out.stored = r.stored
        /\ out.previous = r.previous /\ out.handle = r.handle /\ out.preferred = r.preferred
        /\ out.slot = s
    BY <1>1, <1>4, <1>5, <1>8 DEF IsOp
  <2>3. ~given => ~r.lost /\ ~BoundLost(o, world.slots)
    BY <1>2, Zenon DEF Observed
  <2>4. ASSUME ~given, Deciding(o), Prefers(r)
        PROVE  Prefers(out)
    <3>1. BoundTo(o, Mobile) /\ r.preferred = r.read.bound.endpoint
      BY <1>1, <2>4 DEF Deciding, Managed, Eligible, Prefers, BoundTo
    <3>2. PICK t \in slots : r.read.bound.endpoint = Slot(t)
      BY <2>3, <2>4, <3>1 DEF BoundLost
    <3>3. PICK mine : mine = {t1 \in slots : Slot(t1) = op[o].preferred}
      OBVIOUS
    <3>4. t \in mine
      BY <3>1, <3>2, <3>3
    <3>5. s = CHOOSE t1 \in mine : TRUE
      BY <1>7, <3>3, <3>4 DEF SelectSlot
    <3>6. Slot(s) = r.read.bound.endpoint
      BY <3>1, <3>3, <3>4, <3>5
    <3> QED
      BY <3>6, <2>2, <2>4, <1>1 DEF Prefers
  <2>5. AtProvider(o)' /\ Held(o)'
    BY <2>1, <2>2, <1>1, <1>9, SessionConstants DEF AtProvider, Held
  <2>6. (~out.lost => ~r.lost) /\ (~out.lost /\ Deciding(o) /\ Prefers(r) => Prefers(out))
    BY <2>2, <2>3, <2>4
  <2> QED
    BY <1>1, <2>1, <2>2, <2>5, <2>6, CallGoesOn DEF Calling
<1> QED
  BY <1>10, <1>12, <1>13

LEMMA ResolveSlotKeeps ==
  ASSUME SessionInv, NEW o \in Ops, ResolveSlot(o)
  PROVE  SessionInv'
<1> DEFINE r == op[o]
           listing == Listing(FALSE)
           route == Profiles[op[o].route]
           others == {t \in HealthyIn(listing) : /\ Slot(t) \notin op[o].excluded
                                                 /\ matches(t, listing[t], route)}
           assigned == listing[op[o].slot] # "gone"
           s == IF assigned THEN op[o].slot ELSE CHOOSE t \in others : TRUE
<1>1. r.pc = "resolve" /\ UNCHANGED <<session, now>> /\ Shapes /\ Own(o) /\ IsOp(r)
      /\ (r.stored => r.mode = "managed") /\ Head(r.queue) = Mobile
  BY DEF ResolveSlot, SessionInv, Shapes, Own, Honest, Managed
<1>2. PICK given \in BOOLEAN : given = Observed(o, listing)
  BY <1>1, ObservedIsBoolean, Zenon
<1>3. PICK seen : seen = [r EXCEPT !.lost = given]
  OBVIOUS
<1>4. IsOp(seen) /\ (seen.stored => seen.mode = "managed")
  BY <1>1, <1>3 DEF IsOp
<1>5. seen = [r EXCEPT !.lost = Observed(o, listing)]
  BY <1>2, <1>3, Zenon
<1>6. PICK s0 : s0 = s
  <2> HIDE DEF s
  <2> QED
    OBVIOUS
<1>7. PICK refused : refused = [seen EXCEPT !.excluded = @ \cup {Slot(s0)}, !.previous = Mobile]
  OBVIOUS
<1>8. PICK out : out = [seen EXCEPT !.pc = "circuit", !.endpoint = Slot(s0)]
  OBVIOUS
<1>9. \/ Fails(o, seen) \/ Fails(o, refused)
      \/ op' = [op EXCEPT ![o] = out] /\ UNCHANGED claim
  BY <1>5, <1>6, <1>7, <1>8, Zenon DEF ResolveSlot
<1>10. IsOp(refused) /\ (refused.stored => refused.mode = "managed")
  BY <1>4, <1>7 DEF IsOp
<1>11. CASE Fails(o, seen) \/ Fails(o, refused)
  BY <1>1, <1>4, <1>10, <1>11, FailsKeeps
<1>12. CASE op' = [op EXCEPT ![o] = out] /\ UNCHANGED claim
  <2>1. Touches(o) /\ op'[o] = out
    BY <1>1, <1>12, UnclaimedAt
  <2>2. /\ IsOp(out) /\ out.pc = "circuit" /\ out.queue = r.queue /\ out.lost = given
        /\ out.mode = r.mode /\ out.route = r.route /\ out.excluded = r.excluded
        /\ out.read = r.read /\ out.failback = r.failback /\ out.stored = r.stored
        /\ out.previous = r.previous /\ out.handle = r.handle /\ out.preferred = r.preferred
        /\ out.endpoint = Slot(s0)
    BY <1>1, <1>3, <1>8 DEF IsOp
  <2>3. ~given => ~r.lost /\ ~BoundLost(o, listing)
    BY <1>2, Zenon DEF Observed
  <2>4. ASSUME ~given, Deciding(o), Prefers(r)
        PROVE  Prefers(out)
    <3>1. BoundTo(o, Mobile) /\ Slot(r.slot) = r.read.bound.endpoint
      BY <1>1, <2>4 DEF Deciding, Managed, Eligible, Prefers, BoundTo
    <3>2. PICK t \in Candidates(o, listing) : r.read.bound.endpoint = Slot(t)
      BY <2>3, <2>4, <3>1 DEF BoundLost
    <3>3. t = r.slot
      BY <3>1, <3>2, SlotsDiffer
    <3>4. assigned
      BY <3>2, <3>3 DEF Candidates, HealthyIn
    <3>5. Slot(s0) = r.read.bound.endpoint
      BY <3>1, <3>4, <1>6
    <3> QED
      BY <3>5, <2>2, <2>4, <1>1 DEF Prefers
  <2>5. claim'[o] = claim[o] /\ claim[o].provider # Undefined
    BY <1>1, <1>12 DEF Own, Held, Holding
  <2>6. AtProvider(o)' /\ Held(o)'
    BY <2>1, <2>2, <2>5, <1>1, SessionConstants DEF AtProvider, Held
  <2>7. (~out.lost => ~r.lost) /\ (~out.lost /\ Deciding(o) /\ Prefers(r) => Prefers(out))
    BY <2>2, <2>3, <2>4
  <2> QED
    BY <1>1, <2>1, <2>2, <2>6, <2>7, CallGoesOn DEF Calling
<1> QED
  BY <1>9, <1>11, <1>12

LEMMA ResolveGatewayKeeps ==
  ASSUME SessionInv, NEW o \in Ops, ResolveGateway(o)
  PROVE  SessionInv'
<1> DEFINE r == op[o]
<1>1. r.pc = "try" /\ UNCHANGED <<session, now, claim>> /\ Shapes /\ Own(o) /\ IsOp(r)
      /\ Head(r.queue) = Gateway
  BY DEF ResolveGateway, SessionInv, Shapes
<1>2. PICK attempts : attempts = [r.attempts EXCEPT ![Gateway] = @ + 1]
  OBVIOUS
<1>3. attempts \in [Providers -> Int]
  <2>1. PICK n \in Int : n = r.attempts[Gateway] + 1
    BY <1>1, SessionConstants DEF IsOp
  <2>2. r.attempts \in [Providers -> Int] /\ attempts = [r.attempts EXCEPT ![Gateway] = n]
    BY <1>1, <1>2, <2>1 DEF IsOp
  <2> QED
    BY <2>2, AttemptsAt
<1>4. PICK endpoint : endpoint = sessionId(o, r.attempts[Gateway], r.mode, r.handle)
  OBVIOUS
<1>5. PICK out : out = [r EXCEPT !.pc = "circuit", !.attempts = attempts, !.endpoint = endpoint]
  OBVIOUS
<1>6. op' = [op EXCEPT ![o] = out]
  BY <1>2, <1>4, <1>5, Zenon DEF ResolveGateway
<1>7. Touches(o) /\ op'[o] = out
  BY <1>1, <1>6, UnclaimedAt
<1>8. /\ IsOp(out) /\ out.pc = "circuit" /\ out.queue = r.queue /\ out.lost = r.lost
      /\ out.mode = r.mode /\ out.route = r.route /\ out.excluded = r.excluded
      /\ out.read = r.read /\ out.failback = r.failback /\ out.stored = r.stored
      /\ out.previous = r.previous /\ out.handle = r.handle /\ out.preferred = r.preferred
      /\ out.endpoint = endpoint
  BY <1>1, <1>3, <1>5 DEF IsOp
<1>9. r.mode = "managed" => endpoint[1] = "hash" /\ (r.handle[1] = "hash" => endpoint = r.handle)
  BY <1>4 DEF sessionId
<1>10. ASSUME Deciding(o), Prefers(r)
       PROVE  Prefers(out)
  <2>1. IsSession(r.read) /\ r.read.bound # Undefined /\ r.read.bound.provider = Gateway
        /\ r.handle = r.read.bound.endpoint /\ r.mode = "managed"
    BY <1>1, <1>10 DEF Deciding, Managed, Eligible, Prefers, Own, Snapshot
  <2>2. endpoint = r.read.bound.endpoint
    BY <2>1, <1>9 DEF IsSession, IsBinding
  <2> QED
    BY <2>1, <2>2, <1>1, <1>8, <1>10 DEF Prefers
<1>11. AtProvider(o)' /\ Held(o)'
  BY <1>1, <1>7, <1>8, <1>9, SessionConstants DEF AtProvider, Held, Holding, Managed
<1> QED
  BY <1>1, <1>7, <1>8, <1>10, <1>11, CallGoesOn DEF Calling

LEMMA ClaimCircuitKeeps ==
  ASSUME SessionInv, NEW o \in Ops, ClaimCircuit(o)
  PROVE  SessionInv'
<1> DEFINE r == op[o]
           p == Head(op[o].queue)
           listing == Listing(FALSE)
<1>1. r.pc = "circuit" /\ UNCHANGED <<session, now>> /\ Shapes /\ Own(o) /\ IsOp(r)
      /\ (r.stored => r.mode = "managed") /\ p \in {Mobile, Gateway}
  BY DEF ClaimCircuit, SessionInv, Shapes, Own, Honest, Managed, AtProvider
<1>2. PICK given \in BOOLEAN : given = Observed(o, listing)
  BY <1>1, ObservedIsBoolean, Zenon
<1>3. PICK refused : refused = [r EXCEPT !.excluded = @ \cup {op[o].endpoint}, !.lost = given]
  OBVIOUS
<1>4. refused = [r EXCEPT !.excluded = @ \cup {op[o].endpoint}, !.lost = Observed(o, listing)]
  BY <1>2, <1>3, Zenon
<1>5. PICK pc : pc = IF r.mode = "managed" THEN "bind" ELSE "open"
  OBVIOUS
<1>6. PICK previous : previous = IF r.mode = "managed" THEN r.previous ELSE p
  OBVIOUS
<1>7. PICK out : out = [r EXCEPT !.pc = pc, !.previous = previous]
  OBVIOUS
<1>8. PICK tunnel : tunnel = [provider |-> p, endpoint |-> op[o].endpoint]
  OBVIOUS
<1>9. \/ Fails(o, refused)
      \/ /\ op' = [op EXCEPT ![o] = out]
         /\ claim' = IF p = Mobile THEN claim ELSE [claim EXCEPT ![o] = tunnel]
  BY <1>4, <1>5, <1>6, <1>7, <1>8, Zenon DEF ClaimCircuit
<1>10. IsOp(refused) /\ (refused.stored => refused.mode = "managed")
  BY <1>1, <1>3 DEF IsOp
<1>11. CASE Fails(o, refused)
  BY <1>1, <1>10, <1>11, FailsKeeps
<1>12. CASE /\ op' = [op EXCEPT ![o] = out]
            /\ claim' = IF p = Mobile THEN claim ELSE [claim EXCEPT ![o] = tunnel]
  <2>1. Touches(o) /\ op'[o] = out
        /\ ((p = Mobile /\ claim'[o] = claim[o]) \/ (p # Mobile /\ claim'[o] = tunnel))
    BY <1>1, <1>12, UnclaimedAt, ClaimedAt
  <2>2. /\ IsOp(out) /\ out.pc = pc /\ out.queue = r.queue /\ out.lost = r.lost
        /\ out.mode = r.mode /\ out.route = r.route /\ out.excluded = r.excluded
        /\ out.read = r.read /\ out.failback = r.failback /\ out.stored = r.stored
        /\ out.previous = previous /\ out.handle = r.handle /\ out.preferred = r.preferred
        /\ out.endpoint = r.endpoint
    BY <1>1, <1>7 DEF IsOp
  <2>3. Deciding(o) /\ Prefers(r) => Prefers(out)
    BY <2>2, <1>1, <1>5, <1>6 DEF Deciding, Managed, Prefers
  <2>4. AtProvider(o)'
    BY <2>1, <2>2, <1>1, <1>5 DEF Own, AtProvider, Managed
  <2>5. claim'[o].provider # Undefined
    BY <2>1, <1>1, <1>8, SessionConstants DEF Own, Held, Holding
  <2>6. Held(o)'
    BY <2>5 DEF Held
  <2> QED
    BY <1>1, <1>5, <2>1, <2>2, <2>3, <2>4, <2>6, CallGoesOn DEF Calling, Managed
<1> QED
  BY <1>9, <1>11, <1>12

LEMMA AnswersKeeps ==
  ASSUME SessionInv, NEW o \in Ops, op[o].pc = "bind", Answers(o), UNCHANGED <<claim, now>>,
         IsSession(session)', Before(session, session'),
         Saves(op[o].read.version) => session'.version # session.version
  PROVE  SessionInv'
<1>1. Shapes /\ Own(o) /\ IsOp(op[o]) /\ Managed(o)
  BY DEF SessionInv, Shapes, Own, Honest
<1>2. PICK stored \in BOOLEAN : stored = Saves(op[o].read.version)
  <2>1. Saves(op[o].read.version) \in BOOLEAN
    BY DEF Saves
  <2> QED
    BY <2>1, Zenon
<1>3. PICK out : out = [op[o] EXCEPT !.pc = "open", !.previous = Head(op[o].queue), !.stored = stored]
  OBVIOUS
<1>4. op' = [op EXCEPT ![o] = out]
  BY <1>2, <1>3, Zenon DEF Answers
<1>5. Touches(o) /\ op'[o] = out /\ claim'[o] = claim[o]
  BY <1>1, <1>4, UnclaimedAt
<1>6. IsOp(out) /\ out.pc = "open" /\ out.mode = op[o].mode /\ out.stored = stored
  BY <1>1, <1>3 DEF IsOp
<1>7. claim[o].provider # Undefined
  BY <1>1 DEF Own, Held, Holding
<1>8. Own(o)'
  BY <1>1, <1>5, <1>6, <1>7 DEF Own, Snapshot, AtProvider, Held, Honest, Windowed,
     KeepsOrProbes, Deciding, Managed, Calling
<1>9. session.version = session'.version => ~InUse(o)'
  BY <1>2, <1>5, <1>6 DEF InUse
<1> QED
  BY <1>5, <1>6, <1>8, <1>9, StepOfOne

(* A call that is about to bind holds a session that is not newer than the *)
(* stored one, and the binding of an endpoint it resolved.                 *)
LEMMA AtBind ==
  ASSUME SessionInv, NEW o \in Ops, op[o].pc = "bind"
  PROVE  /\ IsSession(op[o].read) /\ Before(op[o].read, session) /\ IsSession(session)
         /\ Managed(o) /\ IsBinding(Resolved(o))
<1>1. Own(o) /\ Managed(o)
  BY DEF SessionInv, Own, Honest
<1>2. IsSession(op[o].read) /\ Before(op[o].read, session) /\ IsSession(session)
  BY <1>1 DEF Own, Snapshot, Calling, SessionInv, Shapes
<1>3. /\ Head(op[o].queue) \in {Mobile, Gateway}
      /\ Head(op[o].queue) = Gateway => op[o].endpoint[1] = "hash"
  BY <1>1 DEF Own, AtProvider
<1>4. IsBinding(Resolved(o))
  BY <1>3 DEF IsBinding, Resolved
<1> QED
  BY <1>1, <1>2, <1>4

LEMMA ReuseKeeps ==
  ASSUME SessionInv, NEW o \in Ops, Reuse(o)
  PROVE  SessionInv'
<1> DEFINE s == op[o].read
           restart == op[o].failback /\ ClassOf(s.bound) # DesiredClass
<1>1. op[o].pc = "bind" /\ Answers(o) /\ UNCHANGED <<claim, now>>
  BY DEF Reuse
<1>2. IsSession(s) /\ Before(s, session) /\ IsSession(session)
  BY <1>1, AtBind
<1>3. PICK since : since = IF restart THEN Undefined ELSE s.healthySince
  OBVIOUS
<1>4. since = Undefined \/ since = s.healthySince
  BY <1>3
<1>5. PICK updated : updated = [s EXCEPT !.version = @ + 1, !.healthySince = since]
  OBVIOUS
<1>6. session' = IF Saves(s.version) THEN updated ELSE session
  BY <1>3, <1>5, Zenon DEF Reuse, saveLogicalSession
<1> HIDE DEF restart
<1>7. IsSession(updated) /\ updated.version = s.version + 1
  <2>1. PICK last : last = s
    OBVIOUS
  <2>2. IsSession(last) /\ (since # Undefined => since \in Int)
    BY <1>2, <1>4, <2>1 DEF IsSession
  <2>3. PICK version \in Nat : version = last.version + 1
    BY <2>2 DEF IsSession
  <2>4. updated = [last EXCEPT !.version = version, !.healthySince = since]
    BY <1>5, <2>1, <2>3
  <2>5. IsSession(updated) /\ updated.version = version
    BY ONLY <2>2, <2>3, <2>4 DEF IsSession
  <2> QED
    BY <2>1, <2>3, <2>5
<1>8. CASE Saves(s.version)
  <2>1. session' = updated /\ session.version = s.version
    BY <1>6, <1>8 DEF Saves
  <2>2. IsSession(session)' /\ Before(session, session') /\ session'.version # session.version
    BY <2>1, <1>2, <1>7 DEF Before, IsSession
  <2> QED
    BY <2>2, <1>1, AnswersKeeps
<1>9. CASE ~Saves(s.version)
  <2>1. IsSession(session)' /\ Before(session, session')
    BY <1>6, <1>9, SameSession
  <2> QED
    BY <2>1, <1>1, <1>9, AnswersKeeps
<1> QED
  BY <1>8, <1>9

LEMMA RebindKeeps ==
  ASSUME SessionInv, NEW o \in Ops, Rebind(o)
  PROVE  SessionInv'
<1> DEFINE s == op[o].read
           class == Descriptor[Head(op[o].queue)].providerClass
<1>1. op[o].pc = "bind" /\ UNCHANGED now /\ IsOp(op[o]) /\ (op[o].stored => op[o].mode = "managed")
  BY DEF Rebind, SessionInv, Shapes, Own, Honest, Managed
<1>2. IsSession(s) /\ Before(s, session) /\ IsSession(session) /\ IsBinding(Resolved(o))
  BY <1>1, AtBind
<1>3. CASE ~LosesRebind(o)
  <2>1. PICK since : since = IF class = DesiredClass THEN Undefined ELSE s.healthySince
    OBVIOUS
  <2>2. since = Undefined \/ since = s.healthySince
    BY <2>1
  <2>3. PICK bound : bound = Resolved(o)
    OBVIOUS
  <2>4. PICK updated : updated = [s EXCEPT !.version = @ + 1, !.bound = bound, !.healthySince = since]
    OBVIOUS
  <2>5. session' = IF Saves(s.version) THEN updated ELSE session
    BY <1>3, <2>1, <2>3, <2>4, Zenon DEF Rebind, saveLogicalSession
  <2>6. Answers(o) /\ UNCHANGED claim
    BY <1>3 DEF Rebind
  <2> HIDE DEF class
  <2>7. IsSession(updated) /\ updated.version = s.version + 1
    <3>1. PICK last : last = s
      OBVIOUS
    <3>2. IsSession(last) /\ (since # Undefined => since \in Int) /\ IsBinding(bound)
      BY <1>2, <2>2, <2>3, <3>1 DEF IsSession
    <3>3. PICK version \in Nat : version = last.version + 1
      BY <3>2 DEF IsSession
    <3>4. updated = [last EXCEPT !.version = version, !.bound = bound, !.healthySince = since]
      BY <2>4, <3>1, <3>3
    <3>5. IsSession(updated) /\ updated.version = version
      BY ONLY <3>2, <3>3, <3>4 DEF IsSession
    <3> QED
      BY <3>1, <3>3, <3>5
  <2>8. session' = updated /\ session.version = s.version
    BY <1>3, <2>5 DEF LosesRebind, Saves
  <2>9. IsSession(session)' /\ Before(session, session') /\ session'.version # session.version
    BY <2>7, <2>8, <1>2 DEF Before, IsSession
  <2> QED
    BY <2>6, <2>9, <1>1, AnswersKeeps
<1>4. CASE LosesRebind(o)
  <2>1. PICK again : again = [op[o] EXCEPT !.retries = @ + 1, !.previous = Undefined,
                                           !.preferred = Undefined]
    OBVIOUS
  <2>2. PICK rec : rec = [NoEndpoint(again) EXCEPT !.pc = "start"]
    OBVIOUS
  <2>3. IsOp(again) /\ again.stored = op[o].stored /\ again.mode = op[o].mode
    BY <1>1, <2>1 DEF IsOp
  <2>4. IsOp(rec) /\ rec.stored = op[o].stored /\ rec.mode = op[o].mode /\ rec.pc = "start"
    BY <2>2, <2>3 DEF IsOp, NoEndpoint
  <2>5. UNCHANGED session
        /\ (Fails(o, op[o]) \/ (op' = [op EXCEPT ![o] = rec] /\ Unclaimed(o)))
    BY <1>4, <2>1, <2>2, Zenon DEF Rebind
  <2> QED
    BY <1>1, <2>4, <2>5, FailsKeeps, StartAgainKeeps
<1> QED
  BY <1>3, <1>4

-----------------------------------------------------------------------------
(* The invariant *)

LEMMA SessionStarts == ASSUME Init PROVE SessionInv
<1>1. \A o \in Ops : op[o] = NoOp
  BY DEF Init
<1>2. \A o \in Ops : Own(o)
  BY <1>1 DEF Own, Snapshot, AtProvider, Held, Holding, Honest, Windowed, KeepsOrProbes, Deciding,
     Calling, NoOp
<1>3. Shapes
  BY <1>1, NoOpIsOp, SessionConstants DEF Shapes, Init
<1> QED
  BY <1>2, <1>3 DEF SessionInv

LEMMA SessionStep ==
  ASSUME SessionInv, [Next]_vars
  PROVE  SessionInv'
<1>1. ASSUME NEW o \in Ops, Begin(o) \/ ReadSession(o) \/ ObserveClass(o) \/ Rank(o) \/ Pass(o)
                            \/ Abort(o)
      PROVE  SessionInv'
  BY <1>1, BeginKeeps, ReadSessionKeeps, ObserveClassKeeps, RankKeeps, PassKeeps, AbortKeeps
<1>2. ASSUME NEW o \in Ops, ClaimSlot(o) \/ ResolveSlot(o) \/ ResolveGateway(o) \/ ClaimCircuit(o)
                            \/ Reuse(o) \/ Rebind(o)
      PROVE  SessionInv'
  BY <1>2, ClaimSlotKeeps, ResolveSlotKeeps, ResolveGatewayKeeps, ClaimCircuitKeeps, ReuseKeeps,
     RebindKeeps
<1>3. ASSUME NEW o \in Ops, OpenFails(o) \/ Opens(o) \/ Disconnect(o) \/ RecordDisconnect(o)
      PROVE  SessionInv'
  BY <1>3, OpenFailsKeeps, OpensKeeps, DisconnectKeeps, RecordDisconnectKeeps
<1>4. CASE Tick \/ Change \/ UpdateProfile \/ CloseSession \/ UNCHANGED vars
  BY <1>4, TickKeeps, ChangeKeeps, CloseSessionKeeps
<1> QED
  BY <1>1, <1>2, <1>3, <1>4 DEF Next

LEMMA SessionInvariant == Spec => []SessionInv
<1>1. Init => SessionInv
  BY SessionStarts
<1>2. SessionInv /\ [Next]_vars => SessionInv'
  BY SessionStep
<1> QED
  BY <1>1, <1>2, PTL DEF Spec

-----------------------------------------------------------------------------
(* What the sessions promise *)

(* An operation's step changes no other.                                   *)
Alone(q) == \A o \in Ops \ {q} : op'[o] = op[o]

LEMMA AnyAlone ==
  ASSUME Shapes, NEW q \in Ops, NEW rec, op' = [op EXCEPT ![q] = rec]
  PROVE  Alone(q)
BY OpAt DEF Alone

LEMMA FailsAlone ==
  ASSUME Shapes, NEW q \in Ops, NEW rec, Fails(q, rec) \/ Refused(q) \/ Exhausted(q, rec)
  PROVE  Alone(q)
BY DEF Fails, Refused, Exhausted, Alone, Shapes

LEMMA StepsAlone ==
  ASSUME Shapes, NEW q \in Ops,
         \/ Begin(q) \/ ReadSession(q) \/ ObserveClass(q) \/ Rank(q) \/ Pass(q) \/ Abort(q)
         \/ ClaimSlot(q) \/ ResolveSlot(q) \/ ResolveGateway(q) \/ ClaimCircuit(q)
         \/ Reuse(q) \/ Rebind(q) \/ OpenFails(q) \/ Opens(q) \/ Disconnect(q) \/ RecordDisconnect(q)
  PROVE  Alone(q)
<1>1. CASE Begin(q)
  BY <1>1 DEF Begin, Alone, Shapes
<1>2. CASE ReadSession(q)
  BY <1>2, FailsAlone, AnyAlone DEF ReadSession
<1>3. CASE ObserveClass(q)
  BY <1>3, AnyAlone, Zenon DEF ObserveClass
<1>4. CASE Rank(q)
  BY <1>4, FailsAlone, AnyAlone, Zenon DEF Rank
<1>5. CASE Pass(q)
  BY <1>5, FailsAlone, AnyAlone, Zenon DEF Pass
<1>6. CASE Abort(q)
  BY <1>6, FailsAlone DEF Abort
<1>7. CASE ClaimSlot(q)
  BY <1>7, FailsAlone, AnyAlone, Zenon DEF ClaimSlot
<1>8. CASE ResolveSlot(q)
  BY <1>8, FailsAlone, AnyAlone, Zenon DEF ResolveSlot
<1>9. CASE ResolveGateway(q)
  BY <1>9, AnyAlone, Zenon DEF ResolveGateway
<1>10. CASE ClaimCircuit(q)
  BY <1>10, FailsAlone, AnyAlone, Zenon DEF ClaimCircuit
<1>11. CASE Reuse(q)
  BY <1>11, AnyAlone, Zenon DEF Reuse, Answers
<1>12. CASE Rebind(q)
  BY <1>12, FailsAlone, AnyAlone, Zenon DEF Rebind, Answers
<1>13. CASE OpenFails(q)
  BY <1>13, FailsAlone DEF OpenFails
<1>14. CASE Opens(q)
  BY <1>14, FailsAlone DEF Opens, Alone, Shapes
<1>15. CASE Disconnect(q)
  BY <1>15, AnyAlone, Zenon DEF Disconnect
<1>16. CASE RecordDisconnect(q)
  BY <1>16, AnyAlone, Zenon DEF RecordDisconnect
<1> QED
  BY <1>1, <1>2, <1>3, <1>4, <1>5, <1>6, <1>7, <1>8, <1>9, <1>10, <1>11, <1>12, <1>13, <1>14,
     <1>15, <1>16

(* A call leaves its last stage by using its binding again or by another.  *)
LEMMA WhoBinds ==
  ASSUME Shapes, [Next]_vars, NEW o \in Ops, op[o].pc = "bind", op'[o] # op[o]
  PROVE  Reuse(o) \/ Rebind(o)
<1>1. CASE Tick \/ Change \/ UpdateProfile \/ CloseSession \/ UNCHANGED vars
  BY <1>1 DEF Tick, Change, UpdateProfile, CloseSession, vars
<1>2. ASSUME NEW q \in Ops,
             \/ Begin(q) \/ ReadSession(q) \/ ObserveClass(q) \/ Rank(q) \/ Pass(q) \/ Abort(q)
             \/ ClaimSlot(q) \/ ResolveSlot(q) \/ ResolveGateway(q) \/ ClaimCircuit(q)
             \/ Reuse(q) \/ Rebind(q) \/ OpenFails(q) \/ Opens(q) \/ Disconnect(q) \/ RecordDisconnect(q)
      PROVE  Reuse(o) \/ Rebind(o)
  <2>1. q = o
    BY <1>2, StepsAlone DEF Alone
  <2> QED
    BY <1>2, <2>1 DEF Begin, ReadSession, ObserveClass, Rank, Pass, Abort, ClaimSlot, ResolveSlot,
       ResolveGateway, ClaimCircuit, OpenFails, Opens, Disconnect, RecordDisconnect
<1> QED
  BY <1>1, <1>2 DEF Next

(* The save of a binding is the stored one afterwards.                     *)
LEMMA BindsTo ==
  ASSUME SessionInv, NEW o \in Ops, op[o].pc = "bind", op'[o].pc = "open", Reuse(o) \/ Rebind(o)
  PROVE  \/ session'.bound = Resolved(o)
         \/ SameBinding(o) /\ session.version # op[o].read.version
<1> DEFINE s == op[o].read
<1>1. IsSession(s) /\ Before(s, session) /\ IsSession(session)
  BY AtBind
<1>2. CASE Reuse(o)
  <2>1. SameBinding(o)
    BY <1>2 DEF Reuse
  <2>2. CASE Saves(s.version)
    <3>1. PICK updated : session' = [s EXCEPT !.version = @ + 1, !.healthySince = updated]
      BY <1>2, <2>2, Zenon DEF Reuse, saveLogicalSession
    <3>2. session'.bound = s.bound
      BY <3>1, <1>1 DEF IsSession
    <3> QED
      BY <2>1, <3>2 DEF SameBinding
  <2>3. CASE ~Saves(s.version)
    <3>1. session' = session
      BY <1>2, <2>3, Zenon DEF Reuse, saveLogicalSession
    <3> QED
      BY <3>1, <1>1, <2>1 DEF SameBinding, Before
  <2> QED
    BY <2>2, <2>3
<1>3. CASE Rebind(o)
  <2>1. CASE ~LosesRebind(o)
    <3>1. Saves(s.version)
      BY <2>1 DEF LosesRebind
    <3>2. PICK since : session' = [s EXCEPT !.version = @ + 1, !.bound = Resolved(o),
                                            !.healthySince = since]
      BY <1>3, <2>1, <3>1, Zenon DEF Rebind, saveLogicalSession
    <3> QED
      BY <3>2, <1>1 DEF IsSession
  <2>2. CASE LosesRebind(o)
    <3>1. op'[o].pc \in {"start", "failed"}
      <4>1. PICK rec : (rec.pc = "start" \/ rec.pc = "failed") /\ op' = [op EXCEPT ![o] = rec]
        BY <1>3, <2>2 DEF Rebind, Fails, NoEndpoint, Finished, NoOp, SessionInv, Shapes, IsOp
      <4> QED
        BY <4>1, OpAt DEF SessionInv
    <3> QED
      BY <3>1
  <2> QED
    BY <2>1, <2>2
<1> QED
  BY <1>2, <1>3

(* Concurrent connections converge: an endpoint is answered to a client of *)
(* the session only as the stored binding or, when another connection has  *)
(* replaced that since, as the binding the call read.                      *)
THEOREM AnswersConverge == Spec => AnswersAreBound
<1>1. SessionInv /\ [Next]_vars =>
          [\A o \in Ops : op[o].pc = "bind" /\ op'[o].pc = "open" =>
              \/ session'.bound = Resolved(o)
              \/ SameBinding(o) /\ session.version # op[o].read.version]_vars
  <2>1. SUFFICES ASSUME SessionInv, [Next]_vars, NEW o \in Ops, op[o].pc = "bind", op'[o].pc = "open"
                 PROVE  \/ session'.bound = Resolved(o)
                        \/ SameBinding(o) /\ session.version # op[o].read.version
    OBVIOUS
  <2>2. op'[o] # op[o]
    BY <2>1
  <2>3. Reuse(o) \/ Rebind(o)
    BY <2>1, <2>2, WhoBinds DEF SessionInv
  <2> QED
    BY <2>1, <2>3, BindsTo
<1> QED
  BY <1>1, SessionInvariant, PTL DEF Spec, AnswersAreBound

(* A binding that is replaced while it is eligible and was not seen lost   *)
(* is replaced by a probe of the preferred class.                          *)
LEMMA RebindProbes ==
  ASSUME SessionInv, [Next]_vars, NEW o \in Ops, Rebinds(o), BindingCompatible(o, session),
         ~op[o].lost
  PROVE  Probes(o) /\ op[o].read.version = session.version
         /\ op[o].read.healthySince = session.healthySince
<1> DEFINE s == op[o].read
<1>1. op[o].pc = "bind" /\ op'[o] # op[o] /\ session'.bound # session.bound
  BY DEF Rebinds
<1>2. Reuse(o) \/ Rebind(o)
  BY <1>1, WhoBinds DEF SessionInv
<1>3. IsSession(s) /\ Before(s, session) /\ IsSession(session) /\ Managed(o) /\ Own(o)
  BY <1>1, AtBind DEF SessionInv
<1>4. Saves(s.version)
  <2>1. CASE Reuse(o)
    BY <2>1, <1>1, Zenon DEF Reuse, saveLogicalSession
  <2>2. CASE Rebind(o)
    BY <2>2, <1>1, Zenon DEF Rebind, LosesRebind
  <2> QED
    BY <1>2, <2>1, <2>2
<1>5. s.version = session.version /\ s.bound = session.bound /\ s.healthySince = session.healthySince
  BY <1>3, <1>4 DEF Saves, Before
<1>6. ~SameBinding(o)
  <2>1. ASSUME SameBinding(o)
        PROVE  FALSE
    <3>1. Reuse(o)
      BY <1>2, <2>1 DEF Rebind
    <3>2. PICK updated : session' = [s EXCEPT !.version = @ + 1, !.healthySince = updated]
      BY <3>1, <1>4, Zenon DEF Reuse, saveLogicalSession
    <3>3. session'.bound = s.bound
      BY <3>2, <1>3 DEF IsSession
    <3> QED
      BY <3>3, <1>1, <1>5
  <2> QED
    BY <2>1
<1>7. Eligible(op[o], s.bound)
  BY <1>5, EligibleIs
<1>8. Deciding(o)
  BY <1>1, <1>3, <1>7 DEF Deciding, Calling
<1>9. ASSUME Prefers(op[o])
      PROVE  SameBinding(o)
  <2>1. /\ s.bound.provider = Head(op[o].queue) /\ s.bound.endpoint = op[o].endpoint
        /\ s.bound.profile = profileBindingFingerprint(op[o].route)
    BY <1>1, <1>7, <1>9 DEF Prefers, Eligible
  <2>2. s.bound \in [provider : {Mobile, Gateway}, endpoint : {s.bound.endpoint},
                     profile : {s.bound.profile}]
    BY <1>3, <1>7 DEF IsSession, IsBinding, Eligible
  <2> QED
    BY <2>1, <2>2 DEF SameBinding, Resolved
<1> QED
  BY <1>3, <1>5, <1>6, <1>8, <1>9 DEF Own, KeepsOrProbes

(* Sessions are sticky: a binding that is still eligible for the profile   *)
(* is replaced only by a call that saw it unavailable or probes the        *)
(* preferred class; not for load, saturation or a lost race.               *)
THEOREM BindingsStick == Spec => StickyBinding
<1>1. SessionInv /\ [Next]_vars =>
          [\A o \in Ops : Rebinds(o) =>
              \/ ~BindingCompatible(o, session)
              \/ op[o].lost \/ op[o].failback]_vars
  BY RebindProbes DEF Probes
<1> QED
  BY <1>1, SessionInvariant, PTL DEF Spec, StickyBinding

(* A degraded session goes back only after the preferred class was healthy *)
(* for the stabilization period, and never under a connection whose use of *)
(* the binding was stored.                                                 *)
THEOREM FailbackDisturbsNobody == Spec => FailbackIsQuiet
<1>1. SessionInv /\ [Next]_vars =>
          [\A o \in Ops : Rebinds(o) /\ BindingCompatible(o, session) /\ ~op[o].lost =>
              /\ session.healthySince # Undefined /\ Mature(session)
              /\ ~\E q \in Ops : op[q].pc = "connected" /\ op[q].stored]_vars
  BY RebindProbes DEF Probes, Mature, InUse
<1> QED
  BY <1>1, SessionInvariant, PTL DEF Spec, FailbackIsQuiet

-----------------------------------------------------------------------------
(* The ranking: SortedBy sorts, so that rankProviders adds up to its policy.  *)

\* Every set of natural numbers that is not empty has a least member (the intervals that
\* end in it are ordered by inclusion, which is well-founded).
LEMMA LeastExists ==
    ASSUME NEW S \in SUBSET Nat, S # {}
    PROVE  \E x \in S : \A y \in S : x <= y
<1>1. PICK R, F : R = StrictSubsetOrdering(Nat) /\ F = FiniteSubsetsOf(Nat)
  OBVIOUS
<1>2. IsWellFoundedOn(R, F)
  BY <1>1, FS_StrictSubsetOrderingWellFounded
<1>3. PICK T : T = {1 .. x : x \in S}
  OBVIOUS
<1>4. T \subseteq F /\ T # {}
  <2>1. ASSUME NEW x \in S PROVE 1 .. x \in F
    <3>1. IsFiniteSet(1 .. x) /\ 1 .. x \subseteq Nat
      BY FS_Interval
    <3>. QED
      BY <1>1, <3>1 DEF FiniteSubsetsOf
  <2>. QED
    BY <1>3, <2>1
<1>5. PICK t \in T : \A u \in T : ~(<<u, t>> \in R)
  BY <1>2, <1>4, WFMin
<1>6. PICK x \in S : t = 1 .. x
  BY <1>3
<1>7. ASSUME NEW y \in S, y < x PROVE FALSE
  <2>1. 1 .. y \in T /\ 1 .. y \in SUBSET Nat /\ 1 .. x \in SUBSET Nat
    BY <1>3
  <2>2. 1 .. y \subseteq 1 .. x /\ x \in 1 .. x /\ x \notin 1 .. y
    BY <1>7
  <2>3. <<1 .. y, 1 .. x>> \in R
    BY <1>1, <2>1, <2>2 DEF StrictSubsetOrdering
  <2>. QED
    BY <1>5, <1>6, <2>1, <2>3
<1>. QED
  BY <1>7

(* A list in which no later element is before an earlier one, in a relation  *)
(* that has a first element in every set.                                    *)
Sorts(s, S, before) ==
    /\ s \in [1 .. Cardinality(S) -> S]
    /\ \A i, j \in DOMAIN s : i < j => s[i] # s[j] /\ <<s[j], s[i]>> \notin before

\* Every finite set can be sorted: a smallest one that cannot has a first element, and
\* what is left of it can.
LEMMA CanSort ==
    ASSUME NEW S, IsFiniteSet(S), NEW before,
           \A T \in SUBSET S : T # {} => \E m \in T : \A x \in T : <<x, m>> \notin before
    PROVE  \E s : Sorts(s, S, before)
<1> DEFINE Bad == {T \in SUBSET S : ~ \E s : Sorts(s, T, before)}
<1>1. SUFFICES ASSUME Bad # {} PROVE FALSE
  <2>1. S \notin Bad
    BY <1>1
  <2> QED
    BY <2>1
<1>2. \A T \in SUBSET S : IsFiniteSet(T) /\ Cardinality(T) \in Nat
  BY FS_Subset, FS_CardinalityType
<1>3. PICK sizes : sizes = {Cardinality(T) : T \in Bad}
  OBVIOUS
<1>4. sizes \in SUBSET Nat /\ sizes # {}
  BY <1>1, <1>2, <1>3
<1>5. PICK T \in Bad : \A U \in Bad : Cardinality(T) <= Cardinality(U)
  <2>1. PICK n \in sizes : \A k \in sizes : n <= k
    BY <1>4, LeastExists
  <2> QED
    BY <1>3, <2>1
<1>6. T # {}
  <2>1. SUFFICES ASSUME T = {} PROVE FALSE
    OBVIOUS
  <2>2. PICK none : none = [i \in 1 .. 0 |-> {}]
    OBVIOUS
  <2>3. Cardinality({}) = 0
    BY FS_EmptySet
  <2>4. none \in [1 .. 0 -> {}] /\ DOMAIN none = {}
    BY <2>2
  <2>5. Sorts(none, {}, before)
    BY <2>3, <2>4 DEF Sorts
  <2> QED
    BY <2>1, <2>5
<1>7. PICK m \in T : \A x \in T : <<x, m>> \notin before
  BY <1>6
<1>8. PICK n \in Nat : n = Cardinality(T \ {m}) /\ Cardinality(T) = n + 1
  <2>1. Cardinality(T \ {m}) = Cardinality(T) - 1 /\ Cardinality(T \ {m}) \in Nat /\ Cardinality(T) \in Nat
    BY <1>2, <1>7, FS_RemoveElement
  <2> QED
    BY <2>1
<1>9. PICK rest : Sorts(rest, T \ {m}, before)
  <2>1. ~(T \ {m} \in Bad)
    BY <1>2, <1>5, <1>8
  <2> QED
    BY <2>1
<1>10. rest \in [1 .. n -> T \ {m}] /\ \A i, j \in 1 .. n : i < j => rest[i] # rest[j] /\ <<rest[j], rest[i]>> \notin before
  BY <1>8, <1>9 DEF Sorts
<1>11. PICK s : s = [i \in 1 .. n + 1 |-> IF i = 1 THEN m ELSE rest[i - 1]]
  OBVIOUS
<1>12. s \in [1 .. n + 1 -> T]
  <2>1. ASSUME NEW i \in 1 .. n + 1 PROVE s[i] \in T
    <3>1. CASE i = 1
      BY <1>7, <1>11, <3>1
    <3>2. CASE i # 1
      BY <1>10, <1>11, <3>2
    <3> QED
      BY <3>1, <3>2
  <2> QED
    BY <1>11, <2>1
<1>13. ASSUME NEW i \in 1 .. n + 1, NEW j \in 1 .. n + 1, i < j
       PROVE  s[i] # s[j] /\ <<s[j], s[i]>> \notin before
  <2>1. s[j] = rest[j - 1] /\ j - 1 \in 1 .. n /\ rest[j - 1] \in T \ {m}
    BY <1>10, <1>11, <1>13
  <2>2. CASE i = 1
    BY <1>7, <1>11, <2>1, <2>2
  <2>3. CASE i # 1
    <3>1. s[i] = rest[i - 1] /\ i - 1 \in 1 .. n /\ i - 1 < j - 1
      BY <1>11, <1>13, <2>3
    <3> QED
      BY <1>10, <2>1, <3>1
  <2> QED
    BY <2>2, <2>3
<1>14. Sorts(s, T, before)
  BY <1>8, <1>12, <1>13 DEF Sorts
<1> QED
  BY <1>5, <1>14

\* What is sorted has every element once, and a first one before all others.
LEMMA SortedIsAll ==
    ASSUME NEW E, NEW S \in SUBSET E, IsFiniteSet(S), NEW before, NEW s, Sorts(s, S, before)
    PROVE  /\ s \in Seq(E) /\ Len(s) = Cardinality(S) /\ ToSet(s) = S
           /\ S # {} => s[1] \in S /\ \A x \in S \ {s[1]} : <<x, s[1]>> \notin before
<1>1. PICK n \in Nat : n = Cardinality(S)
  BY FS_CardinalityType
<1>2. s \in [1 .. n -> S] /\ DOMAIN s = 1 .. n
  BY <1>1 DEF Sorts
<1>3. s \in Seq(E) /\ Len(s) = n
  <2>1. s \in [1 .. n -> E]
    BY <1>2
  <2> QED
    BY <2>1
<1>4. PICK T : T = {s[i] : i \in 1 .. n}
  OBVIOUS
<1>5. T \in SUBSET S
  BY <1>2, <1>4
<1>6. s \in [1 .. n -> T]
  BY <1>2, <1>4
<1>7. ASSUME NEW i \in 1 .. n, NEW j \in 1 .. n, i # j PROVE s[i] # s[j]
  <2>1. i < j \/ j < i
    BY <1>7
  <2> QED
    BY <1>1, <1>2, <2>1 DEF Sorts
<1>8. s \in Bijection(1 .. n, T)
  BY <1>2, <1>4, <1>6, <1>7 DEF Bijection, Injection, Surjection, IsInjective
<1>9. Cardinality(T) = n
  BY <1>8, FS_CountingElements DEF ExistsBijection
<1>10. T = S
  BY <1>1, <1>5, <1>9, FS_Subset
<1>11. ASSUME S # {} PROVE s[1] \in S /\ \A x \in S \ {s[1]} : <<x, s[1]>> \notin before
  <2>1. n >= 1
    BY <1>4, <1>10, <1>11
  <2>2. ASSUME NEW x \in S, x # s[1] PROVE <<x, s[1]>> \notin before
    <3>1. PICK i \in 1 .. n : s[i] = x
      BY <1>4, <1>10
    <3>2. 1 < i
      BY <2>2, <3>1
    <3> QED
      BY <1>2, <2>1, <3>1, <3>2 DEF Sorts
  <2> QED
    BY <1>2, <2>1, <2>2
<1> QED
  BY <1>1, <1>2, <1>3, <1>4, <1>10, <1>11 DEF ToSet

(* Entries whose loads and identifiers can be compared. *)
Comparable(S) ==
    IsFiniteSet(S) /\ \A e \in S : e.load \in Nat /\ Order[e.id] \in Nat /\ e.saturated \in BOOLEAN

\* KeyLess is the lexicographic order.
LEMMA PairLess ==
    ASSUME NEW a \in Nat, NEW b \in Nat, NEW c \in Nat, NEW d \in Nat
    PROVE  KeyLess(<<a, b>>, <<c, d>>) <=> a < c \/ (a = c /\ b < d)
<1>1. Len(<<a, b>>) = 2 /\ 1 .. 2 = {1, 2} /\ 1 .. (1 - 1) = {} /\ 1 .. (2 - 1) = {1}
  OBVIOUS
<1> QED
  BY <1>1 DEF KeyLess

LEMMA TripleLess ==
    ASSUME NEW a \in Nat, NEW b \in Nat, NEW c \in Nat, NEW d \in Nat, NEW k \in Nat, NEW l \in Nat
    PROVE  KeyLess(<<k, a, b>>, <<l, c, d>>) <=> k < l \/ (k = l /\ (a < c \/ (a = c /\ b < d)))
<1>1. Len(<<k, a, b>>) = 3 /\ 1 .. 3 = {1, 2, 3} /\ 1 .. (1 - 1) = {} /\ 1 .. (2 - 1) = {1} /\ 1 .. (3 - 1) = {1, 2}
  OBVIOUS
<1> QED
  BY <1>1 DEF KeyLess

\* In every set somebody has the least load, and among those the first identifier.
LEMMA LeastLoadExists ==
    ASSUME NEW S, Comparable(S), NEW T \in SUBSET S, T # {}
    PROVE  \E m \in T : \A x \in T : ~KeyLess(ByLoadThenId(x), ByLoadThenId(m))
<1>1. PICK loads : loads = {e.load : e \in T}
  OBVIOUS
<1>2. PICK least \in loads : \A k \in loads : least <= k
  <2>1. loads \in SUBSET Nat /\ loads # {}
    BY <1>1 DEF Comparable
  <2> QED
    BY <2>1, LeastExists
<1>3. PICK U : U = {e \in T : e.load = least}
  OBVIOUS
<1>4. PICK places : places = {Order[e.id] : e \in U}
  OBVIOUS
<1>5. places \in SUBSET Nat /\ places # {}
  BY <1>1, <1>2, <1>3, <1>4 DEF Comparable
<1>6. PICK first \in places : \A k \in places : first <= k
  BY <1>5, LeastExists
<1>7. PICK m \in U : Order[m.id] = first
  BY <1>4, <1>6
<1>8. ASSUME NEW x \in T PROVE ~KeyLess(ByLoadThenId(x), ByLoadThenId(m))
  <2>1. x.load \in Nat /\ m.load \in Nat /\ Order[x.id] \in Nat /\ Order[m.id] \in Nat
    BY <1>3, <1>7 DEF Comparable
  <2>2. m.load = least /\ least <= x.load
    BY <1>1, <1>2, <1>3
  <2>3. x.load = least => Order[m.id] <= Order[x.id]
    BY <1>3, <1>4, <1>6, <1>7
  <2>4. ~(x.load < m.load \/ (x.load = m.load /\ Order[x.id] < Order[m.id]))
    BY <2>1, <2>2, <2>3
  <2> QED
    BY <2>1, <2>4, PairLess DEF ByLoadThenId
<1> QED
  BY <1>3, <1>8

\* The same among those that are not saturated, if there are any.
LEMMA LeastSaturatedExists ==
    ASSUME NEW S, Comparable(S), NEW T \in SUBSET S, T # {}
    PROVE  \E m \in T : \A x \in T : ~KeyLess(BySaturation(x), BySaturation(m))
<1>1. PICK open : open = {e \in T : ~e.saturated}
  OBVIOUS
<1>2. PICK U : U = IF open # {} THEN open ELSE T
  OBVIOUS
<1>3. PICK m \in U : \A x \in U : ~KeyLess(ByLoadThenId(x), ByLoadThenId(m))
  <2>1. U \in SUBSET S /\ U # {}
    BY <1>1, <1>2
  <2> QED
    BY <2>1, LeastLoadExists
<1>4. ASSUME NEW x \in T PROVE ~KeyLess(BySaturation(x), BySaturation(m))
  <2>1. x.load \in Nat /\ m.load \in Nat /\ Order[x.id] \in Nat /\ Order[m.id] \in Nat
        /\ Bit(x.saturated) \in Nat /\ Bit(m.saturated) \in Nat
    BY <1>1, <1>2, <1>3 DEF Comparable, Bit
  <2>2. ~(Bit(x.saturated) < Bit(m.saturated))
    BY <1>1, <1>2, <1>3 DEF Bit
  <2>3. Bit(x.saturated) = Bit(m.saturated) => x \in U
    BY <1>1, <1>2, <1>3 DEF Bit
  <2>4. x \in U => ~(x.load < m.load \/ (x.load = m.load /\ Order[x.id] < Order[m.id]))
    <3>1. x \in U => ~KeyLess(<<x.load, Order[x.id]>>, <<m.load, Order[m.id]>>)
      BY <1>3 DEF ByLoadThenId
    <3> QED
      BY <2>1, <3>1, PairLess
  <2>5. ~KeyLess(<<Bit(x.saturated), x.load, Order[x.id]>>, <<Bit(m.saturated), m.load, Order[m.id]>>)
    <3>1. PICK k \in Nat, l \in Nat : k = Bit(x.saturated) /\ l = Bit(m.saturated)
      BY <2>1
    <3>2. PICK a \in Nat, b \in Nat, c \in Nat, d \in Nat : a = x.load /\ b = Order[x.id] /\ c = m.load /\ d = Order[m.id]
      BY <2>1
    <3>3. ~(k < l \/ (k = l /\ (a < c \/ (a = c /\ b < d))))
      BY <2>2, <2>3, <2>4, <3>1, <3>2
    <3>4. ~KeyLess(<<k, a, b>>, <<l, c, d>>)
      BY <3>3, TripleLess, SMTT(30)
    <3> QED
      BY <3>1, <3>2, <3>4
  <2> QED
    BY <2>5 DEF BySaturation
<1> QED
  BY <1>1, <1>2, <1>3, <1>4

\* What SortedBy chooses: every listed once, the least loaded first.
LEMMA SortedByLoad ==
    ASSUME NEW E, NEW S \in SUBSET E, Comparable(S), NEW s, s = SortedBy(S, ByLoadThenId)
    PROVE  /\ s \in Seq(E) /\ Len(s) = Cardinality(S) /\ ToSet(s) = S
           /\ S # {} => s[1] \in S /\ \A x \in S : ~KeyLess(ByLoadThenId(x), ByLoadThenId(s[1]))
<1> DEFINE P(q) == \A i, j \in DOMAIN q :
              i < j => q[i] # q[j] /\ ~KeyLess(ByLoadThenId(q[j]), ByLoadThenId(q[i]))
<1>1. PICK before : before = {p \in S \X S : KeyLess(ByLoadThenId(p[1]), ByLoadThenId(p[2]))}
  OBVIOUS
<1>2. \A x, y \in S : <<x, y>> \in before <=> KeyLess(ByLoadThenId(x), ByLoadThenId(y))
  BY <1>1
<1>3. \A T \in SUBSET S : T # {} => \E m \in T : \A x \in T : <<x, m>> \notin before
  BY <1>2, LeastLoadExists
<1>4. \A q \in [1 .. Cardinality(S) -> S] : P(q) <=> Sorts(q, S, before)
  BY <1>2 DEF Sorts
<1>5. \E q : Sorts(q, S, before)
  BY <1>3, CanSort DEF Comparable
<1>6. s \in [1 .. Cardinality(S) -> S] /\ P(s)
  <2>1. \E q \in [1 .. Cardinality(S) -> S] : P(q)
    BY <1>4, <1>5 DEF Sorts
  <2>2. s = CHOOSE q \in [1 .. Cardinality(S) -> S] : P(q)
    BY DEF SortedBy
  <2> HIDE DEF P
  <2> QED
    BY <2>1, <2>2
<1>7. Sorts(s, S, before)
  BY <1>4, <1>6
<1>8. /\ s \in Seq(E) /\ Len(s) = Cardinality(S) /\ ToSet(s) = S
      /\ S # {} => s[1] \in S /\ \A x \in S \ {s[1]} : <<x, s[1]>> \notin before
  <2>1. IsFiniteSet(S)
    BY DEF Comparable
  <2> QED
    <3>1. s \in Seq(E) /\ Len(s) = Cardinality(S) /\ ToSet(s) = S
      BY <1>7, SortedIsAll DEF Comparable
    <3>2. S # {} => s[1] \in S /\ \A x \in S \ {s[1]} : <<x, s[1]>> \notin before
      BY <1>7, <2>1, SortedIsAll, Zenon
    <3> QED
      BY <3>1, <3>2
<1>9. ASSUME NEW x \in S PROVE ~KeyLess(ByLoadThenId(x), ByLoadThenId(x))
  <2>1. x.load \in Nat /\ Order[x.id] \in Nat
    BY DEF Comparable
  <2>2. ~KeyLess(<<x.load, Order[x.id]>>, <<x.load, Order[x.id]>>)
    BY <2>1, PairLess
  <2> QED
    BY <2>2 DEF ByLoadThenId
<1> QED
  BY <1>2, <1>8, <1>9

\* The same by saturation first.
LEMMA SortedBySaturation ==
    ASSUME NEW E, NEW S \in SUBSET E, Comparable(S), NEW s, s = SortedBy(S, BySaturation)
    PROVE  s \in Seq(E) /\ Len(s) = Cardinality(S) /\ ToSet(s) = S
<1> DEFINE P(q) == \A i, j \in DOMAIN q :
              i < j => q[i] # q[j] /\ ~KeyLess(BySaturation(q[j]), BySaturation(q[i]))
<1>1. PICK before : before = {p \in S \X S : KeyLess(BySaturation(p[1]), BySaturation(p[2]))}
  OBVIOUS
<1>2. \A x, y \in S : <<x, y>> \in before <=> KeyLess(BySaturation(x), BySaturation(y))
  BY <1>1
<1>3. \A T \in SUBSET S : T # {} => \E m \in T : \A x \in T : <<x, m>> \notin before
  BY <1>2, LeastSaturatedExists
<1>4. \A q \in [1 .. Cardinality(S) -> S] : P(q) <=> Sorts(q, S, before)
  BY <1>2 DEF Sorts
<1>5. \E q : Sorts(q, S, before)
  BY <1>3, CanSort DEF Comparable
<1>6. s \in [1 .. Cardinality(S) -> S] /\ P(s)
  <2>1. \E q \in [1 .. Cardinality(S) -> S] : P(q)
    BY <1>4, <1>5 DEF Sorts
  <2>2. s = CHOOSE q \in [1 .. Cardinality(S) -> S] : P(q)
    BY DEF SortedBy
  <2> HIDE DEF P
  <2> QED
    BY <2>1, <2>2
<1>7. Sorts(s, S, before)
  BY <1>4, <1>6
<1> QED
  BY <1>7, SortedIsAll DEF Comparable

\* Lists one after the other have what each has.
LEMMA Joined ==
    ASSUME NEW S, NEW a \in Seq(S), NEW b \in Seq(S), NEW c, c = a \o b
    PROVE  /\ c \in Seq(S) /\ Len(c) = Len(a) + Len(b)
           /\ \A x : x \in ToSet(c) <=> x \in ToSet(a) \/ x \in ToSet(b)
           /\ Len(a) # 0 => c[1] = a[1]
<1>1. PICK m, n \in Nat : m = Len(a) /\ n = Len(b) /\ DOMAIN a = 1 .. m /\ DOMAIN b = 1 .. n
  OBVIOUS
<1>3. c \in Seq(S) /\ Len(c) = m + n /\ DOMAIN c = 1 .. m + n
  BY <1>1
<1>4. \A i \in 1 .. m + n : c[i] = IF i <= m THEN a[i] ELSE b[i - m]
  BY <1>1
<1>5. ASSUME NEW i \in 1 .. m + n PROVE c[i] \in ToSet(a) \cup ToSet(b)
  <2>1. CASE i <= m
    BY <1>1, <1>4, <2>1 DEF ToSet
  <2>2. CASE ~(i <= m)
    <3>1. i - m \in 1 .. n /\ c[i] = b[i - m]
      BY <1>1, <1>4, <2>2
    <3> QED
      BY <1>1, <3>1 DEF ToSet
  <2> QED
    BY <2>1, <2>2
<1>6. ASSUME NEW i \in 1 .. m PROVE a[i] \in ToSet(c)
  <2>1. i \in 1 .. m + n /\ c[i] = a[i]
    BY <1>1, <1>4
  <2> QED
    BY <1>3, <2>1 DEF ToSet
<1>7. ASSUME NEW i \in 1 .. n PROVE b[i] \in ToSet(c)
  <2>1. m + i \in 1 .. m + n /\ c[m + i] = b[i]
    <3>1. m + i \in 1 .. m + n /\ ~(m + i <= m) /\ (m + i) - m = i
      BY <1>1
    <3> QED
      BY <1>4, <3>1
  <2> QED
    BY <1>3, <2>1 DEF ToSet
<1>8. ToSet(c) = ToSet(a) \cup ToSet(b)
  <2>1. ToSet(c) \subseteq ToSet(a) \cup ToSet(b)
    BY <1>3, <1>5 DEF ToSet
  <2>2. ToSet(a) \subseteq ToSet(c)
    BY <1>1, <1>6 DEF ToSet
  <2>3. ToSet(b) \subseteq ToSet(c)
    BY <1>1, <1>7 DEF ToSet
  <2> QED
    BY <2>1, <2>2, <2>3
<1>9. m # 0 => c[1] = a[1]
  BY <1>1, <1>4
<1> QED
  BY <1>1, <1>3, <1>8, <1>9

(* Distinct parts of a set have its size together. *)
LEMMA PartsAddUp ==
    ASSUME NEW S, IsFiniteSet(S), NEW T \in SUBSET S
    PROVE  IsFiniteSet(T) /\ IsFiniteSet(S \ T) /\ Cardinality(T) + Cardinality(S \ T) = Cardinality(S)
           /\ Cardinality(T) \in Nat /\ Cardinality(S \ T) \in Nat
<1>1. IsFiniteSet(T) /\ IsFiniteSet(S \ T)
  <2>1. S \ T \in SUBSET S
    OBVIOUS
  <2> QED
    BY <2>1, FS_Subset
<1>2. T \cup (S \ T) = S /\ T \cap (S \ T) = {}
  OBVIOUS
<1>3. Cardinality(S) = Cardinality(T) + Cardinality(S \ T) - Cardinality({})
  BY <1>1, <1>2, FS_Union
<1> QED
  BY <1>1, <1>3, FS_EmptySet, FS_CardinalityType

\* The list of a ranking: all entries, the first the least loaded of a set.
Leads(order, S, pool) ==
    /\ Len(order) = Cardinality(S) /\ ToSet(order) = S
    /\ S # {} => /\ order[1] \in pool
                 /\ \A e \in pool : ~KeyLess(ByLoadThenId(e), ByLoadThenId(order[1]))

\* A part of what can be compared can be compared.
LEMMA PartComparable ==
    ASSUME NEW S, Comparable(S), NEW T \in SUBSET S
    PROVE  Comparable(T)
BY FS_Subset DEF Comparable

\* Stateless traffic that overflows: the free fallbacks come first.
LEMMA OverflowLeads ==
    ASSUME NEW S, Comparable(S), NEW preferred \in SUBSET S, NEW fallback, fallback = S \ preferred,
           NEW free \in SUBSET fallback, free # {}, NEW rest, rest = fallback \ free,
           NEW order, order = SortedBy(free, ByLoadThenId) \o SortedBy(preferred, ByLoadThenId)
                              \o SortedBy(rest, ByLoadThenId)
    PROVE  Leads(order, S, free)
<1>1. PICK a, b, c : /\ a = SortedBy(free, ByLoadThenId) /\ b = SortedBy(preferred, ByLoadThenId)
                     /\ c = SortedBy(rest, ByLoadThenId)
  OBVIOUS
<1>2. /\ free \in SUBSET S /\ fallback \in SUBSET S /\ rest \in SUBSET S
      /\ Comparable(free) /\ Comparable(preferred) /\ Comparable(fallback) /\ Comparable(rest)
  <2>1. free \in SUBSET S /\ fallback \in SUBSET S /\ rest \in SUBSET S
    OBVIOUS
  <2> QED
    BY <2>1, PartComparable
<1>3. /\ a \in Seq(S) /\ Len(a) = Cardinality(free) /\ ToSet(a) = free
      /\ a[1] \in free /\ \A x \in free : ~KeyLess(ByLoadThenId(x), ByLoadThenId(a[1]))
  BY <1>1, <1>2, SortedByLoad
<1>4. b \in Seq(S) /\ Len(b) = Cardinality(preferred) /\ ToSet(b) = preferred
  BY <1>1, <1>2, SortedByLoad
<1>5. c \in Seq(S) /\ Len(c) = Cardinality(rest) /\ ToSet(c) = rest
  BY <1>1, <1>2, SortedByLoad
<1>6. /\ Cardinality(preferred) + Cardinality(fallback) = Cardinality(S)
      /\ Cardinality(free) + Cardinality(rest) = Cardinality(fallback)
      /\ Cardinality(preferred) \in Nat /\ Cardinality(free) \in Nat /\ Cardinality(rest) \in Nat
      /\ Cardinality(fallback) \in Nat
  <2>1. IsFiniteSet(S) /\ IsFiniteSet(fallback)
    BY <1>2 DEF Comparable
  <2> QED
    BY <2>1, PartsAddUp
<1>7. Len(a) # 0
  <2>1. SUFFICES ASSUME Len(a) = 0 PROVE FALSE
    OBVIOUS
  <2>2. DOMAIN a = 1 .. 0
    BY <1>3, <2>1
  <2>3. ToSet(a) = {}
    BY <2>2 DEF ToSet
  <2> QED
    BY <1>3, <2>3
<1>8. PICK d : d = a \o b
  OBVIOUS
<1>9. /\ d \in Seq(S) /\ Len(d) = Len(a) + Len(b) /\ ToSet(d) = free \cup preferred /\ d[1] = a[1]
  <2>1. d \in Seq(S) /\ Len(d) = Len(a) + Len(b)
    BY <1>3, <1>4, <1>8, Joined
  <2>2. ToSet(d) = ToSet(a) \cup ToSet(b)
    BY <1>3, <1>4, <1>8, Joined, Zenon
  <2>3. Len(a) # 0 => d[1] = a[1]
    BY <1>3, <1>4, <1>8, Joined
  <2> QED
    BY <1>3, <1>4, <1>7, <2>1, <2>2, <2>3
<1>10. order = d \o c \/ order = a \o (b \o c)
  BY <1>1, <1>8
<1>11. order = d \o c
  <2>1. PICK t : t = b \o c
    OBVIOUS
  <2>2. a \o t = d \o c
    BY <1>3, <1>4, <1>5, <1>8, <2>1
  <2> QED
    BY <1>10, <2>1, <2>2
<1>12. Len(order) = Len(d) + Len(c) /\ ToSet(order) = (free \cup preferred) \cup rest /\ order[1] = a[1]
  <2>1. Len(d) # 0
    BY <1>3, <1>4, <1>6, <1>7, <1>9
  <2>2. Len(order) = Len(d) + Len(c)
    BY <1>5, <1>9, <1>11, Joined
  <2>3. ToSet(order) = ToSet(d) \cup ToSet(c)
    BY <1>5, <1>9, <1>11, Joined, Zenon
  <2>4. Len(d) # 0 => order[1] = d[1]
    BY <1>5, <1>9, <1>11, Joined
  <2> QED
    BY <1>5, <1>9, <2>1, <2>2, <2>3, <2>4
<1>13. Len(order) = Cardinality(S)
  BY <1>3, <1>4, <1>5, <1>6, <1>9, <1>12
<1>14. ToSet(order) = S
  BY <1>12
<1> QED
  BY <1>3, <1>12, <1>13, <1>14 DEF Leads

\* Otherwise the least loaded of the primary tier, and then the rest of it.
LEMMA PrimaryLeads ==
    ASSUME NEW S, Comparable(S), NEW primary \in SUBSET S, primary # {},
           NEW pool, pool = IF {e \in primary : ~e.saturated} # {} THEN {e \in primary : ~e.saturated} ELSE primary,
           NEW first, first = LeastLoaded(primary), NEW next, next = primary \ {first},
           NEW last, last = S \ primary,
           NEW order, order = <<first>> \o SortedBy(next, BySaturation) \o SortedBy(last, BySaturation)
    PROVE  Leads(order, S, pool)
<1>1. PICK a, b, c : a = <<first>> /\ b = SortedBy(next, BySaturation) /\ c = SortedBy(last, BySaturation)
  OBVIOUS
<1>2. /\ next \in SUBSET S /\ last \in SUBSET S /\ pool \in SUBSET S
      /\ Comparable(primary) /\ Comparable(pool) /\ Comparable(last) /\ Comparable(next)
  <2>1. next \in SUBSET S /\ last \in SUBSET S /\ pool \in SUBSET S
    OBVIOUS
  <2> QED
    BY <2>1, PartComparable
<1>3. pool # {} /\ pool \in SUBSET primary
  OBVIOUS
<1>4. first \in pool /\ \A x \in pool : ~KeyLess(ByLoadThenId(x), ByLoadThenId(first))
  <2>1. PICK s : s = SortedBy(pool, ByLoadThenId)
    OBVIOUS
  <2>2. first = s[1]
    BY <2>1 DEF LeastLoaded
  <2>3. s[1] \in pool /\ \A x \in pool : ~KeyLess(ByLoadThenId(x), ByLoadThenId(s[1]))
    BY <1>2, <1>3, <2>1, SortedByLoad
  <2> QED
    BY <2>2, <2>3
<1>5. first \in S /\ first \in primary
  BY <1>3, <1>4
<1>6. a \in Seq(S) /\ Len(a) = 1 /\ ToSet(a) = {first} /\ a[1] = first
  <2>1. a \in Seq(S) /\ Len(a) = 1 /\ a[1] = first /\ DOMAIN a = {1}
    BY <1>1, <1>5
  <2> QED
    BY <2>1 DEF ToSet
<1>7. b \in Seq(S) /\ Len(b) = Cardinality(next) /\ ToSet(b) = next
  BY <1>1, <1>2, SortedBySaturation
<1>8. c \in Seq(S) /\ Len(c) = Cardinality(last) /\ ToSet(c) = last
  BY <1>1, <1>2, SortedBySaturation
<1>9. /\ Cardinality(primary) + Cardinality(last) = Cardinality(S)
      /\ Cardinality(next) = Cardinality(primary) - 1
      /\ Cardinality(primary) \in Nat /\ Cardinality(last) \in Nat /\ Cardinality(next) \in Nat
  <2>1. IsFiniteSet(S) /\ IsFiniteSet(primary) /\ IsFiniteSet(next)
    BY <1>2 DEF Comparable
  <2> QED
    BY <2>1, <1>5, PartsAddUp, FS_RemoveElement, FS_CardinalityType
<1>10. PICK d : d = a \o b
  OBVIOUS
<1>11. d \in Seq(S) /\ Len(d) = Len(a) + Len(b) /\ ToSet(d) = {first} \cup next /\ d[1] = first
  <2>1. d \in Seq(S) /\ Len(d) = Len(a) + Len(b)
    BY <1>6, <1>7, <1>10, Joined
  <2>2. ToSet(d) = ToSet(a) \cup ToSet(b)
    <3>1. a \in Seq(S) /\ b \in Seq(S)
      BY <1>6, <1>7
    <3> QED
      BY <1>10, <3>1, Joined, Zenon
  <2>3. Len(a) # 0 => d[1] = a[1]
    BY <1>6, <1>7, <1>10, Joined
  <2> QED
    BY <1>6, <1>7, <2>1, <2>2, <2>3
<1>12. order = d \o c
  <2>1. order = d \o c \/ order = a \o (b \o c)
    BY <1>1, <1>10
  <2>2. PICK t : t = b \o c
    OBVIOUS
  <2>3. a \o t = d \o c
    BY <1>6, <1>7, <1>8, <1>10, <2>2
  <2> QED
    BY <2>1, <2>2, <2>3
<1>13. Len(order) = Len(d) + Len(c) /\ order[1] = first
       /\ ToSet(order) = ({first} \cup next) \cup last
  <2>1. Len(d) # 0
    BY <1>6, <1>7, <1>9, <1>11
  <2>2. Len(order) = Len(d) + Len(c)
    <3>1. d \in Seq(S) /\ c \in Seq(S)
      BY <1>8, <1>11
    <3> QED
      BY ONLY <1>12, <3>1, Joined
  <2>3. ToSet(order) = ToSet(d) \cup ToSet(c)
    <3>1. d \in Seq(S) /\ c \in Seq(S)
      BY <1>8, <1>11
    <3> QED
      BY <1>12, <3>1, Joined, Zenon
  <2>4. Len(d) # 0 => order[1] = d[1]
    <3>1. d \in Seq(S) /\ c \in Seq(S)
      BY <1>8, <1>11
    <3> QED
      BY ONLY <1>12, <3>1, Joined
  <2> QED
    BY <1>8, <1>11, <2>1, <2>2, <2>3, <2>4
<1>14. Len(order) = Cardinality(S)
  BY <1>6, <1>7, <1>8, <1>9, <1>11, <1>13
<1>15. ToSet(order) = S
  BY <1>5, <1>13
<1> QED
  BY <1>4, <1>13, <1>14, <1>15 DEF Leads

\* The cases of rankProviders, for an operation without a provider, are the policy.
LEMMA RankingFollowsPolicy ==
    ASSUME NEW S, Comparable(S), NEW attempts, NEW mode,
           \A e \in S : e.id # Undefined,
           NEW order, order = rankProviders(S, mode, Undefined, attempts),
           NEW tier, tier = ApplicableTier(S, mode),
           NEW pool, pool = IF {e \in tier : ~e.saturated} # {} THEN {e \in tier : ~e.saturated} ELSE tier
    PROVE  Leads(order, S, pool)
<1>1. PICK preferred : preferred = {e \in S : e.class = preferredProviderClass(mode)}
  OBVIOUS
<1>2. PICK fallback : fallback = S \ preferred
  OBVIOUS
<1>3. PICK free : free = {e \in fallback : ~e.saturated}
  OBVIOUS
<1>4. PICK primary : primary = IF preferred # {} THEN preferred ELSE S
  OBVIOUS
<1>5. {e \in S : e.id = Undefined} = {}
  OBVIOUS
<1>6. CASE Promotes(mode, preferred, fallback)
  <2>1. order = SortedBy(free, ByLoadThenId) \o SortedBy(preferred, ByLoadThenId) \o SortedBy(fallback \ free, ByLoadThenId)
    BY <1>1, <1>2, <1>3, <1>5, <1>6 DEF rankProviders
  <2>2. free # {} /\ tier = free /\ pool = free
    BY <1>1, <1>2, <1>3, <1>6 DEF Promotes, ApplicableTier
  <2>3. preferred \in SUBSET S /\ free \in SUBSET fallback
    BY <1>1, <1>3
  <2>4. PICK rest : rest = fallback \ free
    OBVIOUS
  <2> QED
    BY <1>2, <2>1, <2>2, <2>3, <2>4, OverflowLeads
<1>7. CASE ~Promotes(mode, preferred, fallback) /\ S = {}
  <2>1. order = <<>>
    BY <1>1, <1>2, <1>5, <1>7 DEF rankProviders
  <2>2. Len(order) = 0 /\ DOMAIN order = {}
    BY <2>1
  <2> QED
    BY <1>7, <2>2, FS_EmptySet DEF Leads, ToSet
<1>8. CASE ~Promotes(mode, preferred, fallback) /\ S # {}
  <2>1. PICK first : first = LeastLoaded(primary)
    OBVIOUS
  <2>2. PICK next, last : next = primary \ {first} /\ last = S \ primary
    OBVIOUS
  <2>3. order = <<first>> \o SortedBy(next, BySaturation) \o SortedBy(last, BySaturation)
    BY <1>1, <1>2, <1>4, <1>5, <1>8, <2>1, <2>2 DEF rankProviders
  <2>4. tier = primary /\ primary \in SUBSET S /\ primary # {}
    BY <1>1, <1>2, <1>4, <1>8 DEF Promotes, ApplicableTier
  <2>5. pool = IF {e \in primary : ~e.saturated} # {} THEN {e \in primary : ~e.saturated} ELSE primary
    BY <2>4
  <2> QED
    BY <2>1, <2>2, <2>3, <2>4, <2>5, PrimaryLeads
<1> QED
  BY <1>6, <1>7, <1>8

\* The entries of a ranking have loads and identifiers that can be compared.
LEMMA EntriesComparable ==
    ASSUME NEW f \in Rankings
    PROVE  Comparable(Entries(f)) /\ \A e \in Entries(f) : e.id # Undefined
<1>1. PICK ids \in SUBSET RankedIds : f \in [ids -> [class : Classes, load : RankedLoads, saturated : BOOLEAN]]
  BY DEF Rankings
<1>2. PICK listed : listed = [i \in ids |-> [id |-> i, class |-> f[i].class, load |-> f[i].load, saturated |-> f[i].saturated]]
  OBVIOUS
<1>3. PICK S : S = Entries(f)
  OBVIOUS
<1>4. listed \in Surjection(ids, S)
  BY <1>1, <1>2, <1>3 DEF Entries, Surjection
<1>5. IsFiniteSet(ids)
  BY RankingConstants, FS_Subset
<1>6. IsFiniteSet(S)
  BY <1>4, <1>5, FS_Surjection DEF ExistsSurjection
<1>7. ASSUME NEW e \in S
      PROVE  e.load \in Nat /\ Order[e.id] \in Nat /\ e.saturated \in BOOLEAN /\ e.id # Undefined
  <2>1. PICK i \in ids : e = [id |-> i, class |-> f[i].class, load |-> f[i].load, saturated |-> f[i].saturated]
    BY <1>1, <1>3 DEF Entries
  <2>2. f[i] \in [class : Classes, load : RankedLoads, saturated : BOOLEAN] /\ i \in RankedIds
    BY <1>1
  <2> QED
    BY <2>1, <2>2, RankingConstants
<1> QED
  BY <1>3, <1>6, <1>7 DEF Comparable

(* Whatever providers there are, with whatever loads and saturation: rankProviders tries   *)
(* the least loaded of the applicable tier first, and leaves every provider an option.     *)
THEOREM RankingIsPolicy == Spec => []PlacementFollowsPolicy
<1>1. PlacementFollowsPolicy
  <2>1. ASSUME NEW f \in Rankings, NEW mode \in {"managed", "stateless"},
               NEW order, order = rankProviders(Entries(f), mode, Undefined, [i \in RankedIds |-> 0]),
               NEW tier, tier = ApplicableTier(Entries(f), mode),
               NEW pool, pool = IF {e \in tier : ~e.saturated} # {} THEN {e \in tier : ~e.saturated} ELSE tier
        PROVE  Leads(order, Entries(f), pool)
    BY <2>1, EntriesComparable, RankingFollowsPolicy
  <2> QED
    BY <2>1 DEF PlacementFollowsPolicy, Leads
<1> QED
  BY <1>1, PTL

===============================================================================
