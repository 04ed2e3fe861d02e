--------------------------- MODULE GrantLifecycle ---------------------------
(***************************************************************************)
(* What the store promises about the credentials of an access grant,       *)
(* whatever the requests that administer it: a credential is issued once,  *)
(* lives until a deadline that only a rotation may move, and never lives   *)
(* again once it ended.                                                    *)
(*                                                                         *)
(* These are the operations of InMemoryRouteStore, taken as atomic, except *)
(* that the DynamoDB store also rotates a credential that has ended, which *)
(* the other one refuses.  Revoking a grant, deleting a route and closing  *)
(* a session all end credentials.  `raced` marks the first lost update of  *)
(* an implementation; nothing is promised after it.                        *)
(***************************************************************************)
EXTENDS Integers, FiniteSets

CONSTANTS
    Credentials,  \* credential ids
    Lifetime,     \* ACCESS_GRANT_CREDENTIAL_LIFETIME_MS
    Overlap       \* ACCESS_GRANT_CREDENTIAL_OVERLAP_MS

VARIABLES
    now,
    credential,   \* credential[c]: its phase, and the deadlines while it lives
    raced

vars == <<now, credential, raced>>

Unissued == [phase |-> "unissued", until |-> 0, expiresAt |-> 0]
Ended == [phase |-> "ended", until |-> 0, expiresAt |-> 0]
Living(until, expiresAt) == [phase |-> "live", until |-> until, expiresAt |-> expiresAt]

Live(c) == credential[c].phase = "live"

Init ==
    /\ now = 0
    /\ credential = [c \in Credentials |-> Unissued]
    /\ raced = FALSE

Overlapping(expiresAt, at) ==
    Living(IF expiresAt < at + Overlap THEN expiresAt ELSE at + Overlap, expiresAt)

(* A credential is dated by the request that issues it, so its lifetime    *)
(* may have begun a little earlier.                                        *)
Issued(at) == Living(at + Lifetime, at + Lifetime)

(* createAccessGrant, addAccessGrantCredential, and the rotation of a      *)
(* credential that had already ended.  A grant whose route was revoked     *)
(* meanwhile is stored with a credential that never lives.                 *)
Issue(c) ==
    /\ credential[c] = Unissued
    /\ \E at \in 0..now : credential' \in {[credential EXCEPT ![c] = Issued(at)],
                                           [credential EXCEPT ![c] = Ended]}
    /\ UNCHANGED <<now, raced>>

(* rotateAccessGrantCredential: the credential p is replaced by c and ends *)
(* now, or lives on for the overlap at most and never beyond its expiry.   *)
Rotate(p, c) ==
    /\ p # c /\ Live(p) /\ credential[c] = Unissued
    /\ \E at \in 0..now :
          /\ credential[p].until > at
          /\ \E replaced \in {Ended, Overlapping(credential[p].expiresAt, at)} :
                credential' = [credential EXCEPT ![p] = replaced, ![c] = Issued(at)]
    /\ UNCHANGED <<now, raced>>

(* revokeAccessGrantCredential, revokeAccessGrant, closeLogicalSession and *)
(* revoke end some of the living credentials.                              *)
End(ending) ==
    /\ ending # {} /\ \A c \in ending : Live(c)
    /\ credential' = [c \in Credentials |-> IF c \in ending THEN Ended ELSE credential[c]]
    /\ UNCHANGED <<now, raced>>

Tick == now' = now + 1 /\ UNCHANGED <<credential, raced>>

Next ==
    \/ \E c \in Credentials : Issue(c)
    \/ \E p, c \in Credentials : Rotate(p, c)
    \/ \E ending \in SUBSET Credentials : End(ending)
    \/ Tick

Spec == Init /\ [][Next \/ raced']_vars

=============================================================================
