---------------------------- MODULE MCKillSwitch ----------------------------
(***************************************************************************)
(* KillSwitch with values for TLC: two connections of one session, which   *)
(* share its grant and profile, and two concurrent control-plane requests, *)
(* one of which closes the session routinely while the other one makes any *)
(* of the operations that end connections, or deletes the profile.  The    *)
(* routine revocation of a grant is a part of that deletion.               *)
(***************************************************************************)
EXTENDS KillSwitch, TLC

CONSTANTS route, grant, s1, c1, c2, a1, a2

OneGrant == <<grant>>
OneSession == grant :> <<s1>>
SharedSession == c1 :> {route, grant, s1} @@ c2 :> {route, grant, s1}
EndsAndCloses ==
    a1 :> {"force_close", "force_revoke_grant", "delete", "emergency_revoke"} @@ a2 :> {"close"}
============================================================================
