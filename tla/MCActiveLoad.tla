---------------------------- MODULE MCActiveLoad ----------------------------
(* ActiveLoad with values for TLC.  In the code a heartbeat is due after 30 s *)
(* and the lease lasts 120 s; one heartbeat in a row may be lost here.          *)
EXTENDS ActiveLoad, TLC

CONSTANTS t1, t2

TunnelSymmetry == Permutations(Tunnels)
============================================================================
