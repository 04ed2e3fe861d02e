---------------------------- MODULE MCHealthAlerts ----------------------------
(* Instances of HealthAlerts for TLC.                                        *)
EXTENDS HealthAlerts

CONSTANTS r1, r2, d1, d2
=============================================================================
