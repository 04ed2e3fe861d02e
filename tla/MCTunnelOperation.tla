-------------------------- MODULE MCTunnelOperation --------------------------
(* TunnelOperation for TLC.  The code's 10 s for an attempt and 30 s for an   *)
(* operation keep their order; a third attempt runs out of the operation's.   *)
EXTENDS TunnelOperation
=============================================================================
