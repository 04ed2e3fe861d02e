------------------------- MODULE MCHealthAggregation -------------------------
(***************************************************************************)
(* Instance of HealthAggregation: one provider of each class, two          *)
(* geographies that traffic is seen in and validations are asked for, two  *)
(* refreshes that overlap, one canary.  A minute, the life of a challenge  *)
(* and the cooldown are one tick long; evidence is recent in the tick it   *)
(* was observed.                                                           *)
(***************************************************************************)
EXTENDS HealthAggregation, TLC

CONSTANTS d1, r1, us, de, r_1, r_2, c1

MCProviders == {d1, r1}
MCClassOf == [p \in MCProviders |-> IF p = d1 THEN "device_backed" ELSE "residential"]
MCGeographies == {us, de}
MCReports == {[p \in MCProviders |-> IF p = d1 THEN "healthy" ELSE "unhealthy"]}
MCSignals == {[provider |-> d1, capability |-> "managed_sessions", geography |-> g, outcome |-> o] :
              g \in MCGeographies, o \in {"success", "failure"}}
MCRefreshes == {r_1, r_2}
MCScopes == MCGeographies
MCCanaries == {c1}
Symmetry == Permutations(MCRefreshes) \cup Permutations(MCGeographies)
===============================================================================
