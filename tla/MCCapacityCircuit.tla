------------------------- MODULE MCCapacityCircuit -------------------------
(* CapacityCircuit with values for TLC.  Ticks keep the order of the code's  *)
(* durations: attempt (10 s) < probe lease (30 s) < base cooldown (60 s) <   *)
(* max cooldown (15 min), lock wait (5 s) <= lock lease (10 s).             *)
EXTENDS CapacityCircuit, TLC

CONSTANTS w1, w2

WorkerSymmetry == Permutations(Workers)
============================================================================
