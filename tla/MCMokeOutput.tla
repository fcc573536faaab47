---------------------------- MODULE MCMokeOutput ----------------------------
(***************************************************************************)
(* Instances of MokeOutput for TLC: the coil output, which can only start  *)
(* within its envelope, and a test output, which may recover into it.      *)
(***************************************************************************)
EXTENDS MokeOutput

CONSTANTS coil, probe

TwoOutputs == <<coil, probe>>
Lowest  == [c \in {coil, probe} |-> IF c = coil THEN 0 ELSE -1]
Highest == [c \in {coil, probe} |-> IF c = coil THEN 2 ELSE 1]
=============================================================================
