-------------------------- MODULE MCRecipeCompiler --------------------------
(***************************************************************************)
(* Instances of RecipeCompiler for TLC.  The channels are interchangeable. *)
(***************************************************************************)
EXTENDS RecipeCompiler

\* An axis of two values, and one whose values settle to the same setpoint.
TwoAxes == {<<1, 2>>, <<2, 2>>}

\* An empty recipe, and one that begins with its instruments prepared.
Prepared == {[i \in 1..0 |-> Block]} \cup
    {<<Op("configure", a, 3), Op("on", a, Unset)>> \o
        (IF a = b THEN <<>> ELSE <<Op("configure", b, 3)>>) : a, b \in Channels}

Symmetry == Permutations(Channels)
=============================================================================
