--------------------------- MODULE MCRecipeRunner ---------------------------
(***************************************************************************)
(* Instances of RecipeRunner for TLC: the outputs of one or two            *)
(* instruments and the shapes of plan the compiler produces.               *)
(***************************************************************************)
EXTENDS RecipeRunner, TLC

CONSTANTS A, B, R,              \* keithley.A, keithley.B and rigol.1
          keithley, rigol

step(kind, out)    == [kind |-> kind, out |-> out, finally |-> FALSE,
                       completionOnly |-> FALSE, faultOnly |-> FALSE,
                       retains |-> FALSE]
cleanup_off(out)   == [step("off", out) EXCEPT !.finally = TRUE]
fault_off(out)     == [cleanup_off(out) EXCEPT !.faultOnly = TRUE]
final(kind, out)   == [step(kind, out) EXCEPT !.finally = TRUE,
                                              !.completionOnly = TRUE]
hold(out)          == [final("assert", out) EXCEPT !.retains = TRUE]

\* Points in the dark, one with the output on, and one in the dark again.
Pulsed == <<step("configure", A), step("acquire", NoOutput),
            step("acquire", NoOutput), step("on", A), step("acquire", NoOutput),
            step("wait", NoOutput), step("off", A), step("acquire", NoOutput),
            cleanup_off(A)>>

\* A measurement whose compliance may end the run.
Measured == <<step("configure", A), step("on", A), step("measure", A),
              step("wait", NoOutput), step("acquire", NoOutput),
              cleanup_off(A)>>

\* Two channels, one retained; the other instrument is switched off.
Mixed == <<step("on", A), step("on", R), step("acquire", NoOutput),
           cleanup_off(R), fault_off(A), final("update", A), hold(A)>>

DeviceOfAll == (A :> keithley) @@ (B :> keithley) @@ (R :> rigol)
DeviceOfOne == (A :> keithley)

PulsedPlan == {Pulsed}
TwoPlans  == {Measured, Mixed}
=============================================================================
