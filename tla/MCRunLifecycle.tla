--------------------------- MODULE MCRunLifecycle ---------------------------
(***************************************************************************)
(* The instance of RunLifecycle for TLC: a run that borrows the Keithley   *)
(* from its page and owns the MOKE box, at a station with an Anritsu, which*)
(* the plan does not use.                                                  *)
(***************************************************************************)
EXTENDS RunLifecycle

CONSTANTS keithley, moke, anritsu
=============================================================================
