------------------------- MODULE MCInstrumentAccess -------------------------
(***************************************************************************)
(* The instance of InstrumentAccess for TLC: two callers, named in         *)
(* Access.cfg.  They are interchangeable, but symmetry is not sound for    *)
(* the liveness property the run checks with the invariants.               *)
(***************************************************************************)
EXTENDS InstrumentAccess
=============================================================================
