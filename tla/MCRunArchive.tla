---------------------------- MODULE MCRunArchive ----------------------------
(***************************************************************************)
(* Instances of RunArchive for TLC.                                        *)
(***************************************************************************)
EXTENDS RunArchive

\* A second reference is acquired before a point that does not use it.
TwoReferences == <<"reference", "corrected", "reference", "raw", "corrected">>
=============================================================================
