---------------------------- MODULE MCElabUpload ----------------------------
(***************************************************************************)
(* Instances of ElabUpload for TLC.                                        *)
(***************************************************************************)
EXTENDS ElabUpload

\* A profile that attaches the HDF5 file alone, and the default one.
BothProfiles == {{"hdf5"}, {"hdf5", "csv"}}
=============================================================================
