------------------------------ MODULE MCDrivers ------------------------------
(***************************************************************************)
(* VpnDrivers with a few process ids for TLC.                              *)
(***************************************************************************)
EXTENDS VpnDrivers, TLC

\* Process ids are interchangeable in the safety properties.
Symmetry == Permutations(Pids)
=============================================================================
