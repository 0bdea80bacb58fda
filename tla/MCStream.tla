------------------------------ MODULE MCStream ------------------------------
(***************************************************************************)
(* StreamManager with small sets of requests for TLC.                      *)
(***************************************************************************)
EXTENDS StreamManager, TLC

\* Requests are interchangeable in the safety properties.
Symmetry == Permutations(Requests)
=============================================================================
