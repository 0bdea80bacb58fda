------------------------------ MODULE MCCache ------------------------------
(***************************************************************************)
(* CacheManager with small sets of workers and readers for TLC.            *)
(***************************************************************************)
EXTENDS CacheManager, TLC

\* Workers and readers are interchangeable in the safety properties.
Symmetry == Permutations(Workers) \cup Permutations(Readers)
=============================================================================
