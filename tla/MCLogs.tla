-------------------------------- MODULE MCLogs --------------------------------
(***************************************************************************)
(* LogService with a few entries and filters for TLC.                      *)
(***************************************************************************)
EXTENDS LogService, TLC

MCFilters == {[kind |-> All, order |-> "DESC"], [kind |-> "k1", order |-> "ASC"]}
MCKindOf == [e \in 1..MaxWrites |-> IF e = 1 THEN "k1" ELSE "k2"]
=============================================================================
