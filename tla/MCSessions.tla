----------------------------- MODULE MCSessions -----------------------------
(***************************************************************************)
(* AdminSessions with small sets of browsers and names for TLC.            *)
(***************************************************************************)
EXTENDS AdminSessions, TLC
=============================================================================
