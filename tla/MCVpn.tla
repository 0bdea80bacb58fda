------------------------------- MODULE MCVpn -------------------------------
(***************************************************************************)
(* VpnManager with small sets of requests for TLC.                         *)
(***************************************************************************)
EXTENDS VpnManager, TLC
=============================================================================
