------------------------------ MODULE MCSdkSync -------------------------------
(***************************************************************************)
(* An instance of SdkSync for TLC: the constants are in the configuration. *)
(***************************************************************************)
EXTENDS SdkSync
==============================================================================
