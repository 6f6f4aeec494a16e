------------------------- MODULE MCSessionCreation --------------------------
(***************************************************************************)
(* An instance of SessionCreation for TLC.                                 *)
(***************************************************************************)
EXTENDS SessionCreation
=============================================================================
