-------------------------- MODULE MCSessionService --------------------------
(***************************************************************************)
(* An instance of SessionService for TLC: the constants are in the         *)
(* configuration.  No symmetry, as it checks liveness.                     *)
(***************************************************************************)
EXTENDS SessionService
=============================================================================
