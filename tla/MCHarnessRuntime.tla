-------------------------- MODULE MCHarnessRuntime --------------------------
(***************************************************************************)
(* Instances of HarnessRuntime for TLC.                                    *)
(***************************************************************************)
EXTENDS HarnessRuntime
=============================================================================
