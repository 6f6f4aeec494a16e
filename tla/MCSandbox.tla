------------------------------ MODULE MCSandbox ------------------------------
(***************************************************************************)
(* An instance of Sandbox for TLC.                                         *)
(***************************************************************************)
EXTENDS Sandbox, TLC

\* Callers are interchangeable, and so are container ids.
Symmetry == Permutations(Callers) \cup Permutations(Ids)
=============================================================================
