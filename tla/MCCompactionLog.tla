--------------------------- MODULE MCCompactionLog --------------------------
(***************************************************************************)
(* Instances of CompactionLog for TLC.                                     *)
(***************************************************************************)
EXTENDS CompactionLog, TLC

\* Runs of the harness are interchangeable.
Symmetry == Permutations(Harnesses)
=============================================================================
