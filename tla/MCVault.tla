------------------------------- MODULE MCVault ------------------------------
(***************************************************************************)
(* Instances of Vault for TLC.                                             *)
(***************************************************************************)
EXTENDS Vault, TLC

\* No thread, name, value, passphrase or salt differs from another.
Symmetry == UNION {Permutations(S) : S \in {Threads, Names, Values, Passphrases, Salts}}
=============================================================================
