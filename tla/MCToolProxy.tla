----------------------------- MODULE MCToolProxy ------------------------------
(***************************************************************************)
(* An instance of ToolProxy for TLC: two tools that claim one name, a      *)
(* proxy with a vault and one without, and two threads on the vault.       *)
(***************************************************************************)
EXTENDS ToolProxy, TLC

CONSTANTS n1, n2, pair, single, v1, full, bare

MCTools == {pair, single}
MCNameOf == [t \in MCTools |-> "fetch"]
MCCredentials == pair :> <<n1, n2>> @@ single :> <<n1>>
MCVaultOf == full :> v1 @@ bare :> None

\* No thread, value, passphrase or salt differs from another.
Symmetry == UNION {Permutations(S) : S \in {Threads, Values, Passphrases, Salts}}
==============================================================================
