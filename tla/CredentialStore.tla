--------------------------- MODULE CredentialStore --------------------------
(***************************************************************************)
(* What a vault promises its callers: credentials by name, stored, replaced *)
(* and revoked one at a time.  It promises nothing after a disk that takes  *)
(* only part of a write.                                                   *)
(***************************************************************************)
CONSTANTS Names, Values, Unreadable

VARIABLE stored    \* a value for each name there is, or Unreadable

Init == stored = [n \in {} |-> Unreadable]

Readable == stored # Unreadable

Store(n, x) ==
    /\ Readable
    /\ stored' = [m \in DOMAIN stored \cup {n} |-> IF m = n THEN x ELSE stored[m]]

Revoke(n) ==
    /\ Readable
    /\ stored' = [m \in DOMAIN stored \ {n} |-> stored[m]]

DiskFull == Readable /\ stored' = Unreadable

Next == \/ \E n \in Names : Revoke(n) \/ \E x \in Values : Store(n, x)
        \/ DiskFull

Spec == Init /\ [][Next]_stored
=============================================================================
