-------------------------------- MODULE Vault -------------------------------
(***************************************************************************)
(* vault/service.py: credentials in one encrypted file that each writer    *)
(* reads, changes and replaces whole, under a lock of its Vault object.    *)
(* Two objects on one path, in one process or in several, share the file   *)
(* and nothing else.                                                       *)
(***************************************************************************)
CONSTANTS Threads,       \* callers
          Vaults,        \* Vault objects on the one path
          Names, Values, Passphrases,
          Salts,         \* one more than files and drafts there can be at once
          None           \* no salt, no thread, no vault

ASSUME VaultAssumption ==
    /\ None \notin Salts \cup Threads \cup Vaults
    /\ \A N \in SUBSET Names : None \notin [N -> Values]   \* it is no contents either

VARIABLES file,          \* what the file says; salt None when there is no file
          intact,        \* it parses
          passphrase,    \* _passphrase of each object
          lock,          \* _lock of each object: the thread that holds it
          pc, on,        \* each thread: its step, and the object it is in
          draft,         \* ... and what it is about to write
          botched        \* history: a change_passphrase of the object failed to write

diskVars == <<file, intact>>
callVars == <<pc, on, draft>>
vars     == <<file, intact, passphrase, lock, pc, on, draft, botched>>

NoTokens == [n \in {} |-> None]
Missing  == [salt |-> None, tokens |-> NoTokens]

-----------------------------------------------------------------------------
(* Keys and tokens *)

\* A token decrypts under the passphrase and the salt that it was encrypted with.
Encrypt(p, salt, x) == [passphrase |-> p, salt |-> salt, value |-> x]

Decrypts(p, salt, token) == token.passphrase = p /\ token.salt = salt

\* Every token of the file decrypts under p and the salt of the file.
Opens(p) ==
    \A n \in DOMAIN file.tokens : Decrypts(p, file.salt, file.tokens[n])

\* retrieve: an error of the file, of the name or of the key, or the value.
Retrieve(v, n) ==
    IF ~ intact THEN "VaultConfigurationError"
    ELSE IF n \notin DOMAIN file.tokens THEN "VaultCredentialNotFoundError"
    ELSE IF ~ Decrypts(passphrase[v], file.salt, file.tokens[n]) THEN "VaultLockedError"
    ELSE file.tokens[n].value

\* os.urandom: a salt that nothing is encrypted with.
FreshSalts == Salts \ ({file.salt} \cup {draft[t].salt : t \in Threads})

-----------------------------------------------------------------------------
(* From the lock to the write *)

Init ==
    /\ file = Missing /\ intact = TRUE
    /\ \E p \in Passphrases : passphrase = [v \in Vaults |-> p]
    /\ lock = [v \in Vaults |-> None]
    /\ pc = [t \in Threads |-> "idle"] /\ on = [t \in Threads |-> None]
    /\ draft = [t \in Threads |-> Missing]
    /\ botched = [v \in Vaults |-> FALSE]

\* Variant: no lock.
EnterUnlocked(t, v, step, new) ==
    /\ pc[t] = "idle" /\ intact
    /\ lock' = [lock EXCEPT ![v] = t]
    /\ pc' = [pc EXCEPT ![t] = step] /\ on' = [on EXCEPT ![t] = v]
    /\ draft' = [draft EXCEPT ![t] = new]
    /\ UNCHANGED <<file, intact, botched>>

\* The lock is free and _load_state_or_none finds a file that parses, or none.
Enter(t, v, step, new) ==
    /\ pc[t] = "idle" /\ lock[v] = None /\ intact
    /\ lock' = [lock EXCEPT ![v] = t]
    /\ pc' = [pc EXCEPT ![t] = step] /\ on' = [on EXCEPT ![t] = v]
    /\ draft' = [draft EXCEPT ![t] = new]
    /\ UNCHANGED <<file, intact, botched>>

\* store, with the salt of the file or, if there is no file, a new one; that the
\* passphrase opens the other tokens is not asked.
Store(t, v, n, x) ==
    \E salt \in IF file.salt = None THEN FreshSalts ELSE {file.salt} :
        /\ Enter(t, v, "store",
                 [salt   |-> salt,
                  tokens |-> [m \in DOMAIN file.tokens \cup {n} |->
                                 IF m = n THEN Encrypt(passphrase[v], salt, x)
                                          ELSE file.tokens[m]]])
        /\ UNCHANGED passphrase

\* revoke, of a name there is; of another it changes nothing.
Revoke(t, v, n) ==
    /\ n \in DOMAIN file.tokens
    /\ Enter(t, v, "revoke",
             [file EXCEPT !.tokens = [m \in DOMAIN file.tokens \ {n} |-> file.tokens[m]]])
    /\ UNCHANGED passphrase

\* Variant: the new key is derived before the passphrase is set.
ReencryptOldKey(p, salt) ==
    [salt   |-> salt,
     tokens |-> [n \in DOMAIN file.tokens |->
                    [file.tokens[n] EXCEPT !.salt = salt]]]

\* Every credential under the new passphrase and a new salt.
Reencrypt(p, salt) ==
    [salt   |-> salt,
     tokens |-> [n \in DOMAIN file.tokens |-> Encrypt(p, salt, file.tokens[n].value)]]

\* change_passphrase: the old passphrase must open every token, and the object
\* takes the new one before it writes.
ChangePassphrase(t, v, p) ==
    /\ file.salt # None /\ Opens(passphrase[v])
    /\ \E salt \in FreshSalts : Enter(t, v, "rotate", Reencrypt(p, salt))
    /\ passphrase' = [passphrase EXCEPT ![v] = p]

-----------------------------------------------------------------------------
(* The write *)

Leave(t) ==
    /\ pc[t] # "idle"
    /\ pc' = [pc EXCEPT ![t] = "idle"] /\ on' = [on EXCEPT ![t] = None]
    /\ draft' = [draft EXCEPT ![t] = Missing]
    /\ lock' = [lock EXCEPT ![on[t]] = None]
    /\ UNCHANGED passphrase

\* _write_state: a temporary file, then os.replace.
Write(t) ==
    /\ Leave(t)
    /\ file' = draft[t] /\ intact' = TRUE
    /\ UNCHANGED botched

\* An OSError on the way: the file is as it was, and the call raises.
WriteFails(t) ==
    /\ Leave(t)
    /\ botched' = [botched EXCEPT ![on[t]] = @ \/ pc[t] = "rotate"]
    /\ UNCHANGED diskVars

\* os.write takes less than it is given and says so only by its result, which is
\* not read: what replaces the file is its beginning.
WriteShort(t) ==
    /\ Leave(t)
    /\ file' = Missing /\ intact' = FALSE
    /\ UNCHANGED botched

\* The process of an object dies and another opens the file, with a passphrase
\* that opens it if there is one.
Restart(v, p) ==
    LET dead == {t \in Threads : on[t] = v}
    IN  /\ (\E q \in Passphrases : Opens(q)) => Opens(p)
        /\ passphrase' = [passphrase EXCEPT ![v] = p]
        /\ botched' = [botched EXCEPT ![v] = ~ Opens(p)]
        /\ lock' = [lock EXCEPT ![v] = None]
        /\ pc' = [t \in Threads |-> IF t \in dead THEN "idle" ELSE pc[t]]
        /\ on' = [t \in Threads |-> IF t \in dead THEN None ELSE on[t]]
        /\ draft' = [t \in Threads |-> IF t \in dead THEN Missing ELSE draft[t]]
        /\ UNCHANGED diskVars

VaultCall ==
    \E t \in Threads :
       \/ \E v \in Vaults :
             \/ \E n \in Names : Revoke(t, v, n) \/ \E x \in Values : Store(t, v, n, x)
             \/ \E p \in Passphrases : ChangePassphrase(t, v, p)
       \/ Write(t) \/ WriteFails(t) \/ WriteShort(t)

Next == VaultCall \/ \E v \in Vaults, p \in Passphrases : Restart(v, p)

Spec == Init /\ [][Next]_vars

-----------------------------------------------------------------------------
(* Properties *)

Token == [passphrase : Passphrases, salt : Salts, value : Values]
State == [salt : Salts \cup {None}, tokens : UNION {[N -> Token] : N \in SUBSET Names}]

\* Every variable holds a value of its kind.
TypeOK ==
    /\ file \in State /\ intact \in BOOLEAN
    /\ passphrase \in [Vaults -> Passphrases]
    /\ lock \in [Vaults -> Threads \cup {None}]
    /\ pc \in [Threads -> {"idle", "store", "revoke", "rotate"}]
    /\ on \in [Threads -> Vaults \cup {None}]
    /\ draft \in [Threads -> State]
    /\ botched \in [Vaults -> BOOLEAN]

\* Whatever objects write over one another, the tokens of the file are under the
\* salt that the file names: with another one no passphrase would decrypt them.
TokensUnderSalt == \A n \in DOMAIN file.tokens : file.tokens[n].salt = file.salt

\* An object that nobody is in retrieves everything there is: its passphrase and
\* the file have changed together.  Not so after a change_passphrase that failed
\* to write: the object has the new passphrase, the file the old one.
EverythingRetrievable ==
    \A v \in Vaults : lock[v] = None /\ intact /\ ~ botched[v] =>
        \A n \in DOMAIN file.tokens : Retrieve(v, n) = file.tokens[n].value

Contents == [n \in DOMAIN file.tokens |-> file.tokens[n].value]

Stored(n) == IF n \in DOMAIN file.tokens THEN file.tokens[n].value ELSE None

Abstract == INSTANCE CredentialStore WITH
                Unreadable <- None,
                stored     <- IF intact THEN Contents ELSE None

\* "Thread-safe": each call stores or revokes its one credential and no other
\* call's, a call that fails or dies stores none, and change_passphrase keeps all.
ImplementsCredentialStore == Abstract!Spec

\* The Vault docstring: "a module-level `RLock` serializes read/write operations
\* against the backing file. Instances are cheap - create one per session/request".
\* So no write takes back the credential of another call.
OneCredentialPerWrite ==
    [][intact /\ intact' =>
         LET changed == {n \in Names : Stored(n)' # Stored(n)}
         IN  \A m, n \in changed : m = n]_vars
=============================================================================
