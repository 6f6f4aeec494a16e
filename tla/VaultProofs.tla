----------------------------- MODULE VaultProofs ----------------------------
(***************************************************************************)
(* Proofs about Vault, and about ToolProxy, whose calls retrieve from it.  *)
(* What they say of types, salts and the credentials of a call holds for   *)
(* any number of Vault objects on the file, the rest for one object that   *)
(* any number of threads and proxies use.                                  *)
(***************************************************************************)
EXTENDS ToolProxy, TLAPS

Salted(s) == \A n \in DOMAIN s.tokens : s.tokens[n].salt = s.salt

\* Whatever is in the file or on its way there is under one salt.
SaltsOK == TokensUnderSalt /\ \A t \in Threads : Salted(draft[t])

\* A token set and what it is made of.
LEMMA StateParts ==
    ASSUME NEW s \in State
    PROVE  /\ s.salt \in Salts \cup {None} /\ DOMAIN s.tokens \subseteq Names
           /\ \A n \in DOMAIN s.tokens : s.tokens[n] \in Token
           /\ s = [salt |-> s.salt, tokens |-> s.tokens]
           /\ s.tokens = [n \in DOMAIN s.tokens |-> s.tokens[n]]
  BY DEF State

\* What a token set may be made of.
LEMMA StateOf ==
    ASSUME NEW salt \in Salts \cup {None}, NEW N \in SUBSET Names, NEW f \in [N -> Token]
    PROVE  [salt |-> salt, tokens |-> f] \in State
  BY DEF State

\* No file, and what a thread in no call is about to write.
LEMMA MissingIsState == Missing \in State /\ Salted(Missing)
<1>1. NoTokens \in [{} -> Token] /\ DOMAIN NoTokens = {}
      BY DEF NoTokens
<1>2. Missing \in State
  <2>1. {} \in SUBSET Names
        OBVIOUS
  <2>.  QED  BY <1>1, <2>1, StateOf DEF Missing
<1>3. Salted(Missing)
      BY <1>1 DEF Missing, Salted
<1>.  QED  BY <1>2, <1>3

-----------------------------------------------------------------------------
(* Types and salts *)

\* What a call enters with is well-formed and under one salt.
LEMMA EnterStep ==
    ASSUME TypeOK, SaltsOK, NEW t \in Threads, NEW v \in Vaults,
           NEW what \in {"store", "revoke", "rotate"}, NEW new \in State, Salted(new),
           Enter(t, v, what, new), passphrase' \in [Vaults -> Passphrases]
    PROVE  TypeOK' /\ SaltsOK'
  BY DEF TypeOK, SaltsOK, Salted, TokensUnderSalt, Enter

\* store writes what it read and one more token, all under one salt.
LEMMA StoreDraft ==
    ASSUME TypeOK, SaltsOK, NEW v \in Vaults, NEW n \in Names, NEW x \in Values,
           NEW salt \in IF file.salt = None THEN FreshSalts ELSE {file.salt}
    PROVE  LET new == [salt   |-> salt,
                       tokens |-> [m \in DOMAIN file.tokens \cup {n} |->
                                      IF m = n THEN Encrypt(passphrase[v], salt, x)
                                               ELSE file.tokens[m]]]
           IN  new \in State /\ Salted(new)
<1>.  DEFINE N == DOMAIN file.tokens \cup {n}
             f == [m \in N |-> IF m = n THEN Encrypt(passphrase[v], salt, x)
                                        ELSE file.tokens[m]]
<1>1. /\ file.salt \in Salts \cup {None} /\ DOMAIN file.tokens \subseteq Names
      /\ \A m \in DOMAIN file.tokens : file.tokens[m] \in Token
      BY StateParts DEF TypeOK
<1>2. salt \in Salts
      BY <1>1 DEF FreshSalts
<1>3. \A m \in DOMAIN file.tokens : file.tokens[m].salt = salt
  <2>1. CASE file.salt = None
    <3>1. \A m \in DOMAIN file.tokens : file.tokens[m].salt \in Salts
          BY <1>1 DEF Token
    <3>.  QED  BY <2>1, <3>1, VaultAssumption DEF SaltsOK, TokensUnderSalt
  <2>2. CASE file.salt # None
        BY <2>2 DEF SaltsOK, TokensUnderSalt
  <2>.  QED  BY <2>1, <2>2
<1>4. /\ Encrypt(passphrase[v], salt, x) \in Token
      /\ Encrypt(passphrase[v], salt, x).salt = salt
      BY <1>2 DEF Encrypt, Token, TypeOK
<1>5. f \in [N -> Token] /\ N \in SUBSET Names
      BY <1>1, <1>4
<1>6. \A m \in N : f[m].salt = salt
      BY <1>3, <1>4
<1>.  HIDE DEF f, N
<1>7. [salt |-> salt, tokens |-> f] \in State
      BY <1>2, <1>5, StateOf
<1>8. Salted([salt |-> salt, tokens |-> f])
      BY <1>5, <1>6 DEF Salted
<1>.  QED  BY <1>7, <1>8 DEF f, N

\* revoke writes what it read but one token.
LEMMA RevokeDraft ==
    ASSUME TypeOK, SaltsOK, NEW n \in Names
    PROVE  LET new == [file EXCEPT !.tokens =
                          [m \in DOMAIN file.tokens \ {n} |-> file.tokens[m]]]
           IN  /\ new = [salt |-> file.salt, tokens |->
                            [m \in DOMAIN file.tokens \ {n} |-> file.tokens[m]]]
               /\ new \in State /\ Salted(new)
<1>.  DEFINE N == DOMAIN file.tokens \ {n}
             f == [m \in N |-> file.tokens[m]]
<1>1. /\ file.salt \in Salts \cup {None} /\ DOMAIN file.tokens \subseteq Names
      /\ \A m \in DOMAIN file.tokens : file.tokens[m] \in Token
      /\ file = [salt |-> file.salt, tokens |-> file.tokens]
      BY StateParts DEF TypeOK
<1>2. f \in [N -> Token] /\ N \in SUBSET Names
      BY <1>1
<1>3. \A m \in N : f[m].salt = file.salt
      BY DEF SaltsOK, TokensUnderSalt
<1>.  HIDE DEF f, N
<1>4. [file EXCEPT !.tokens = f] = [salt |-> file.salt, tokens |-> f]
      BY <1>1
<1>5. [salt |-> file.salt, tokens |-> f] \in State
      BY <1>1, <1>2, StateOf
<1>6. Salted([salt |-> file.salt, tokens |-> f])
      BY <1>2, <1>3 DEF Salted
<1>.  QED  BY <1>4, <1>5, <1>6 DEF f, N

\* change_passphrase writes every token anew, under the new salt.
LEMMA ReencryptDraft ==
    ASSUME TypeOK, NEW p \in Passphrases, NEW salt \in FreshSalts
    PROVE  Reencrypt(p, salt) \in State /\ Salted(Reencrypt(p, salt))
<1>.  DEFINE N == DOMAIN file.tokens
             f == [n \in N |-> Encrypt(p, salt, file.tokens[n].value)]
<1>1. N \in SUBSET Names /\ salt \in Salts /\ \A n \in N : file.tokens[n].value \in Values
      BY StateParts DEF TypeOK, Token, FreshSalts
<1>2. f \in [N -> Token] /\ \A n \in N : f[n].salt = salt
      BY <1>1 DEF Encrypt, Token
<1>.  HIDE DEF f, N
<1>3. [salt |-> salt, tokens |-> f] \in State
      BY <1>1, <1>2, StateOf
<1>4. Salted([salt |-> salt, tokens |-> f])
      BY <1>2 DEF Salted
<1>.  QED  BY <1>3, <1>4 DEF Reencrypt, f, N

\* The initial state has no file.
LEMMA InitSalted == Init => TypeOK /\ SaltsOK
<1>.  SUFFICES ASSUME Init PROVE TypeOK /\ SaltsOK
      OBVIOUS
<1>1. TypeOK
      BY MissingIsState DEF Init, TypeOK
<1>2. SaltsOK
      BY MissingIsState DEF Init, SaltsOK, Salted, TokensUnderSalt
<1>.  QED  BY <1>1, <1>2

\* Every step keeps types and salts, however many objects write the file.
LEMMA SaltedStep == TypeOK /\ SaltsOK /\ [Next]_vars => TypeOK' /\ SaltsOK'
<1>.  SUFFICES ASSUME TypeOK, SaltsOK, [Next]_vars PROVE TypeOK' /\ SaltsOK'
      OBVIOUS
<1>1. CASE UNCHANGED vars
      BY <1>1 DEF vars, TypeOK, SaltsOK, Salted, TokensUnderSalt
<1>2. ASSUME NEW t \in Threads, NEW v \in Vaults, NEW n \in Names, NEW x \in Values,
             Store(t, v, n, x)
      PROVE  TypeOK' /\ SaltsOK'
  <2>1. PICK salt \in IF file.salt = None THEN FreshSalts ELSE {file.salt} :
             Enter(t, v, "store",
                   [salt   |-> salt,
                    tokens |-> [m \in DOMAIN file.tokens \cup {n} |->
                                   IF m = n THEN Encrypt(passphrase[v], salt, x)
                                            ELSE file.tokens[m]]])
        BY <1>2 DEF Store
  <2>2. UNCHANGED passphrase
        BY <1>2 DEF Store
  <2>.  QED  BY <2>1, <2>2, StoreDraft, EnterStep DEF TypeOK
<1>3. ASSUME NEW t \in Threads, NEW v \in Vaults, NEW n \in Names, Revoke(t, v, n)
      PROVE  TypeOK' /\ SaltsOK'
      BY <1>3, RevokeDraft, EnterStep DEF Revoke, TypeOK
<1>4. ASSUME NEW t \in Threads, NEW v \in Vaults, NEW p \in Passphrases,
             ChangePassphrase(t, v, p)
      PROVE  TypeOK' /\ SaltsOK'
  <2>1. PICK salt \in FreshSalts : Enter(t, v, "rotate", Reencrypt(p, salt))
        BY <1>4 DEF ChangePassphrase
  <2>2. passphrase' \in [Vaults -> Passphrases]
        BY <1>4 DEF ChangePassphrase, TypeOK
  <2>.  QED  BY <2>1, <2>2, ReencryptDraft, EnterStep
<1>5. ASSUME NEW t \in Threads, Write(t) \/ WriteFails(t) \/ WriteShort(t)
      PROVE  TypeOK' /\ SaltsOK'
  <2>1. Leave(t)
        BY <1>5 DEF Write, WriteFails, WriteShort
  <2>2. file' \in {draft[t], file, Missing} /\ intact' \in BOOLEAN
        BY <1>5 DEF Write, WriteFails, WriteShort, diskVars, TypeOK
  <2>3. botched' \in [Vaults -> BOOLEAN]
    <3>1. CASE UNCHANGED botched
          BY <3>1 DEF TypeOK
    <3>2. CASE WriteFails(t)
      <4>1. botched' = [botched EXCEPT ![on[t]] = botched[on[t]] \/ pc[t] = "rotate"]
            BY <3>2 DEF WriteFails
      <4>2. (botched[on[t]] \/ pc[t] = "rotate") \in BOOLEAN
            OBVIOUS
      <4>.  QED  BY <4>1 DEF TypeOK
    <3>.  QED  BY <1>5, <3>1, <3>2 DEF Write, WriteShort
  <2>4. draft' = [draft EXCEPT ![t] = Missing] /\ draft' \in [Threads -> State]
        BY <2>1, MissingIsState DEF Leave, TypeOK
  <2>5. TypeOK'
    <3>1. /\ pc' \in [Threads -> {"idle", "store", "revoke", "rotate"}]
          /\ on' \in [Threads -> Vaults \cup {None}]
          /\ lock' \in [Vaults -> Threads \cup {None}]
          /\ passphrase' \in [Vaults -> Passphrases]
          BY <2>1 DEF Leave, TypeOK
    <3>2. file' \in State
          BY <2>2, MissingIsState DEF TypeOK
    <3>.  QED  BY <2>2, <2>3, <2>4, <3>1, <3>2 DEF TypeOK
  <2>6. SaltsOK'
    <3>1. Salted(file) /\ \A u \in Threads : Salted(draft[u])
          BY DEF SaltsOK, Salted, TokensUnderSalt
    <3>2. Salted(file')
          BY <2>2, <3>1, MissingIsState
    <3>3. \A u \in Threads : draft'[u] \in {draft[u], Missing}
          BY <2>4 DEF TypeOK
    <3>4. \A u \in Threads : Salted(draft'[u])
          BY <3>1, <3>3, MissingIsState
    <3>.  QED  BY <3>2, <3>4 DEF SaltsOK, Salted, TokensUnderSalt
  <2>.  QED  BY <2>5, <2>6
<1>6. ASSUME NEW v \in Vaults, NEW p \in Passphrases, Restart(v, p)
      PROVE  TypeOK' /\ SaltsOK'
      BY <1>6, MissingIsState
      DEF Restart, TypeOK, SaltsOK, Salted, TokensUnderSalt, diskVars
<1>.  QED  BY <1>1, <1>2, <1>3, <1>4, <1>5, <1>6 DEF Next, VaultCall

\* The file, the objects and the calls keep their types.
THEOREM TypeCorrect == Spec => []TypeOK
  BY InitSalted, SaltedStep, PTL DEF Spec

\* However many objects read, change and replace the file, and whichever of them
\* die or fail, every token of it is under the salt that it names.
THEOREM SaltsAgree == Spec => []TokensUnderSalt
<1>1. SaltsOK => TokensUnderSalt
      BY DEF SaltsOK
<1>.  QED  BY <1>1, InitSalted, SaltedStep, PTL DEF Spec

-----------------------------------------------------------------------------
(* One object *)

OneObject == \A v, w \in Vaults : v = w

ValuesOf(s) == [n \in DOMAIN s.tokens |-> s.tokens[n].value]

OpensIn(s, p) == \A n \in DOMAIN s.tokens : Decrypts(p, s.salt, s.tokens[n])

With(c, n, x)  == [m \in DOMAIN c \cup {n} |-> IF m = n THEN x ELSE c[m]]
Without(c, n)  == [m \in DOMAIN c \ {n} |-> c[m]]

InCall(t) == pc[t] # "idle"

\* Whoever is in a call holds the lock of its object, and nobody else does.
LockOK ==
    /\ \A t \in Threads : InCall(t) => on[t] \in Vaults /\ lock[on[t]] = t
    /\ \A t \in Threads : ~ InCall(t) => on[t] = None
    /\ \A v \in Vaults : lock[v] # None => InCall(lock[v]) /\ on[lock[v]] = v

\* Between calls the passphrase opens the file; so it does in a call that does
\* not change it.
FileOK ==
    \A v \in Vaults :
        ~ botched[v] /\ (\A t \in Threads : pc[t] # "rotate")
            => OpensIn(file, passphrase[v])

\* What a call is about to write is under the passphrase, and is what is in the
\* file but for the one credential of the call.
DraftOK ==
    \A t \in Threads : InCall(t) =>
        /\ intact
        /\ ~ botched[on[t]] => OpensIn(draft[t], passphrase[on[t]])
        /\ pc[t] = "store" =>
               \E n \in Names, x \in Values : ValuesOf(draft[t]) = With(ValuesOf(file), n, x)
        /\ pc[t] = "revoke" =>
               \E n \in Names : ValuesOf(draft[t]) = Without(ValuesOf(file), n)
        /\ pc[t] = "rotate" => ValuesOf(draft[t]) = ValuesOf(file)

OneObjectInvariant == TypeOK /\ SaltsOK /\ LockOK /\ FileOK /\ DraftOK

\* The lock keeps calls apart: with one object there is at most one.
LEMMA OneCall ==
    ASSUME OneObject, TypeOK, LockOK, NEW t \in Threads, InCall(t)
    PROVE  \A u \in Threads : InCall(u) => u = t
  BY DEF OneObject, LockOK

\* A call that enters finds nobody else in one.
LEMMA EnterAlone ==
    ASSUME OneObject, TypeOK, LockOK, NEW t \in Threads, NEW v \in Vaults,
           NEW what \in {"store", "revoke", "rotate"}, NEW new, Enter(t, v, what, new)
    PROVE  /\ \A u \in Threads : ~ InCall(u)
           /\ \A u \in Threads : pc'[u] = IF u = t THEN what ELSE "idle"
           /\ on'[t] = v /\ draft'[t] = new /\ intact /\ LockOK'
<1>1. lock[v] = None /\ v \in Vaults /\ intact
      BY DEF Enter
<1>2. \A u \in Threads : ~ InCall(u)
      BY <1>1, VaultAssumption DEF LockOK, OneObject
<1>3. /\ \A u \in Threads : pc'[u] = IF u = t THEN what ELSE "idle"
      /\ \A u \in Threads : on'[u] = IF u = t THEN v ELSE None
      /\ draft'[t] = new
      BY <1>2 DEF Enter, TypeOK, LockOK, InCall
<1>4. lock'[v] = t /\ \A w \in Vaults : w = v
      BY DEF Enter, TypeOK, OneObject
<1>5. LockOK'
      BY <1>3, <1>4 DEF LockOK, InCall
<1>.  QED  BY <1>1, <1>2, <1>3, <1>5

\* Entering keeps the invariant when the draft is what the call is to write.
LEMMA EnterKeeps ==
    ASSUME OneObject, TypeOK, LockOK, NEW t \in Threads, NEW v \in Vaults,
           NEW what \in {"store", "revoke", "rotate"}, NEW new, Enter(t, v, what, new),
           ~ botched[v] => OpensIn(new, passphrase'[v]),
           what # "rotate" => UNCHANGED passphrase /\ FileOK,
           what = "store" =>
               \E n \in Names, x \in Values : ValuesOf(new) = With(ValuesOf(file), n, x),
           what = "revoke" => \E n \in Names : ValuesOf(new) = Without(ValuesOf(file), n),
           what = "rotate" => ValuesOf(new) = ValuesOf(file)
    PROVE  LockOK' /\ FileOK' /\ DraftOK'
<1>1. /\ \A u \in Threads : ~ InCall(u)
      /\ \A u \in Threads : pc'[u] = IF u = t THEN what ELSE "idle"
      /\ on'[t] = v /\ draft'[t] = new /\ intact /\ LockOK'
      BY EnterAlone
<1>2. UNCHANGED <<file, intact, botched>>
      BY DEF Enter
<1>3. FileOK'
  <2>1. CASE what = "rotate"
        BY <1>1, <2>1 DEF FileOK
  <2>2. CASE what # "rotate"
    <3>1. \A u \in Threads : pc[u] # "rotate"
          BY <1>1 DEF InCall
    <3>.  QED  BY <1>2, <2>2, <3>1 DEF FileOK, OpensIn
  <2>.  QED  BY <2>1, <2>2
<1>4. DraftOK'
  <2>.  SUFFICES ASSUME NEW u \in Threads, InCall(u)'
                 PROVE  /\ intact'
                        /\ ~ botched'[on'[u]] => OpensIn(draft'[u], passphrase'[on'[u]])
                        /\ pc'[u] = "store" => \E n \in Names, x \in Values :
                               ValuesOf(draft'[u]) = With(ValuesOf(file'), n, x)
                        /\ pc'[u] = "revoke" => \E n \in Names :
                               ValuesOf(draft'[u]) = Without(ValuesOf(file'), n)
                        /\ pc'[u] = "rotate" => ValuesOf(draft'[u]) = ValuesOf(file')
        BY DEF DraftOK, OpensIn, ValuesOf
  <2>1. u = t
        BY <1>1 DEF InCall
  <2>2. /\ on'[u] = v /\ draft'[u] = new /\ pc'[u] = what
        /\ file' = file /\ botched' = botched /\ intact'
        BY <1>1, <1>2, <2>1
  <2>3. ~ botched'[on'[u]] => OpensIn(draft'[u], passphrase'[on'[u]])
        BY <2>2
  <2>.  QED  BY <2>2, <2>3
<1>.  QED  BY <1>1, <1>3, <1>4

\* What store writes opens with the passphrase and has one more credential.
LEMMA StoreWrites ==
    ASSUME TypeOK, SaltsOK, NEW v \in Vaults, NEW n \in Names, NEW x \in Values,
           NEW salt \in IF file.salt = None THEN FreshSalts ELSE {file.salt}
    PROVE  LET new == [salt   |-> salt,
                       tokens |-> [m \in DOMAIN file.tokens \cup {n} |->
                                      IF m = n THEN Encrypt(passphrase[v], salt, x)
                                               ELSE file.tokens[m]]]
           IN  /\ OpensIn(file, passphrase[v]) => OpensIn(new, passphrase[v])
               /\ ValuesOf(new) = With(ValuesOf(file), n, x)
<1>.  DEFINE N == DOMAIN file.tokens \cup {n}
             f == [m \in N |-> IF m = n THEN Encrypt(passphrase[v], salt, x)
                                        ELSE file.tokens[m]]
             new == [salt |-> salt, tokens |-> f]
<1>1. /\ DOMAIN f = N
      /\ f[n] = Encrypt(passphrase[v], salt, x)
      /\ \A m \in N : m # n => m \in DOMAIN file.tokens /\ f[m] = file.tokens[m]
      OBVIOUS
<1>2. new.tokens = f /\ new.salt = salt
      OBVIOUS
<1>3. ASSUME OpensIn(file, passphrase[v]) PROVE OpensIn(new, passphrase[v])
  <2>1. \A m \in DOMAIN file.tokens : file.tokens[m].salt = salt
    <3>1. \A m \in DOMAIN file.tokens : file.tokens[m].salt \in Salts
          BY StateParts DEF TypeOK, Token
    <3>.  QED  BY <3>1, VaultAssumption DEF SaltsOK, TokensUnderSalt
  <2>2. Decrypts(passphrase[v], salt, f[n])
        BY <1>1 DEF Decrypts, Encrypt
  <2>3. \A m \in DOMAIN file.tokens : Decrypts(passphrase[v], salt, file.tokens[m])
        BY <1>3, <2>1 DEF OpensIn, Decrypts
  <2>.  HIDE DEF f, N
  <2>.  QED  BY <1>1, <1>2, <2>2, <2>3 DEF OpensIn, N
<1>4. ValuesOf(new) = With(ValuesOf(file), n, x)
  <2>1. f[n].value = x
        BY <1>1 DEF Encrypt
  <2>2. \A m \in N : f[m].value = IF m = n THEN x ELSE file.tokens[m].value
        BY <1>1, <2>1
  <2>.  HIDE DEF f
  <2>.  QED  BY <1>1, <1>2, <2>2 DEF ValuesOf, With
<1>.  QED  BY <1>3, <1>4

\* Entering store, revoke or change_passphrase keeps the invariant.
LEMMA BeginStep ==
    ASSUME OneObject, OneObjectInvariant, NEW t \in Threads, NEW v \in Vaults,
           \/ \E n \in Names : Revoke(t, v, n) \/ \E x \in Values : Store(t, v, n, x)
           \/ \E p \in Passphrases : ChangePassphrase(t, v, p)
    PROVE  LockOK' /\ FileOK' /\ DraftOK'
<1>.  USE DEF OneObjectInvariant
<1>1. ASSUME NEW n \in Names, NEW x \in Values, Store(t, v, n, x)
      PROVE  LockOK' /\ FileOK' /\ DraftOK'
  <2>.  DEFINE New(salt) ==
                 [salt   |-> salt,
                  tokens |-> [m \in DOMAIN file.tokens \cup {n} |->
                                 IF m = n THEN Encrypt(passphrase[v], salt, x)
                                          ELSE file.tokens[m]]]
  <2>1. PICK salt \in IF file.salt = None THEN FreshSalts ELSE {file.salt} :
             Enter(t, v, "store", New(salt))
        BY <1>1 DEF Store
  <2>2. UNCHANGED passphrase
        BY <1>1 DEF Store
  <2>3. /\ OpensIn(file, passphrase[v]) => OpensIn(New(salt), passphrase[v])
        /\ ValuesOf(New(salt)) = With(ValuesOf(file), n, x)
        BY StoreWrites
  <2>.  HIDE DEF New
  <2>4. \A u \in Threads : pc[u] # "rotate"
        BY <2>1, EnterAlone DEF InCall
  <2>5. ~ botched[v] => OpensIn(New(salt), passphrase[v])
        BY <2>3, <2>4 DEF FileOK
  <2>.  QED  BY <2>1, <2>2, <2>3, <2>5, EnterKeeps
<1>2. ASSUME NEW n \in Names, Revoke(t, v, n)
      PROVE  LockOK' /\ FileOK' /\ DraftOK'
  <2>.  DEFINE new == [file EXCEPT !.tokens =
                          [m \in DOMAIN file.tokens \ {n} |-> file.tokens[m]]]
  <2>1. Enter(t, v, "revoke", new) /\ UNCHANGED passphrase
        BY <1>2 DEF Revoke
  <2>2. new = [salt |-> file.salt, tokens |->
                  [m \in DOMAIN file.tokens \ {n} |-> file.tokens[m]]]
        BY RevokeDraft
  <2>3. /\ OpensIn(file, passphrase[v]) => OpensIn(new, passphrase[v])
        /\ ValuesOf(new) = Without(ValuesOf(file), n)
        BY <2>2 DEF OpensIn, ValuesOf, Without
  <2>.  HIDE DEF new
  <2>4. \A u \in Threads : pc[u] # "rotate"
        BY <2>1, EnterAlone DEF InCall
  <2>5. ~ botched[v] => OpensIn(new, passphrase[v])
        BY <2>3, <2>4 DEF FileOK
  <2>.  QED  BY <2>1, <2>3, <2>5, EnterKeeps
<1>3. ASSUME NEW p \in Passphrases, ChangePassphrase(t, v, p)
      PROVE  LockOK' /\ FileOK' /\ DraftOK'
  <2>1. PICK salt \in FreshSalts : Enter(t, v, "rotate", Reencrypt(p, salt))
        BY <1>3 DEF ChangePassphrase
  <2>2. passphrase'[v] = p
        BY <1>3 DEF ChangePassphrase, TypeOK
  <2>3. OpensIn(Reencrypt(p, salt), p) /\ ValuesOf(Reencrypt(p, salt)) = ValuesOf(file)
        BY DEF OpensIn, ValuesOf, Reencrypt, Encrypt, Decrypts
  <2>.  QED  BY <2>1, <2>2, <2>3, EnterKeeps
<1>.  QED  BY <1>1, <1>2, <1>3

\* After a call nobody is in one.
LEMMA LeaveAlone ==
    ASSUME OneObject, TypeOK, LockOK, NEW t \in Threads, Leave(t)
    PROVE  /\ \A u \in Threads : ~ InCall(u)' /\ on'[u] = None
           /\ \A v \in Vaults : lock'[v] = None
           /\ on[t] \in Vaults /\ \A v \in Vaults : v = on[t]
<1>1. InCall(t) /\ \A u \in Threads : InCall(u) => u = t
      BY OneCall DEF Leave, InCall
<1>2. on[t] \in Vaults /\ \A v \in Vaults : v = on[t]
      BY <1>1 DEF LockOK, OneObject
<1>3. \A u \in Threads : ~ InCall(u)' /\ on'[u] = None
      BY <1>1 DEF Leave, InCall, TypeOK, LockOK
<1>4. \A v \in Vaults : lock'[v] = None
      BY <1>2 DEF Leave, TypeOK
<1>.  QED  BY <1>2, <1>3, <1>4

\* The end of a call leaves a file that the passphrase opens, or an object that
\* failed to write after it had taken a new passphrase.
LEMMA LeaveStep ==
    ASSUME OneObject, OneObjectInvariant, NEW t \in Threads,
           Write(t) \/ WriteFails(t) \/ WriteShort(t)
    PROVE  LockOK' /\ FileOK' /\ DraftOK'
<1>.  USE DEF OneObjectInvariant
<1>1. Leave(t) /\ UNCHANGED passphrase
      BY DEF Write, WriteFails, WriteShort, Leave
<1>2. /\ \A u \in Threads : ~ InCall(u)' /\ on'[u] = None
      /\ \A v \in Vaults : lock'[v] = None
      /\ on[t] \in Vaults /\ \A v \in Vaults : v = on[t]
      BY <1>1, LeaveAlone
<1>3. InCall(t) /\ \A u \in Threads : InCall(u) => u = t
      BY <1>1, OneCall DEF Leave, InCall
<1>4. LockOK' /\ DraftOK'
      BY <1>2 DEF LockOK, DraftOK, InCall
<1>5. ASSUME NEW v \in Vaults, ~ botched'[v]
      PROVE  OpensIn(file', passphrase'[v])
  <2>1. v = on[t] /\ passphrase' = passphrase
        BY <1>1, <1>2
  <2>2. CASE Write(t)
        BY <1>3, <1>5, <2>1, <2>2 DEF Write, DraftOK
  <2>3. CASE WriteFails(t)
    <3>1. ~ botched[v] /\ pc[t] # "rotate" /\ file' = file
          BY <1>5, <2>1, <2>3 DEF WriteFails, TypeOK, diskVars
    <3>2. \A u \in Threads : pc[u] # "rotate"
          BY <1>3, <3>1 DEF InCall
    <3>.  QED  BY <2>1, <3>1, <3>2 DEF FileOK
  <2>4. CASE WriteShort(t)
        BY <2>4 DEF WriteShort, OpensIn, Missing, NoTokens
  <2>.  QED  BY <2>2, <2>3, <2>4
<1>6. FileOK'
      BY <1>5 DEF FileOK, OpensIn
<1>.  QED  BY <1>4, <1>6

\* A process that opens the file has a passphrase that opens it, or counts as one
\* that failed to change it.
LEMMA RestartStep ==
    ASSUME OneObject, OneObjectInvariant, NEW v \in Vaults, NEW p \in Passphrases,
           Restart(v, p)
    PROVE  LockOK' /\ FileOK' /\ DraftOK'
<1>.  USE DEF OneObjectInvariant
<1>1. \A w \in Vaults : w = v
      BY DEF OneObject
<1>2. \A u \in Threads : pc'[u] = "idle" /\ on'[u] = None
      BY <1>1 DEF Restart, LockOK, InCall
<1>3. /\ lock'[v] = None /\ passphrase'[v] = p /\ file' = file
      /\ botched'[v] = ~ Opens(p)
      BY DEF Restart, TypeOK, diskVars
<1>4. LockOK' /\ DraftOK'
      BY <1>1, <1>2, <1>3 DEF LockOK, DraftOK, InCall
<1>5. FileOK'
      BY <1>1, <1>3 DEF FileOK, OpensIn, Opens
<1>.  QED  BY <1>4, <1>5

\* The invariant of one object is inductive.
LEMMA OneObjectStep ==
    ASSUME OneObject, OneObjectInvariant, [Next]_vars
    PROVE  OneObjectInvariant'
<1>1. TypeOK' /\ SaltsOK'
      BY SaltedStep DEF OneObjectInvariant
<1>2. LockOK' /\ FileOK' /\ DraftOK'
  <2>1. CASE UNCHANGED vars
        BY <2>1 DEF vars, OneObjectInvariant, LockOK, FileOK, DraftOK, InCall, OpensIn,
                    ValuesOf
  <2>2. CASE Next
        BY <2>2, BeginStep, LeaveStep, RestartStep DEF Next, VaultCall
  <2>.  QED  BY <2>1, <2>2
<1>.  QED  BY <1>1, <1>2 DEF OneObjectInvariant

\* The invariant holds where there is no file.
LEMMA OneObjectInit == Init => OneObjectInvariant
<1>.  SUFFICES ASSUME Init PROVE OneObjectInvariant
      OBVIOUS
<1>1. LockOK /\ DraftOK
      BY VaultAssumption DEF Init, LockOK, DraftOK, InCall
<1>2. FileOK
      BY DEF Init, FileOK, OpensIn, Missing, NoTokens
<1>.  QED  BY <1>1, <1>2, InitSalted DEF OneObjectInvariant

\* One object and any number of threads: whoever stores, revokes, changes the
\* passphrase, fails or dies, the object retrieves all there is, unless it has
\* failed to write a new passphrase.
THEOREM AllRetrievable ==
    ASSUME OneObject
    PROVE  Spec => []EverythingRetrievable
<1>1. OneObjectInvariant => EverythingRetrievable
  <2>.  SUFFICES ASSUME OneObjectInvariant, NEW v \in Vaults, lock[v] = None, intact,
                        ~ botched[v], NEW n \in DOMAIN file.tokens
                 PROVE  Retrieve(v, n) = file.tokens[n].value
        BY DEF EverythingRetrievable
  <2>1. \A t \in Threads : pc[t] # "rotate"
        BY VaultAssumption DEF OneObjectInvariant, LockOK, InCall, OneObject
  <2>2. Decrypts(passphrase[v], file.salt, file.tokens[n])
        BY <2>1 DEF OneObjectInvariant, FileOK, OpensIn
  <2>.  QED  BY <2>2 DEF Retrieve
<1>.  QED  BY <1>1, OneObjectInit, OneObjectStep, PTL DEF Spec

\* What is stored is readable as long as the file parses.
LEMMA ContentsReadable ==
    ASSUME TypeOK
    PROVE  Contents # None /\ Contents = ValuesOf(file)
<1>1. DOMAIN file.tokens \subseteq Names /\ \A n \in DOMAIN file.tokens : file.tokens[n] \in Token
      BY StateParts DEF TypeOK
<1>2. Contents \in [DOMAIN file.tokens -> Values]
      BY <1>1 DEF Contents, Token
<1>3. Contents # None
      BY <1>1, <1>2, VaultAssumption
<1>.  QED  BY <1>3 DEF Contents, ValuesOf

\* A write changes one credential, or none after change_passphrase.
LEMMA WriteIsAbstract ==
    ASSUME OneObject, OneObjectInvariant, NEW t \in Threads, Write(t)
    PROVE  [Abstract!Next]_(IF intact THEN Contents ELSE None)
<1>.  USE DEF OneObjectInvariant
<1>1. InCall(t) /\ intact /\ intact' /\ Contents' = ValuesOf(draft[t])
      BY DEF Write, Leave, InCall, DraftOK, Contents, ValuesOf
<1>2. Contents # None /\ Contents = ValuesOf(file)
      BY ContentsReadable
<1>3. CASE pc[t] = "store"
  <2>1. PICK n \in Names, x \in Values : Contents' = With(Contents, n, x)
        BY <1>1, <1>2, <1>3 DEF DraftOK
  <2>2. Abstract!Store(n, x)
        BY <1>1, <1>2, <2>1 DEF Abstract!Store, Abstract!Readable, With
  <2>.  QED  BY <2>2 DEF Abstract!Next
<1>4. CASE pc[t] = "revoke"
  <2>1. PICK n \in Names : Contents' = Without(Contents, n)
        BY <1>1, <1>2, <1>4 DEF DraftOK
  <2>2. Abstract!Revoke(n)
        BY <1>1, <1>2, <2>1 DEF Abstract!Revoke, Abstract!Readable, Without
  <2>.  QED  BY <2>2 DEF Abstract!Next
<1>5. CASE pc[t] = "rotate"
      BY <1>1, <1>2, <1>5 DEF DraftOK
<1>.  QED  BY <1>1, <1>3, <1>4, <1>5 DEF InCall, TypeOK

\* Every step of the vault is a step of the store or leaves it as it is.
LEMMA AbstractStep ==
    ASSUME OneObject, OneObjectInvariant, [Next]_vars
    PROVE  [Abstract!Next]_(IF intact THEN Contents ELSE None)
<1>1. ASSUME UNCHANGED diskVars
      PROVE  [Abstract!Next]_(IF intact THEN Contents ELSE None)
      BY <1>1 DEF diskVars, Contents
<1>2. CASE UNCHANGED vars
      BY <1>1, <1>2 DEF vars, diskVars
<1>3. ASSUME NEW t \in Threads, NEW v \in Vaults, NEW what, NEW new, Enter(t, v, what, new)
      PROVE  UNCHANGED diskVars
      BY <1>3 DEF Enter, diskVars
<1>4. ASSUME NEW t \in Threads, WriteShort(t)
      PROVE  [Abstract!Next]_(IF intact THEN Contents ELSE None)
  <2>1. intact /\ ~ intact'
        BY <1>4 DEF WriteShort, Leave, OneObjectInvariant, DraftOK, InCall
  <2>2. Contents # None
        BY ContentsReadable DEF OneObjectInvariant
  <2>3. Abstract!DiskFull
        BY <2>1, <2>2 DEF Abstract!DiskFull, Abstract!Readable
  <2>.  QED  BY <2>3 DEF Abstract!Next
<1>5. ASSUME NEW t \in Threads, NEW v \in Vaults,
             \/ \E n \in Names : Revoke(t, v, n) \/ \E x \in Values : Store(t, v, n, x)
             \/ \E p \in Passphrases : ChangePassphrase(t, v, p)
      PROVE  UNCHANGED diskVars
      BY <1>3, <1>5 DEF Revoke, Store, ChangePassphrase
<1>6. ASSUME NEW t \in Threads, WriteFails(t)
      PROVE  UNCHANGED diskVars
      BY <1>6 DEF WriteFails
<1>7. ASSUME NEW v \in Vaults, NEW p \in Passphrases, Restart(v, p)
      PROVE  UNCHANGED diskVars
      BY <1>7 DEF Restart
<1>.  QED  BY <1>1, <1>2, <1>4, <1>5, <1>6, <1>7, WriteIsAbstract DEF Next, VaultCall

\* One object and any number of threads: every write stores or revokes the one
\* credential of its call, and change_passphrase loses none.
THEOREM VaultImplementsStore ==
    ASSUME OneObject
    PROVE  Spec => ImplementsCredentialStore
<1>1. Init => Abstract!Init
      BY DEF Init, Abstract!Init, Contents, Missing, NoTokens
<1>.  QED  BY <1>1, OneObjectInit, OneObjectStep, AbstractStep, PTL
           DEF Spec, ImplementsCredentialStore, Abstract!Spec

-----------------------------------------------------------------------------
(* The tool proxy *)

allVars == <<vars, proxyVars>>

\* The variables of the proxies hold values of their kinds.
ProxyTyped ==
    /\ registry \in [ToolNames -> Tools \cup {None}]
    /\ step \in [Proxies -> {"idle", "resolve", "run"}]
    /\ tool \in [Proxies -> Tools \cup {None}]
    /\ given \in [Proxies -> Seq(Values)]
    /\ touched \in [Proxies -> SUBSET Names]
    /\ answer \in [Proxies -> {"none", "unknown tool", "no vault", "result", "error",
                               "raised", "died"} \cup Errors]

\* A call runs a tool; it has a vault if the tool needs one, and has not more
\* credentials than the tool names.
CallOK ==
    \A c \in Proxies : step[c] # "idle" =>
        /\ tool[c] \in Tools
        /\ Credentials[tool[c]] # <<>> => VaultOf[c] \in Vaults
        /\ Len(given[c]) <= Len(Credentials[tool[c]])

\* Each credential of a call is what the file has, or has been written since; out
\* of a call there is none.
GivenOK ==
    \A c \in Proxies :
        /\ step[c] = "idle" => given[c] = <<>>
        /\ \A i \in 1 .. Len(given[c]) :
              LET n == Credentials[tool[c]][i]
              IN  n \in touched[c] \/ given[c][i] = Stored(n)

ProxyInvariant == TypeOK /\ SaltsOK /\ ProxyTyped /\ CallOK /\ GivenOK

\* Whatever the proxies do is a step of the vault, or none.
LEMMA ProxyStepIsVaultStep == [ProxyNext]_allVars => [Next]_vars
<1>.  SUFFICES ASSUME ProxyNext PROVE Next \/ UNCHANGED vars
      BY DEF allVars
<1>1. ASSUME NEW x \in Tools, Register(x) PROVE UNCHANGED vars
      BY <1>1 DEF Register
<1>2. ASSUME NEW c \in Proxies, NEW n \in ToolNames,
             UnknownTool(c, n) \/ NoVault(c, n) \/ Lookup(c, n)
      PROVE  UNCHANGED vars
      BY <1>2 DEF UnknownTool, NoVault, Lookup, End
<1>3. ASSUME NEW c \in Proxies, ExecuteStep(c) PROVE UNCHANGED vars
      BY <1>3 DEF ExecuteStep, RetrieveNext, RunTool, ToolReturns, End
<1>4. OtherCall => Next
      BY DEF OtherCall, Next
<1>5. ASSUME NEW v \in Vaults, NEW p \in Passphrases, ProxyRestart(v, p) PROVE Next
      BY <1>5 DEF ProxyRestart, Next
<1>.  QED  BY <1>1, <1>2, <1>3, <1>4, <1>5 DEF ProxyNext

\* The vault under the proxies is the vault: what is proved of it holds of theirs.
THEOREM ProxyKeepsVault == ProxySpec => Spec
<1>1. ProxyInit => Init
      BY DEF ProxyInit
<1>.  QED  BY <1>1, ProxyStepIsVaultStep, PTL DEF ProxySpec, Spec, allVars

\* What a call retrieves is an error or what the file has.
LEMMA RetrieveGives ==
    ASSUME TypeOK, NEW v \in Vaults, NEW n \in Names
    PROVE  LET x == Retrieve(v, n)
           IN  /\ x \in Errors \/ (x \in Values /\ x = Stored(n))
               /\ x = "VaultLockedError" =>
                      /\ intact /\ n \in DOMAIN file.tokens
                      /\ ~ Decrypts(passphrase[v], file.salt, file.tokens[n])
<1>1. \A m \in DOMAIN file.tokens : file.tokens[m].value \in Values
      BY StateParts DEF TypeOK, Token
<1>2. \A x \in Values : x \notin Errors
      BY ProxyAssumption
<1>.  QED  BY <1>1, <1>2 DEF Retrieve, Errors, Stored

\* The credential that a call asks for is one of the names of its tool.
LEMMA WantedIsName ==
    ASSUME ProxyTyped, CallOK, NEW c \in Proxies, Resolving(c)
    PROVE  /\ Wanted(c) \in Names /\ VaultOf[c] \in Vaults
           /\ Len(given[c]) + 1 \in 1 .. Len(Credentials[tool[c]])
<1>1. tool[c] \in Tools /\ given[c] \in Seq(Values)
      BY DEF Resolving, CallOK, ProxyTyped
<1>3. Credentials[tool[c]] \in Seq(Names)
      BY <1>1, ProxyAssumption
<1>2. Credentials[tool[c]] # <<>>
      BY <1>1 DEF Resolving
<1>4. VaultOf[c] \in Vaults
      BY <1>2 DEF Resolving, CallOK
<1>5. Len(given[c]) \in Nat /\ Len(Credentials[tool[c]]) \in Nat
      BY <1>1, <1>3
<1>6. Len(given[c]) + 1 \in 1 .. Len(Credentials[tool[c]])
      BY <1>5 DEF Resolving
<1>7. Wanted(c) \in Names
      BY <1>3, <1>6 DEF Wanted
<1>.  QED  BY <1>4, <1>6, <1>7

\* What a proxy out of a call has.
LEMMA NothingGiven == <<>> \in Seq(Values) /\ \A i \in 1 .. Len(<<>>) : FALSE
<1>1. <<>> \in Seq(Values)
      OBVIOUS
<1>2. Len(<<>>) = 0
      OBVIOUS
<1>3. \A i \in 1 .. 0 : FALSE
      OBVIOUS
<1>.  QED  BY <1>1, <1>2, <1>3

\* The end of a call leaves no credential.
LEMMA EndStep ==
    ASSUME ProxyInvariant, NEW c \in Proxies, NEW what, End(c, what),
           what \in {"unknown tool", "no vault", "result", "error", "raised"} \cup Errors
    PROVE  ProxyTyped' /\ CallOK' /\ GivenOK'
<1>.  USE DEF ProxyInvariant
<1>1. /\ step' = [step EXCEPT ![c] = "idle"] /\ given' = [given EXCEPT ![c] = <<>>]
      /\ answer' = [answer EXCEPT ![c] = what]
      /\ UNCHANGED <<registry, tool, touched>> /\ file' = file
      BY DEF End, vars
<1>2. ProxyTyped'
  <2>1. given' \in [Proxies -> Seq(Values)]
        BY <1>1, NothingGiven DEF ProxyTyped
  <2>2. step' \in [Proxies -> {"idle", "resolve", "run"}]
        BY <1>1 DEF ProxyTyped
  <2>.  QED  BY <1>1, <2>1, <2>2 DEF ProxyTyped
<1>3. CallOK'
      BY <1>1 DEF ProxyTyped, CallOK
<1>5. given'[c] = <<>>
      BY <1>1 DEF ProxyTyped
<1>6. GivenOK'
  <2>.  SUFFICES ASSUME NEW d \in Proxies
                 PROVE  /\ step'[d] = "idle" => given'[d] = <<>>
                        /\ \A i \in 1 .. Len(given'[d]) :
                              \/ Credentials[tool'[d]][i] \in touched'[d]
                              \/ given'[d][i] = Stored(Credentials[tool[d]][i])'
        BY DEF GivenOK
  <2>1. CASE d = c
        BY <1>5, <2>1, NothingGiven
  <2>2. CASE d # c
    <3>1. given'[d] = given[d] /\ step'[d] = step[d]
          BY <1>1, <2>2 DEF ProxyTyped
    <3>.  QED  BY <1>1, <3>1 DEF GivenOK, Stored
  <2>.  QED  BY <2>1, <2>2
<1>.  QED  BY <1>2, <1>3, <1>6

\* A round of _resolve_credentials adds what the file has now.
LEMMA RetrieveStep ==
    ASSUME ProxyInvariant, NEW c \in Proxies, RetrieveNext(c)
    PROVE  ProxyTyped' /\ CallOK' /\ GivenOK'
<1>.  USE DEF ProxyInvariant
<1>.  DEFINE n == Wanted(c)
             x == Retrieve(VaultOf[c], n)
<1>1. Resolving(c)
      BY DEF RetrieveNext
<1>2. n \in Names /\ Len(given[c]) + 1 \in 1 .. Len(Credentials[tool[c]])
      /\ (x \in Errors \/ (x \in Values /\ x = Stored(n)))
      BY <1>1, WantedIsName, RetrieveGives
<1>3. CASE x \in Errors
      BY <1>3, EndStep DEF RetrieveNext
<1>4. CASE x \notin Errors
  <2>1. /\ given' = [given EXCEPT ![c] = Append(given[c], x)]
        /\ UNCHANGED <<registry, step, tool, answer, touched>> /\ file' = file
        BY <1>4 DEF RetrieveNext, vars
  <2>2. x \in Values /\ x = Stored(n) /\ given[c] \in Seq(Values) /\ step[c] # "idle"
        BY <1>1, <1>2, <1>4 DEF ProxyTyped, Resolving
  <2>.  HIDE DEF x
  <2>3. /\ Append(given[c], x) \in Seq(Values)
        /\ Len(Append(given[c], x)) = Len(given[c]) + 1
        /\ \A i \in 1 .. Len(given[c]) + 1 :
              Append(given[c], x)[i] = IF i = Len(given[c]) + 1 THEN x ELSE given[c][i]
        BY <2>2
  <2>4. \A d \in Proxies : given'[d] = IF d = c THEN Append(given[c], x) ELSE given[d]
        BY <2>1 DEF ProxyTyped
  <2>5. ProxyTyped'
        BY <2>1, <2>3 DEF ProxyTyped
  <2>6. CallOK'
        BY <1>2, <2>1, <2>3, <2>4 DEF CallOK
  <2>7. \A m : Stored(m)' = Stored(m)
        BY <2>1 DEF Stored
  <2>8. GivenOK'
    <3>.  SUFFICES ASSUME NEW d \in Proxies
                   PROVE  /\ step'[d] = "idle" => given'[d] = <<>>
                          /\ \A i \in 1 .. Len(given'[d]) :
                                \/ Credentials[tool'[d]][i] \in touched'[d]
                                \/ given'[d][i] = Stored(Credentials[tool[d]][i])'
          BY DEF GivenOK
    <3>1. CASE d = c
      <4>1. n = Credentials[tool[c]][Len(given[c]) + 1]
            BY DEF Wanted
      <4>2. ASSUME NEW i \in 1 .. Len(given[c])
            PROVE  \/ Credentials[tool[c]][i] \in touched[c]
                   \/ given[c][i] = Stored(Credentials[tool[c]][i])
            BY DEF GivenOK
      <4>3. given'[c] = Append(given[c], x)
            BY <2>4
      <4>4. ASSUME NEW i \in 1 .. Len(given[c]) + 1
            PROVE  \/ Credentials[tool[c]][i] \in touched[c]
                   \/ given'[c][i] = Stored(Credentials[tool[c]][i])
        <5>1. CASE i = Len(given[c]) + 1
              BY <2>2, <2>3, <4>1, <4>3, <5>1
        <5>2. CASE i # Len(given[c]) + 1
          <6>1. i \in 1 .. Len(given[c]) /\ given'[c][i] = given[c][i]
                BY <2>2, <2>3, <4>3, <5>2
          <6>.  QED  BY <4>2, <6>1
        <5>.  QED  BY <5>1, <5>2
      <4>.  QED  BY <2>1, <2>2, <2>3, <2>7, <3>1, <4>3, <4>4
    <3>2. CASE d # c
          BY <2>1, <2>4, <2>7, <3>2 DEF GivenOK
    <3>.  QED  BY <3>1, <3>2
  <2>.  QED  BY <2>5, <2>6, <2>8
<1>.  QED  BY <1>3, <1>4

\* A write of another call is counted against every call there is.
LEMMA OtherCallStep ==
    ASSUME ProxyInvariant, OtherCall
    PROVE  ProxyTyped' /\ CallOK' /\ GivenOK'
<1>.  USE DEF ProxyInvariant
<1>.  DEFINE changed == {n \in Names : Stored(n)' # Stored(n)}
<1>1. /\ touched' = [c \in Proxies |-> IF step[c] # "idle" THEN touched[c] \cup changed
                                                            ELSE touched[c]]
      /\ UNCHANGED <<registry, step, tool, given, answer>>
      BY DEF OtherCall
<1>2. ProxyTyped' /\ CallOK'
      BY <1>1 DEF ProxyTyped, CallOK
<1>3. GivenOK'
  <2>.  SUFFICES ASSUME NEW c \in Proxies, step[c] # "idle", NEW i \in 1 .. Len(given[c])
                 PROVE  \/ Credentials[tool[c]][i] \in touched'[c]
                        \/ given[c][i] = Stored(Credentials[tool[c]][i])'
    <3>1. Len(<<>>) = 0 /\ \A c \in Proxies : step[c] = "idle" => given[c] = <<>>
          BY DEF GivenOK
    <3>.  QED  BY <1>1, <3>1 DEF GivenOK
  <2>.  DEFINE n == Credentials[tool[c]][i]
  <2>1. n \in Names
    <3>1. Credentials[tool[c]] \in Seq(Names) /\ Len(given[c]) <= Len(Credentials[tool[c]])
          BY ProxyAssumption DEF CallOK
    <3>2. given[c] \in Seq(Values)
          BY DEF ProxyTyped
    <3>3. Len(given[c]) \in Nat /\ Len(Credentials[tool[c]]) \in Nat
          BY <3>1, <3>2
    <3>4. i \in 1 .. Len(Credentials[tool[c]])
          BY <3>1, <3>3
    <3>.  QED  BY <3>1, <3>4
  <2>2. n \in touched[c] \/ given[c][i] = Stored(n)
        BY DEF GivenOK
  <2>3. touched'[c] = touched[c] \cup changed
        BY <1>1
  <2>4. \A m \in Names : Stored(m)' = Stored(m) \/ m \in changed
        OBVIOUS
  <2>.  HIDE DEF changed
  <2>.  QED  BY <1>1, <2>1, <2>2, <2>3, <2>4
<1>.  QED  BY <1>2, <1>3

\* What is known of the calls outlasts every step.
LEMMA ProxyStep ==
    ASSUME ProxyInvariant, [ProxyNext]_allVars
    PROVE  ProxyInvariant'
<1>1. TypeOK' /\ SaltsOK'
      BY ProxyStepIsVaultStep, SaltedStep DEF ProxyInvariant
<1>2. ProxyTyped' /\ CallOK' /\ GivenOK'
  <2>.  USE DEF ProxyInvariant
  <2>1. CASE UNCHANGED allVars
        BY <2>1 DEF allVars, vars, proxyVars, ProxyTyped, CallOK, GivenOK, Stored
  <2>2. ASSUME NEW x \in Tools, Register(x) PROVE ProxyTyped' /\ CallOK' /\ GivenOK'
    <3>1. UNCHANGED <<vars, step, tool, given, answer, touched>>
          BY <2>2 DEF Register
    <3>2. registry' \in [ToolNames -> Tools \cup {None}]
          BY <2>2, ProxyAssumption DEF Register, ProxyTyped
    <3>.  QED  BY <3>1, <3>2 DEF vars, ProxyTyped, CallOK, GivenOK, Stored
  <2>3. ASSUME NEW c \in Proxies, NEW n \in ToolNames, UnknownTool(c, n) \/ NoVault(c, n)
        PROVE  ProxyTyped' /\ CallOK' /\ GivenOK'
        BY <2>3, EndStep DEF UnknownTool, NoVault
  <2>4. ASSUME NEW c \in Proxies, NEW n \in ToolNames, Lookup(c, n)
        PROVE  ProxyTyped' /\ CallOK' /\ GivenOK'
    <3>1. /\ step[c] = "idle" /\ given[c] = <<>> /\ registry[n] \in Tools
          /\ tool' = [tool EXCEPT ![c] = registry[n]]
          /\ step' = [step EXCEPT ![c] = "resolve"]
          /\ answer' = [answer EXCEPT ![c] = "none"]
          /\ touched' = [touched EXCEPT ![c] = {}]
          /\ UNCHANGED <<registry, given>> /\ file' = file
          BY <2>4 DEF Lookup, vars, ProxyTyped, GivenOK
    <3>2. Credentials[registry[n]] # <<>> => VaultOf[c] \in Vaults
          BY <2>4, ProxyAssumption DEF Lookup
    <3>3. ProxyTyped'
          BY <3>1 DEF ProxyTyped
    <3>4. Credentials[registry[n]] \in Seq(Names)
          BY <3>1, ProxyAssumption
    <3>5. Len(<<>>) = 0 /\ Len(<<>>) <= Len(Credentials[registry[n]])
      <4>1. Len(<<>>) = 0
            OBVIOUS
      <4>2. 0 <= Len(Credentials[registry[n]])
            BY <3>4
      <4>.  QED  BY <4>1, <4>2
    <3>6. CallOK'
      <4>.  SUFFICES ASSUME NEW d \in Proxies, step'[d] # "idle"
                     PROVE  /\ tool'[d] \in Tools
                            /\ Credentials[tool'[d]] # <<>> => VaultOf[d] \in Vaults
                            /\ Len(given'[d]) <= Len(Credentials[tool'[d]])
            BY DEF CallOK
      <4>1. CASE d = c
            BY <3>1, <3>2, <3>5, <4>1 DEF ProxyTyped
      <4>2. CASE d # c
            BY <3>1, <4>2 DEF ProxyTyped, CallOK
      <4>.  QED  BY <4>1, <4>2
    <3>7. GivenOK'
      <4>.  SUFFICES ASSUME NEW d \in Proxies
                     PROVE  /\ step'[d] = "idle" => given[d] = <<>>
                            /\ \A i \in 1 .. Len(given[d]) :
                                  \/ Credentials[tool'[d]][i] \in touched'[d]
                                  \/ given[d][i] = Stored(Credentials[tool[d]][i])'
            BY <3>1 DEF GivenOK
      <4>1. CASE d = c
            BY <3>1, <4>1, NothingGiven
      <4>2. CASE d # c
        <5>1. step'[d] = step[d] /\ tool'[d] = tool[d] /\ touched'[d] = touched[d]
              BY <3>1, <4>2 DEF ProxyTyped
        <5>.  QED  BY <3>1, <5>1 DEF GivenOK, Stored
      <4>.  QED  BY <4>1, <4>2
    <3>.  QED  BY <3>3, <3>6, <3>7
  <2>5. ASSUME NEW c \in Proxies, ExecuteStep(c)
        PROVE  ProxyTyped' /\ CallOK' /\ GivenOK'
    <3>1. CASE RetrieveNext(c)
          BY <3>1, RetrieveStep
    <3>2. CASE RunTool(c)
      <4>1. /\ step[c] = "resolve" /\ step' = [step EXCEPT ![c] = "run"]
            /\ UNCHANGED <<registry, tool, given, answer, touched>> /\ file' = file
            BY <3>2 DEF RunTool, vars
      <4>.  QED  BY <4>1 DEF ProxyTyped, CallOK, GivenOK, Stored
    <3>3. CASE ToolReturns(c)
          BY <3>3, EndStep DEF ToolReturns
    <3>.  QED  BY <2>5, <3>1, <3>2, <3>3 DEF ExecuteStep
  <2>6. ASSUME NEW v \in Vaults, NEW p \in Passphrases, ProxyRestart(v, p)
        PROVE  ProxyTyped' /\ CallOK' /\ GivenOK'
    <3>1. file' = file /\ UNCHANGED <<registry, tool, touched>>
          BY <2>6 DEF ProxyRestart, Restart, diskVars
    <3>2. \A c \in Proxies : \/ (step'[c] = step[c] /\ given'[c] = given[c])
                              \/ (step'[c] = "idle" /\ given'[c] = <<>>)
          BY <2>6 DEF ProxyRestart
    <3>3. ProxyTyped'
          BY <2>6, <3>1, NothingGiven DEF ProxyRestart, ProxyTyped
    <3>4. CallOK'
          BY <3>1, <3>2 DEF CallOK
    <3>5. GivenOK'
          BY <3>1, <3>2, NothingGiven DEF GivenOK, Stored
    <3>.  QED  BY <3>3, <3>4, <3>5
  <2>.  QED  BY <2>1, <2>2, <2>3, <2>4, <2>5, <2>6, OtherCallStep DEF ProxyNext
<1>.  QED  BY <1>1, <1>2 DEF ProxyInvariant

\* No call runs at first.
LEMMA ProxyInitOK == ProxyInit => ProxyInvariant
<1>.  SUFFICES ASSUME ProxyInit PROVE ProxyInvariant
      OBVIOUS
<1>1. TypeOK /\ SaltsOK
      BY InitSalted DEF ProxyInit
<1>2. ProxyTyped
      BY NothingGiven DEF ProxyInit, ProxyTyped
<1>3. CallOK /\ GivenOK
      BY NothingGiven DEF ProxyInit, CallOK, GivenOK
<1>.  QED  BY <1>1, <1>2, <1>3 DEF ProxyInvariant

\* Any number of proxies, vaults and other threads: a tool runs with the credentials
\* as they are stored, but for those another call wrote since its own began.
THEOREM CallsOwnCredentials == ProxySpec => []CredentialsOfThisCall
<1>1. ProxyInvariant => CredentialsOfThisCall
  <2>1. ASSUME ProxyTyped, NEW c \in Proxies PROVE DOMAIN given[c] = 1 .. Len(given[c])
    <3>1. given[c] \in Seq(Values)
          BY <2>1 DEF ProxyTyped
    <3>.  QED  BY <3>1
  <2>.  QED  BY <2>1 DEF ProxyInvariant, GivenOK, CredentialsOfThisCall
<1>.  QED  BY <1>1, ProxyInitOK, ProxyStep, PTL DEF ProxySpec, allVars

\* A call that is refused for the key was refused by an object that failed to write
\* a new passphrase, and never by one in the middle of changing it.
LEMMA LockedOutStep ==
    ASSUME OneObject, OneObjectInvariant, ProxyInvariant, ProxyNext,
           NEW c \in Proxies, answer'[c] = "VaultLockedError", answer[c] # "VaultLockedError"
    PROVE  botched[VaultOf[c]]
<1>.  USE DEF ProxyInvariant
<1>1. ASSUME NEW d \in Proxies, NEW what, End(d, what), what # "VaultLockedError"
      PROVE  FALSE
      BY <1>1 DEF End, ProxyTyped
<1>2. PICK d \in Proxies : RetrieveNext(d)
  <2>1. ASSUME NEW x \in Tools, Register(x) PROVE FALSE
        BY <2>1 DEF Register
  <2>2. ASSUME NEW d \in Proxies, NEW n \in ToolNames,
               UnknownTool(d, n) \/ NoVault(d, n) \/ Lookup(d, n)
        PROVE  FALSE
        BY <1>1, <2>2 DEF UnknownTool, NoVault, Lookup, ProxyTyped
  <2>3. ASSUME NEW d \in Proxies, RunTool(d) \/ ToolReturns(d) PROVE FALSE
        BY <1>1, <2>3 DEF RunTool, ToolReturns
  <2>4. ~ OtherCall
        BY DEF OtherCall
  <2>5. ASSUME NEW v \in Vaults, NEW p \in Passphrases, ProxyRestart(v, p) PROVE FALSE
        BY <2>5 DEF ProxyRestart
  <2>.  QED  BY <2>1, <2>2, <2>3, <2>4, <2>5 DEF ProxyNext, ExecuteStep
<1>.  DEFINE x == Retrieve(VaultOf[d], Wanted(d))
<1>3. /\ Resolving(d) /\ lock[VaultOf[d]] = None
      /\ IF x \in Errors THEN End(d, x) ELSE UNCHANGED answer
      BY <1>2 DEF RetrieveNext
<1>.  HIDE DEF x
<1>4. End(d, x) /\ x = "VaultLockedError" /\ c = d
      BY <1>1, <1>3 DEF End, ProxyTyped
<1>5. /\ Wanted(d) \in Names /\ VaultOf[d] \in Vaults
      /\ Wanted(d) \in DOMAIN file.tokens
      /\ ~ Decrypts(passphrase[VaultOf[d]], file.salt, file.tokens[Wanted(d)])
      BY <1>3, <1>4, WantedIsName, RetrieveGives DEF x
<1>6. \A t \in Threads : pc[t] # "rotate"
      BY <1>3, <1>5, VaultAssumption DEF OneObjectInvariant, LockOK, InCall, OneObject
<1>.  QED  BY <1>4, <1>5, <1>6 DEF OneObjectInvariant, FileOK, OpensIn

\* One object, any number of proxies and threads: while the passphrase is being
\* changed a lookup waits, so that none is refused unless a change failed to write.
THEOREM LookupsWait ==
    ASSUME OneObject
    PROVE  ProxySpec => NoLockedOutLookup
<1>1. ProxyInit => OneObjectInvariant
      BY OneObjectInit DEF ProxyInit
<1>2. OneObjectInvariant /\ [ProxyNext]_allVars => OneObjectInvariant'
      BY ProxyStepIsVaultStep, OneObjectStep
<1>3. ASSUME OneObjectInvariant, ProxyInvariant, [ProxyNext]_allVars
      PROVE  [\A c \in Proxies : answer'[c] = "VaultLockedError" /\ answer[c] # "VaultLockedError"
                                     => botched[VaultOf[c]]]_allVars
      BY <1>3, LockedOutStep
<1>.  QED  BY <1>1, <1>2, <1>3, ProxyInitOK, ProxyStep, PTL
           DEF ProxySpec, NoLockedOutLookup, allVars

\* One object under any number of proxies: what is stored stays retrievable, and its
\* credentials change one call at a time.
THEOREM ProxiedVaultKeepsAll ==
    ASSUME OneObject
    PROVE  ProxySpec => []EverythingRetrievable /\ ImplementsCredentialStore
  BY ProxyKeepsVault, AllRetrievable, VaultImplementsStore, PTL
=============================================================================
