------------------------------ MODULE ToolProxy ------------------------------
(***************************************************************************)
(* ToolProxy.execute (proxy/service.py) over the registry of proxy tools   *)
(* and a Vault: a call looks its tool up, retrieves the credentials the    *)
(* tool names one after the other, runs the tool with them and makes a     *)
(* ToolResult of what it returns, while other threads store, revoke and    *)
(* change the passphrase of the same Vault object.                         *)
(***************************************************************************)
EXTENDS Vault, Integers, Sequences

CONSTANTS Proxies,       \* ToolProxy objects, each of a harness that calls one tool
                         \* at a time
          ToolNames,     \* names a model may call
          Tools,         \* ProxyTool objects
          NameOf,        \* the name of each
          Credentials,   \* ... and its credential_names
          VaultOf        \* the _vault of each proxy, or None

\* What retrieve raises; no credential is an exception.
Errors == {"VaultConfigurationError", "VaultCredentialNotFoundError", "VaultLockedError"}

ASSUME ProxyAssumption ==
    /\ NameOf \in [Tools -> ToolNames] /\ Credentials \in [Tools -> Seq(Names)]
    /\ VaultOf \in [Proxies -> Vaults \cup {None}] /\ None \notin Tools
    /\ Values \cap Errors = {}

VARIABLES registry,    \* the tool of each name, or None
          step, tool,  \* each proxy: where execute is, and the tool it runs
          given,       \* ... the credentials it has, in the order of the names
          answer,      \* ... and what the last call came to
          touched      \* history: credentials written since the call began

proxyVars == <<registry, step, tool, given, answer, touched>>

ProxyInit ==
    /\ Init
    /\ registry = [n \in ToolNames |-> None]
    /\ step = [c \in Proxies |-> "idle"] /\ tool = [c \in Proxies |-> None]
    /\ given = [c \in Proxies |-> <<>>]
    /\ answer = [c \in Proxies |-> "none"]
    /\ touched = [c \in Proxies |-> {}]

-----------------------------------------------------------------------------
(* The registry *)

\* register_proxy_tool: the same tool again changes nothing, and another tool of the
\* name is refused with a ValueError.
Register(x) ==
    /\ registry[NameOf[x]] = None
    /\ registry' = [registry EXCEPT ![NameOf[x]] = x]
    /\ UNCHANGED <<vars, step, tool, given, answer, touched>>

-----------------------------------------------------------------------------
(* execute *)

\* Variant: the credentials are kept for the next call.
EndKept(c, what) ==
    /\ step' = [step EXCEPT ![c] = "idle"]
    /\ answer' = [answer EXCEPT ![c] = what]
    /\ UNCHANGED <<vars, registry, tool, given, touched>>

\* The call is over, and the credentials it had are gone.
End(c, what) ==
    /\ step' = [step EXCEPT ![c] = "idle"]
    /\ answer' = [answer EXCEPT ![c] = what]
    /\ given' = [given EXCEPT ![c] = <<>>]
    /\ UNCHANGED <<vars, registry, tool, touched>>

UnknownTool(c, n) ==
    /\ step[c] = "idle" /\ registry[n] = None
    /\ End(c, "unknown tool")

NoVault(c, n) ==
    /\ step[c] = "idle" /\ registry[n] # None
    /\ Credentials[registry[n]] # <<>> /\ VaultOf[c] = None
    /\ End(c, "no vault")

Lookup(c, n) ==
    /\ step[c] = "idle" /\ registry[n] # None
    /\ Credentials[registry[n]] # <<>> => VaultOf[c] # None
    /\ tool' = [tool EXCEPT ![c] = registry[n]]
    /\ step' = [step EXCEPT ![c] = "resolve"]
    /\ answer' = [answer EXCEPT ![c] = "none"]
    /\ touched' = [touched EXCEPT ![c] = {}]
    /\ UNCHANGED <<vars, registry, given>>

\* The first credential it does not have.
Wanted(c) == Credentials[tool[c]][Len(given[c]) + 1]

Resolving(c) ==
    /\ step[c] = "resolve"
    /\ Len(given[c]) < Len(Credentials[tool[c]])

\* Variant: without the lock.
RetrieveNextUnlocked(c) ==
    LET x == Retrieve(VaultOf[c], Wanted(c)) IN
    /\ Resolving(c)
    /\ IF x \in Errors
       THEN End(c, x)
       ELSE /\ given' = [given EXCEPT ![c] = Append(@, x)]
            /\ UNCHANGED <<vars, registry, step, tool, answer, touched>>

\* One round of _resolve_credentials: vault.retrieve, under the lock of its object.
RetrieveNext(c) ==
    LET x == Retrieve(VaultOf[c], Wanted(c)) IN
    /\ Resolving(c)
    /\ lock[VaultOf[c]] = None
    /\ IF x \in Errors
       THEN End(c, x)
       ELSE /\ given' = [given EXCEPT ![c] = Append(@, x)]
            /\ UNCHANGED <<vars, registry, step, tool, answer, touched>>

\* All are resolved: tool.fn is awaited.
RunTool(c) ==
    /\ step[c] = "resolve" /\ Len(given[c]) = Len(Credentials[tool[c]])
    /\ step' = [step EXCEPT ![c] = "run"]
    /\ UNCHANGED <<vars, registry, tool, given, answer, touched>>

\* _normalize_result: a ToolResult, a text or a mapping; what raised or is none of
\* these becomes an error result. A mapping that json.dumps refuses (a key that is
\* neither text nor number, a cycle) raises out of execute, and so does a cancellation.
ToolReturns(c) ==
    /\ step[c] = "run"
    /\ \E what \in {"result", "error", "raised"} : End(c, what)

\* The process dies with the calls in it.
ProxyRestart(v, p) ==
    /\ Restart(v, p)
    /\ LET dead == {c \in Proxies : VaultOf[c] = v /\ step[c] # "idle"} IN
       /\ step' = [c \in Proxies |-> IF c \in dead THEN "idle" ELSE step[c]]
       /\ answer' = [c \in Proxies |-> IF c \in dead THEN "died" ELSE answer[c]]
       /\ given' = [c \in Proxies |-> IF c \in dead THEN <<>> ELSE given[c]]
    /\ UNCHANGED <<registry, tool, touched>>

\* A call of another thread on the vault.
OtherCall ==
    /\ VaultCall
    /\ LET changed == {n \in Names : Stored(n)' # Stored(n)} IN
       touched' = [c \in Proxies |-> IF step[c] # "idle"
                                      THEN touched[c] \cup changed ELSE touched[c]]
    /\ UNCHANGED <<registry, step, tool, given, answer>>

ExecuteStep(c) == RetrieveNext(c) \/ RunTool(c) \/ ToolReturns(c)

ProxyNext ==
    \/ \E x \in Tools : Register(x)
    \/ \E c \in Proxies :
          \/ \E n \in ToolNames : UnknownTool(c, n) \/ NoVault(c, n) \/ Lookup(c, n)
          \/ ExecuteStep(c)
    \/ OtherCall
    \/ \E v \in Vaults, p \in Passphrases : ProxyRestart(v, p)

ProxySpec == ProxyInit /\ [][ProxyNext]_<<vars, proxyVars>>

-----------------------------------------------------------------------------
(* Properties *)

\* "Fetch credentials at execute time": a tool runs with credentials as they are
\* stored, except those another thread stored anew or revoked since its own call
\* began: never with what an earlier call had retrieved.
CredentialsOfThisCall ==
    \A c \in Proxies : step[c] = "run" /\ intact =>
        \A i \in DOMAIN given[c] :
            LET n == Credentials[tool[c]][i]
            IN  n \in touched[c] \/ given[c][i] = Stored(n)

\* A call that is refused because the vault does not open was refused by a vault of
\* which a change_passphrase failed to write: while the passphrase is being changed,
\* the call waits.
NoLockedOutLookup ==
    [][\A c \in Proxies : answer'[c] = "VaultLockedError" /\ answer[c] # "VaultLockedError"
                            => botched[VaultOf[c]]]_<<vars, proxyVars>>
==============================================================================
