SPECIFICATION ProxySpec
CONSTANTS
    Threads = {t1, t2}
    v1 = v1
    Vaults = {v1}
    n1 = n1
    n2 = n2
    Names = {n1, n2}
    Values = {x1, x2}
    Passphrases = {p1, p2}
    Salts = {k1, k2, k3}
    None = None
    full = full
    bare = bare
    Proxies = {full, bare}
    ToolNames = {"fetch"}
    pair = pair
    single = single
    Tools <- MCTools
    NameOf <- MCNameOf
    Credentials <- MCCredentials
    VaultOf <- MCVaultOf
SYMMETRY Symmetry
INVARIANT EverythingRetrievable
INVARIANT CredentialsOfThisCall
PROPERTY ImplementsCredentialStore
PROPERTY NoLockedOutLookup
CHECK_DEADLOCK FALSE
