SPECIFICATION Spec
CONSTANTS
    Threads = {t1, t2}
    Vaults = {v1, v2}
    Names = {n1, n2}
    Values = {x1, x2}
    Passphrases = {p1, p2}
    Salts = {k1, k2, k3}
    None = None
SYMMETRY Symmetry
PROPERTY OneCredentialPerWrite
