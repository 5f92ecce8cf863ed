\* Two calls overlap.
SPECIFICATION Spec
CONSTANTS
    a1 = a1
    a2 = a2
    a3 = a3
    a4 = a4
    d1 = d1
    d2 = d2
    None = None
    Appends = {a1, a2, a3}
    Digest <- MCDigest3
    Size <- MCSize3
    MaxBytes = 4
    Regimes <- OnlyPairs
INVARIANTS
    ChainValid
