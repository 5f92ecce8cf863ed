\* One call at a time, or three at once with writes that are cut short; with payloads
\* that split and without.
SPECIFICATION Spec
CONSTANTS
    a1 = a1
    a2 = a2
    a3 = a3
    a4 = a4
    d1 = d1
    d2 = d2
    None = None
    Appends = {a1, a2, a3, a4}
    Digest <- MCDigest4
    Size <- MCSize4
    MaxBytes = 4
    Regimes <- AllButPairs
INVARIANTS
    OrderlyChainValid
    FilesBounded
    NoneSkipped
    ReturnedIsRecorded
PROPERTIES
    DamageIsFinal
    KeepsPromise
