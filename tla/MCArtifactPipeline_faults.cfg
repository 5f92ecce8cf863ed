\* Two compiles, and three requests that download, deploy or delete.
SPECIFICATION Spec
CONSTANTS
    c1 = c1
    c2 = c2
    r1 = r1
    r2 = r2
    r3 = r3
    Compiles = {c1, c2}
    Others = {r1, r2, r3}
    Nothing = Nothing
    MayFail = TRUE
    MayCrash = TRUE
SYMMETRY Interchangeable
INVARIANTS
    DeliversWhole
    AnsweredIsComplete
    RegisteredIsObtainable
    ArchiveIsBacked
