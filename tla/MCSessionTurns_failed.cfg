\* An archive append that fails after the commit.
SPECIFICATION Spec
CONSTANTS
    c = c
    r1 = r1
    r2 = r2
    Request = {c, r1, r2}
    Creator = c
    Nothing = Nothing
    CreatePaths = {"blank", "seed"}
    Ops = {"turn"}
    Messages <- DesignMessages
    QuestionnaireAfter = 1
    ArchiveMayFail = TRUE
    MayCrash = FALSE
SYMMETRY Interchangeable
INVARIANTS
    FailedTurnKeepsIR
