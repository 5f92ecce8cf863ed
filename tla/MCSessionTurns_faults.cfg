\* Every operation, every message, archive failures and crashes.
SPECIFICATION Spec
CONSTANTS
    c = c
    r1 = r1
    r2 = r2
    Request = {c, r1, r2}
    Creator = c
    Nothing = Nothing
    CreatePaths = {"blank", "seed"}
    Ops = {"turn", "config", "compile", "download", "delete"}
    Messages <- OneOfEach
    QuestionnaireAfter = 1
    ArchiveMayFail = TRUE
    MayCrash = TRUE
SYMMETRY Interchangeable
INVARIANTS
    RevisionNamesContent
    Provenance
    ArchivedIsCommitted
    ConflictAppliesNothing
    StateMatchesRows
