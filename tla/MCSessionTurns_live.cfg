\* Every turn ends when nothing fails.
SPECIFICATION FairSpec
CONSTANTS
    c = c
    r1 = r1
    r2 = r2
    Request = {c, r1, r2}
    Creator = c
    Nothing = Nothing
    CreatePaths = {"blank", "seed"}
    Ops = {"turn", "delete"}
    Messages <- PlainMessages
    QuestionnaireAfter = 1
    ArchiveMayFail = FALSE
    MayCrash = FALSE
PROPERTIES
    EveryTurnEnds
