\* set_llm_config against a turn.
SPECIFICATION Spec
CONSTANTS
    c = c
    r1 = r1
    r2 = r2
    Request = {c, r1, r2}
    Creator = c
    Nothing = Nothing
    CreatePaths = {"blank", "seed"}
    Ops = {"turn", "config"}
    Messages <- DesignMessages
    QuestionnaireAfter = 1
    ArchiveMayFail = FALSE
    MayCrash = FALSE
SYMMETRY Interchangeable
PROPERTIES
    ConfigKeepsState
