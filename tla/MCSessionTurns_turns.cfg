\* Three concurrent turns on a blank session, no faults.
SPECIFICATION Spec
CONSTANTS
    c = c
    r1 = r1
    r2 = r2
    r3 = r3
    Request = {c, r1, r2, r3}
    Creator = c
    Nothing = Nothing
    CreatePaths = {"blank"}
    Ops = {"turn"}
    Messages <- DesignMessages
    QuestionnaireAfter = 1
    ArchiveMayFail = FALSE
    MayCrash = FALSE
SYMMETRY Interchangeable
INVARIANTS
    OneWinnerPerRevision
PROPERTIES
    EditsChain
    PlansTheReviewedBrief
