\* Every graph of four nodes is planned with retries, and documents by hand and planned
\* are pushed by two commands with two failed calls or kills.
SPECIFICATION Spec
CONSTANTS
    None = None
    NotJson = NotJson
    NoObject = NoObject
    p1 = p1
    p2 = p2
    Granted = {"kb", "cred", "cred2", "tool", "tool2"}
    MaxRetries = 2
    LowerCase <- MCLowerCase
    Room = 2
    MaxTurns = 3
    MaxFaults = 2
    Pushers = {p1, p2}
    Scenarios <- MCScenarios
    Settings <- MCSettings
INVARIANTS
    JudgedByItsGraph
    FeedbackIsCurrent
    AcceptedIsDrawable
    GraphIsTheDocument
    EditDoesWhatItSays
    GateStays
    ChangesSurface
    ToldPublished
    OneAppPerName
PROPERTIES
    FollowsLife
CHECK_DEADLOCK FALSE
