SPECIFICATION CallsSpec
CONSTANTS
    Servers = {s1, s2}
    Workers = {w1, w2}
    Handlers = {}
    NoServer = NoServer
    MaxFailures = 3
    LogTailLines = 2
    MaxLogBytes = 5
    MaxStream = 6
    None = None
INVARIANTS
    TypeOK
    PollOwnsItsChecks
    ShownIsTheEnd
    ShownIsBounded
    FailureIsExplained
PROPERTIES
    ChecksConclude
    CancelledPollerStops
CHECK_DEADLOCK FALSE
