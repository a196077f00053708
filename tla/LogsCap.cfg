SPECIFICATION ViewLogs
CONSTANTS
    LogTailLines = 2
    MaxLogBytes = 5
    MaxStream = 6
    None = None
CHECK_DEADLOCK FALSE
INVARIANT DecodedOutputIsCapped
