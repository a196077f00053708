SPECIFICATION RecordsSpec
CONSTANTS
    Requests = {r1, r2}
    MaxRecords = 2
    Callers = {c1, c2, c3}
    References = {e1, e2, e3, e4}
    NoReference = NoReference
INVARIANTS
    AuditTruth
    ReplyIsTruthful
    UnresolvedIsFlagged
    KeepsTheNewest
    ShownIsTraceable
PROPERTIES
    VerdictIsFinal
    ImplementsAuditedOperation
    EveryRequestEnds
