SPECIFICATION Spec
CONSTANTS
    m1 = m1
    m2 = m2
    m3 = m3
    x2 = x2
    Processes = {p1, p2, p3}
    Migrations = {m1, m2, m3, x2}
    Builds <- MCBuilds
    NoProcess = NoProcess
SYMMETRY ProcessSymmetry
INVARIANTS
    RecordedIsApplied
    ReadyHasItsSchema
PROPERTY ImplementsSchemaHistory
