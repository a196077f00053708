SPECIFICATION Spec
CONSTANTS
    Servers = {s1}
    Workers = {w1}
    Handlers = {h1, h2}
    NoServer = NoServer
    MaxFailures = 3
SYMMETRY ActorSymmetry
INVARIANTS
    UnavailableIsExplained
    SequentialStatusIsLatest
PROPERTY OneDiagnosticPerOutage
