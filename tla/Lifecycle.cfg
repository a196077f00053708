SPECIFICATION FairSpec
CONSTANT Connections = {c1, c2}
CHECK_DEADLOCK FALSE
INVARIANTS
    TasksEndBeforeClosing
    NothingIsLeftOpen
    CompletedDrainCutsNobodyOff
PROPERTIES
    LateProbesAreNotReady
    ProcessExits
