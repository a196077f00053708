SPECIFICATION FairSpec
CONSTANTS
    Tabs = {t1, t2}
    None = None
    ContextLifetime = 1
    MaxContexts = 2
    MaxEvents = 2
CHECK_DEADLOCK FALSE
INVARIANTS
    ActsForItsPage
    CalmFormWorks
PROPERTIES
    EveryClickIsAnswered
