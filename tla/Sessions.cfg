SPECIFICATION Spec
CONSTANTS
    Users = {u1, u2}
    Logins = {l1, l2}
    Requests = {q1, q2}
    NoUser = NoUser
    NoToken = NoToken
    Lifetime = 3
    TicksPerSecond = 2
    MaxTime = 5
    MaxChanges = 1
SYMMETRY ActorSymmetry
INVARIANTS
    NoSessionOutlivesAChange
    LogoutIsFinal
PROPERTIES
    AuthenticatesOnlyLiveSessions
    CleanupIsAccurate
