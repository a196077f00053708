SPECIFICATION Spec
CONSTANTS
    Logins = {l1, l2}
    Accounts = {a1, a2}
    NoAccount = NoAccount
    MaxAccountEntries = 1
    AccountAttempts = 2
    AccountWindow = 1
    GlobalBurst = 4
    RefillTicks = 2
    MaxTime = 4
SYMMETRY LoginSymmetry
INVARIANTS
    TypeOK
    GlobalRateIsBounded
    AccountRateIsBounded
    TableIsBounded
PROPERTY WindowIsNotExtended
