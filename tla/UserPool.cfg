SYMMETRY Symmetry
SPECIFICATION Spec
CONSTANTS
    Users = {u1, u2}
    Requests = {r1, r2, r3}
    Entries = {e1, e2, e3}
    Tokens = {t1}
    MaxUsers = 1
    MaxCalls = 1
    IdleTTL = 0
    CanStop = TRUE
    NoEntry = NoEntry
INVARIANTS
    NoUseAfterClose
    ClosedOnce
    NothingLeaks
    OneAssemblyPerUser
    UserConcurrency
