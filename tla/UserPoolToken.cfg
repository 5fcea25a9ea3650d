SPECIFICATION Spec
CONSTANTS
    Users = {u1}
    Requests = {r1, r2}
    Entries = {e1, e2}
    Tokens = {t1, t2}
    MaxUsers = 1
    MaxCalls = 2
    IdleTTL = 0
    CanStop = FALSE
    NoEntry = NoEntry
INVARIANTS
    TokenAlwaysValid
