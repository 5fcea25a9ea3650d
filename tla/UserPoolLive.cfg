SPECIFICATION LiveSpec
CONSTANTS
    Users = {u1, u2}
    Requests = {r1, r2}
    Entries = {e1, e2}
    Tokens = {t1}
    MaxUsers = 1
    MaxCalls = 1
    IdleTTL = 0
    CanStop = FALSE
    NoEntry = NoEntry
PROPERTIES
    NobodyIsForgotten
