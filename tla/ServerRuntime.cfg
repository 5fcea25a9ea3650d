SPECIFICATION Spec
CONSTANTS
    c1 = c1
    c2 = c2
    c3 = c3
    i1 = i1
    i2 = i2
    Calls = {c1, c2, c3}
    Instances = {i1, i2}
    Instance <- MCInstance
    UserCap = 1
    ScanCap = 1
    Budget = 1
    Requests = {r1, r2}
    Drain = 2
    Callers = {b1, b2}
    Timeout = 1
    Cooldown = 2
    NoCaller = NoCaller
INVARIANTS SlotsExact OneBudget ClosedAfterDrain
PROPERTIES ScansAreRare NobodyWaitsForever
