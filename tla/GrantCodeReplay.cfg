SPECIFICATION Spec
CONSTANTS
    Families = {f1}
    Requests = {r1, r2}
    CodeTTL = 1
    RefreshTTL = 2
    AccessTTL = 1
    GoogleTTLs = {2}
    Faults = {}
    MaxTime = 2
    MaxSecrets = 1
INVARIANTS
    CodeReuseMeansRevoked
