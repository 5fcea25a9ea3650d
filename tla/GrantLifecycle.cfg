SPECIFICATION Spec
CONSTANTS
    Families = {f1}
    Requests = {r1, r2}
    CodeTTL = 1
    RefreshTTL = 2
    AccessTTL = 1
    GoogleTTLs = {0, 2}
    Faults = {"fail", "lost_ack"}
    MaxTime = 3
    MaxSecrets = 2
SYMMETRY Symmetry
INVARIANTS
    TypeOK
    OneSuccessor
    ZeroNeverStored
    ReplayedMeansRevoked
    NoAcceptAfterRevocation
    AcceptWithinLifetimes
    LocalRevokeFirst
    ActiveSecretReachable
PROPERTIES
    NoResurrection
    SpentTokenRevokesNothing
