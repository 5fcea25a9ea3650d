SPECIFICATION Spec
CONSTANTS
    Flows = {f1}
    Handlers = {h1, h2}
    Exact <- MCExact
    LoopbackHosts = {"localhost"}
    URIs <- MCURIs
    Registrations <- MCRegistrations
    Rings <- MCRings
    MaxClients = 1
    SkipConsent = FALSE
    Pinned = TRUE
    StateTTL = 1
    MaxTime = 2
    Faults = {"fail", "lost_ack"}
SYMMETRY Symmetry
INVARIANTS OneCodePerLogin RedirectsTrusted RotationKeepsLogins
