SPECIFICATION Spec
CONSTANTS
    PageInputs <- MCPages
    Filters <- MCFilters
    PageSizes = {1, 2}
    MaxScan = 3
    ProfileInputs <- MCProfiles
    Texts = {{}, {1}, {2, 3}, {1, 2, 3}}
    Limits = {0, 1}
    Shares = {0, 4000}
    NodeBudgets = {2, 5}
    TrendInputs <- MCTrends
    MaxProfiles = 3
    CacheSize = 2
    Foreign = 9
    Listings = {"logs", "traces", "events"}
    Sizes = {0, 1, 2, 3, 4}
    PageLimits = {1, 2, 3}
    MaxEmpty = 1
    LogInputs <- MCLogs
    EntrySizes <- MCEntrySizes
    ResultLimits = {1, 2, 4}
    LogsHardLimit = 3
    TopServices = 2
    ErrorSeverity = 2
    K8sContainer = 101
    SpanInputs <- MCSpans
    GroupInputs <- MCGroups
    GroupLimits = {1, 2}
    SeriesInputs <- MCSeries
    Specs <- MCSpecs
    MaxTimeSeries = 3
    MaxCarryForwardBuckets = 2
    MaxFinite = 9
    SignalInputs <- MCSignals
    None = None
    ToolInputs <- MCTools
    RelatedConcurrency = 1
    ContributorLimit = 2
INVARIANTS
    PagingExact CostsAgree TrendsComplete ScansHonest ReportsComplete
    SeriesExact VerdictsSound VerdictsUnbiased ToolsHonest
