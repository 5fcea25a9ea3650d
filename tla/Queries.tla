--------------------------------- MODULE Queries ---------------------------------
(***************************************************************************)
(* The queries behind the tools: those for metrics (MetricQueries), those  *)
(* for profiles (ProfilePages, ProfileCosts, ProfileTrends) and those for  *)
(* logs, traces and errors (LogPages, LogScans, TraceReports).             *)
(*                                                                         *)
(* Tool calls of different clients share nothing but what ToolLimits and   *)
(* ProfileCache model, so a behaviour is one client's calls of one kind,   *)
(* part; each kind's module has the variables input, call and answer.      *)
(***************************************************************************)
EXTENDS MetricQueries

CONSTANTS
    PageInputs, Filters, PageSizes, MaxScan,                      \* ProfilePages
    ProfileInputs, Texts, Limits, Shares, NodeBudgets,            \* ProfileCosts
    TrendInputs, MaxProfiles, CacheSize, Foreign,                 \* ProfileTrends
    Listings, Sizes, PageLimits, MaxEmpty,                        \* LogPages
    LogInputs, EntrySizes, ResultLimits, LogsHardLimit,
    TopServices, ErrorSeverity, K8sContainer,                     \* LogScans
    SpanInputs, GroupInputs, GroupLimits                          \* TraceReports

VARIABLES cache, live, lost   \* ProfileTrends

Pages == INSTANCE ProfilePages
Costs == INSTANCE ProfileCosts
Trends == INSTANCE ProfileTrends
Listing == INSTANCE LogPages
Scans == INSTANCE LogScans
Reports == INSTANCE TraceReports

trendVars == <<cache, live, lost>>
vars == <<metricVars, trendVars>>

NoTrend == cache = <<>> /\ live = TRUE /\ lost = {}

Init ==
    \/ MetricInit /\ NoTrend
    \/ part = "pages" /\ Pages!Init /\ NoTrend
    \/ part = "costs" /\ Costs!Init /\ NoTrend
    \/ part = "trends" /\ Trends!Init
    \/ part = "listing" /\ Listing!Init /\ NoTrend
    \/ part = "scans" /\ Scans!Init /\ NoTrend
    \/ part = "reports" /\ Reports!Init /\ NoTrend

Next ==
    \/ MetricNext /\ UNCHANGED trendVars
    \/ part = "pages" /\ Pages!Next /\ UNCHANGED <<part, trendVars>>
    \/ part = "costs" /\ Costs!Next /\ UNCHANGED <<part, trendVars>>
    \/ part = "trends" /\ Trends!Next /\ UNCHANGED part
    \/ part = "listing" /\ Listing!Next /\ UNCHANGED <<part, trendVars>>
    \/ part = "scans" /\ Scans!Next /\ UNCHANGED <<part, trendVars>>
    \/ part = "reports" /\ Reports!Next /\ UNCHANGED <<part, trendVars>>

Spec == Init /\ [][Next]_vars

-----------------------------------------------------------------------------
(* A client that follows the tokens gets every match once and in order,    *)
(* of profiles (profiler.go:118-201); and of log entries, traces and error *)
(* events (logs.go:201-222, traces.go:81-123, errors.go:192-230) no entry  *)
(* twice, and every entry while the API's pages are full.                  *)
PagingExact ==
    /\ part = "pages" => Pages!PagingExact
    /\ part = "listing" => Listing!ListingSound

(* The views of a profile add up and agree, whatever the shape of its      *)
(* stacks (profiler.go:422-774, 1121-1168, profiler_navigation.go:59-162). *)
CostsAgree == part = "costs" => Costs!CostsAgree

(* Trends lack no profile that can be read, whatever the cache does        *)
(* (profiler.go:302-390, 824-1114).                                        *)
TrendsComplete == part = "trends" => Trends!TrendsComplete

(* What is made of a bounded number of log entries is whole or says it is  *)
(* cut (logs.go:82-471, 541-616, traces_from_logs.go:39-118).              *)
ScansHonest == part = "scans" => Scans!ScansHonest

(* No span and no occurrence of an error is lost or told twice             *)
(* (traces.go:189-274, errors.go:22-172, errors_trends.go:26-166).         *)
ReportsComplete == part = "reports" => Reports!ReportsComplete
===============================================================================
