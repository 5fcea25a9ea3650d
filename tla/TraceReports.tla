------------------------------- MODULE TraceReports -------------------------------
(***************************************************************************)
(* What the trace and error tools make of one answer of their API          *)
(* (gcpdata/traces.go, errors.go, errors_trends.go): the tree of the spans *)
(* of a trace, its summary, and how the groups of errors develop.          *)
(*                                                                         *)
(* A span is [id, parent, start, end]; 0 is no parent and no time, and     *)
(* several spans may have the same id.  A group of errors is [id, count,   *)
(* services, timed], with the service and version of each service it       *)
(* affects and its timed counts [start, end, count].                       *)
(***************************************************************************)
EXTENDS Integers, FiniteSets, Sequences, SequencesExt, FiniteSetsExt

CONSTANTS
    SpanInputs,    \* traces: sequences of spans
    GroupInputs,   \* answers with the groups there are, most frequent first
    GroupLimits    \* limits asked for

VARIABLES input, call, answer
vars == <<input, call, answer>>

-----------------------------------------------------------------------------
(* The span with an id is the last one that has it.                        *)
ById(spans, id) == {i \in DOMAIN spans : spans[i].id = id /\ \A j \in DOMAIN spans : spans[j].id = id => j <= i}
ChildrenOf(spans, i) == SelectSeq([k \in DOMAIN spans |-> k], LAMBDA j : spans[j].parent # 0 /\ i \in ById(spans, spans[j].parent))
(* Variant: only spans without a parent are roots.                         *)
Roots_NoParent(spans) ==
    SelectSeq([k \in DOMAIN spans |-> k], LAMBDA j : spans[j].parent = 0)

Roots(spans) ==
    SelectSeq([k \in DOMAIN spans |-> k],
              LAMBDA j : spans[j].parent = 0 \/ ById(spans, spans[j].parent) = {})

(* A span after its ancestors, siblings by their start, each with its      *)
(* depth.  Span 0 stands above the roots; no path is longer than there are *)
(* spans, since only spans outside every cycle are reached.                *)
Below(spans, i) == IF i = 0 THEN Roots(spans) ELSE ChildrenOf(spans, i)
BuildSpanTree(spans) ==
    LET Build[i \in 0..Len(spans), depth \in 0..Len(spans)] ==
          LET byStart == SortSeq(Below(spans, i), LAMBDA j, k :
                \/ spans[j].start < spans[k].start
                \/ spans[j].start = spans[k].start /\ j < k)
          IN FlattenSeq([k \in DOMAIN byStart |->
               <<[span |-> byStart[k], depth |-> depth]>> \o Build[byStart[k], depth + 1]])
    IN Build[0, 0]

Duration(span) == IF span.end < span.start THEN 0 ELSE span.end - span.start

(* traceToSummary: the first span without a parent, or the first of all.   *)
TraceToSummary(spans) ==
    LET parentless == {i \in DOMAIN spans : spans[i].parent = 0}
        root == IF parentless = {} THEN 1 ELSE Min(parentless)
    IN [count |-> Len(spans), root |-> root,
        duration |-> IF spans[root].start = 0 \/ spans[root].end = 0 THEN -1 ELSE Duration(spans[root])]

-----------------------------------------------------------------------------
(* Span and bucket of the windows, in minutes.                             *)
ErrorWindows ==
    [h1 |-> [span |-> 60, bucket |-> 5], h6 |-> [span |-> 360, bucket |-> 30],
     h24 |-> [span |-> 1440, bucket |-> 60], d7 |-> [span |-> 10080, bucket |-> 360],
     d30 |-> [span |-> 43200, bucket |-> 1440]]

(* The first groups, and whether there are more.                           *)
ListGroupStats(groups, limit) ==
    [stats |-> SubSeq(groups, 1, IF Len(groups) < limit THEN Len(groups) ELSE limit),
     truncated |-> Len(groups) > limit]

ServiceOf(g) == IF g.services = <<>> THEN "" ELSE g.services[1].service

ListErrors(groups, limit) ==
    LET page == ListGroupStats(groups, limit)
    IN [groups |-> [i \in DOMAIN page.stats |->
                      [id |-> page.stats[i].id, count |-> page.stats[i].count,
                       service |-> ServiceOf(page.stats[i]),
                       versions |-> {s.version : s \in ToSet(page.stats[i].services)} \ {""}]],
        truncated |-> page.truncated]

-----------------------------------------------------------------------------
(* The middle of the time the timed counts cover, whose start and end both *)
(* have to be there.                                                       *)
Buckets(stats) == UNION {{tc \in ToSet(g.timed) : tc.start # 0 /\ tc.end # 0} : g \in ToSet(stats)}
Midpoint(stats) ==
    LET minStart == Min({tc.start : tc \in Buckets(stats)})
    IN minStart + (Max({tc.end : tc \in Buckets(stats)}) - minStart) \div 2

SumCounts(timed, Test(_)) ==
    FoldLeft(LAMBDA n, tc : IF tc.start # 0 /\ Test(tc) THEN n + tc.count ELSE n, 0, timed)

(* A bucket is recent that starts at the midpoint or after it.             *)
SplitTimedCounts(timed, midpoint) ==
    [older |-> SumCounts(timed, LAMBDA tc : tc.start < midpoint),
     recent |-> SumCounts(timed, LAMBDA tc : tc.start >= midpoint)]

ClassifyErrorTrend(older, recent) ==
    CASE older = 0 /\ recent > 0 -> "new"
      [] older > 0 /\ recent = 0 -> "disappeared"
      [] recent > older /\ older # 0 -> "growing"
      [] recent < older /\ recent # 0 -> "shrinking"
      [] OTHER -> "flat"

Trend(g, stats) ==
    LET halves == IF Buckets(stats) = {} THEN [older |-> 0, recent |-> 0]
                  ELSE SplitTimedCounts(g.timed, Midpoint(stats))
    IN [id |-> g.id, older |-> halves.older, recent |-> halves.recent,
        delta |-> halves.recent - halves.older,
        trend |-> ClassifyErrorTrend(halves.older, halves.recent)]

(* The most worsened first.                                                *)
AnalyzeErrorTrends(groups, limit) ==
    LET page == ListGroupStats(groups, limit)
        trends == {Trend(g, page.stats) : g \in ToSet(page.stats)}
    IN [trends |-> SetToSortSeq(trends, LAMBDA a, b :
                     \/ a.delta > b.delta
                     \/ a.delta = b.delta /\ (a.recent > b.recent \/ (a.recent = b.recent /\ a.id < b.id))),
        summary |-> [c \in {t.trend : t \in trends} |-> Cardinality({t \in trends : t.trend = c})],
        undetermined |-> Buckets(page.stats) = {}, truncated |-> page.truncated]

-----------------------------------------------------------------------------
NoAnswer == [tool |-> "none"]

Init ==
    /\ input \in [kind : {"trace"}, spans : SpanInputs] \union [kind : {"groups"}, groups : GroupInputs]
    /\ call = "ask"
    /\ answer = NoAnswer

Reply(tool, result) ==
    /\ call = "ask"
    /\ answer' = [tool |-> tool, result |-> result]
    /\ call' = "answered"
    /\ UNCHANGED input

(* A trace without spans is an error.                                      *)
GetTrace ==
    /\ input.kind = "trace"
    /\ IF input.spans = <<>> THEN Reply("error", "no spans")
       ELSE \/ Reply("tree", [count |-> Len(input.spans), spans |-> BuildSpanTree(input.spans)])
            \/ Reply("summary", TraceToSummary(input.spans))

Errors ==
    /\ input.kind = "groups"
    /\ \E limit \in GroupLimits :
         \/ Reply("errors", ListErrors(input.groups, limit))
         \/ Reply("trends", AnalyzeErrorTrends(input.groups, limit))

Failed == Reply("error", "api")

Again ==
    /\ call = "answered"
    /\ call' = "ask" /\ answer' = NoAnswer
    /\ UNCHANGED input

Next == GetTrace \/ Errors \/ Failed \/ Again

Spec == Init /\ [][Next]_vars

-----------------------------------------------------------------------------
Result == answer.result

(* The ancestors of a span, from it upwards.                               *)
Up(spans, i) == IF spans[i].parent = 0 THEN {} ELSE ById(spans, spans[i].parent)
Ancestors(spans, i) ==
    FoldLeft(LAMBDA above, n : above \union UNION {Up(spans, j) : j \in above}, {i}, spans)
InCycle(spans, i) == i \in UNION {Ancestors(spans, j) : j \in Up(spans, i)}

(* A tree shows each span once, below its parent and beside siblings that  *)
(* do not start earlier, whatever the order the API returns them in and    *)
(* whichever of them it has lost; only spans that are their own ancestors, *)
(* and what is below them, are not in it.                                  *)
TreeComplete ==
    answer.tool = "tree" =>
      LET spans == input.spans  tree == Result.spans
          parentIn(k) == {j \in 1..(k - 1) : tree[j].depth = tree[k].depth - 1
                            /\ \A m \in (j + 1)..(k - 1) : tree[m].depth >= tree[k].depth}
      IN /\ \A i \in DOMAIN spans :
              Cardinality({k \in DOMAIN tree : tree[k].span = i}) =
                IF \E j \in Ancestors(spans, i) : InCycle(spans, j) THEN 0 ELSE 1
         /\ \A k \in DOMAIN tree :
              /\ {tree[j].span : j \in parentIn(k)} = Up(spans, tree[k].span)
              /\ \A m \in (k + 1)..Len(tree) :
                   tree[m].depth = tree[k].depth /\ parentIn(m) = parentIn(k) =>
                     spans[tree[k].span].start <= spans[tree[m].span].start

(* The two halves of a group are its timed counts, told apart at one       *)
(* midpoint for all groups; the categories count every group; and a group  *)
(* is new or gone only when one half has none of it.                       *)
TrendsRight ==
    answer.tool = "trends" =>
      LET stats == ListGroupStats(input.groups, Len(Result.trends)).stats
          group(t) == CHOOSE g \in ToSet(stats) : g.id = t.id
      IN /\ MapThenSumSet(LAMBDA c : Result.summary[c], DOMAIN Result.summary) = Len(Result.trends)
         /\ \A k \in DOMAIN Result.trends :
              LET t == Result.trends[k]
                  counted == {i \in DOMAIN group(t).timed : group(t).timed[i].start # 0}
              IN /\ ~ Result.undetermined =>
                      t.older + t.recent = MapThenSumSet(LAMBDA i : group(t).timed[i].count, counted)
                 /\ t.trend = "new" =>
                      \A i \in counted : group(t).timed[i].start < Midpoint(stats) => group(t).timed[i].count = 0
                 /\ k > 1 => Result.trends[k - 1].delta >= t.delta

(* The windows have an even number of buckets, so that a midpoint is       *)
(* between two of them.                                                    *)
WindowsHalve ==
    \A w \in DOMAIN ErrorWindows : ErrorWindows[w].span % (2 * ErrorWindows[w].bucket) = 0

(* Trees and trends tell of all spans and all counts they were given       *)
(* (traces.go:216-268; errors.go:38-47; errors_trends.go:42-166).          *)
ReportsComplete == TreeComplete /\ TrendsRight /\ WindowsHalve
===============================================================================
