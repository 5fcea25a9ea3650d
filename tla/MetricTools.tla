-------------------------------- MODULE MetricTools --------------------------------
(***************************************************************************)
(* The metric tools (tools/metrics_snapshot.go, metrics_top.go,            *)
(* metrics_compare.go, metrics_related.go, tools.go): each runs its        *)
(* queries in parallel tasks that fail, panic, find nothing or are not     *)
(* started because the call is over, and makes one answer of what they     *)
(* brought.                                                                *)
(*                                                                         *)
(* A task runs its steps in order; got is what they have brought so far.   *)
(* The got of an answer is no part of it: it says what became of the       *)
(* queries the answer was made from.                                       *)
(***************************************************************************)
EXTENDS SignalRules

CONSTANTS
    ToolInputs,          \* calls: [tool, misconfigured, mode, window, ...]
    RelatedConcurrency,  \* tasks of metrics_related that run at once
    ContributorLimit

VARIABLES input, call, answer
vars == <<input, call, answer>>

(* What a query brings: points, without or with a warning; no points,      *)
(* because there are none or because all were dropped; or an error.        *)
Data == {"points", "lossy"}
Nothing == {"empty", "dropped"}
Errors == {"failed", "panic", "canceled"}

-----------------------------------------------------------------------------
(* The windows a baseline is taken from, times in minutes.                 *)
Week == 7 * 24 * 60
WeeklyBaselineWeeks == 4
PreEventBaselineSpan == 30

Windows(mode, start, end, event) ==
    CASE mode = "same_weekday_hour" ->
           [i \in 1..WeeklyBaselineWeeks |-> [start |-> start - Week * i, end |-> end - Week * i]]
      [] mode = "pre_event" -> <<[start |-> event - PreEventBaselineSpan, end |-> event]>>
      [] mode = "prev_window" -> <<[start |-> start - (end - start), end |-> start]>>

ExpectedPoints(window) == window.end - window.start + 1

WindowsOf(t) == Windows(t.mode, t.window.start, t.window.end, t.event)
BaselineWindows == WindowsOf(input)

(* parseWindow knows windows of at most a week; a query brings finitely    *)
(* many points of each.                                                    *)
ToolConstants ==
    /\ RelatedConcurrency \in Nat
    /\ \A t \in ToolInputs :
         /\ t.tool \in {"related", "compare", "snapshot", "top"}
         /\ t.tool = "related" => t.related \in Nat
         /\ t.tool \in {"snapshot", "top"} =>
              /\ t.mode \in {"same_weekday_hour", "pre_event", "prev_window"}
              /\ t.window.start \in Int /\ t.window.end \in Int /\ t.event \in Int
              /\ t.window.end - t.window.start \in 0..Week
         /\ t.tool = "snapshot" => \A i \in DOMAIN WindowsOf(t) : IsFiniteSet(DOMAIN t.weeks[i])
         /\ t.tool = "top" =>
              \A c \in DOMAIN t.contributors : t.contributors[c].label # None =>
                \A i \in DOMAIN WindowsOf(t) : IsFiniteSet(DOMAIN t.contributors[c].weeks[i])

-----------------------------------------------------------------------------
(* runParallel: a phase of a call is tasks that all run the same steps.    *)
Steps(phase) ==
    CASE phase = "related" -> <<"descriptor", "current", "baseline">>
      [] phase = "descriptor" -> <<"descriptor">>
      [] OTHER -> <<"query">>

Waiting == [state |-> "waiting", got |-> <<>>]
Begin(phase, n, ctx) == [pc |-> "tasks", phase |-> phase, ctx |-> ctx, tasks |-> [i \in 1..n |-> Waiting]]
Idle == [pc |-> "idle"]
NoAnswer == [kind |-> "none"]

Running == {i \in DOMAIN call.tasks : call.tasks[i].state = "running"}
Limit == IF call.phase = "related" THEN RelatedConcurrency ELSE Len(call.tasks)

(* What ends a task that is not to start, or is cut short.                 *)
Stopped(ctx) == IF ctx = "canceled" THEN "canceled" ELSE "failed"

(* A related metric whose aggregation is not valid is skipped.             *)
Misconfigured(i) == call.phase = "related" /\ i \in input.misconfigured

Brings(step, phase, ctx) ==
    IF step = "descriptor"
    THEN {"points", "failed"} \union (IF phase = "related" THEN {"panic"} ELSE {})
         \union (IF ctx = "alive" THEN {} ELSE {Stopped(ctx)})
    ELSE Data \union Nothing \union {"failed", "panic"} \union (IF ctx = "alive" THEN {} ELSE {Stopped(ctx)})

Init ==
    /\ input \in ToolInputs
    /\ call = Idle
    /\ answer = NoAnswer

-----------------------------------------------------------------------------
Reply(result) ==
    /\ answer' = result
    /\ call' = Idle
    /\ UNCHANGED input

Ask ==
    /\ call = Idle /\ answer = NoAnswer
    /\ CASE input.tool # "related" ->
              call' = Begin("descriptor", 1, "alive") /\ UNCHANGED <<input, answer>>
         [] input.tool = "related" /\ input.related = 0 -> Reply([kind |-> "unconfigured"])
         [] OTHER -> call' = Begin("related", input.related, "alive") /\ UNCHANGED <<input, answer>>

(* The client gives the call up, or its time is over.                      *)
ContextDone ==
    /\ call.pc = "tasks" /\ call.ctx = "alive"
    /\ \E ctx \in {"canceled", "deadline"} : call' = [call EXCEPT !.ctx = ctx]
    /\ UNCHANGED <<input, answer>>

StartTask(i) ==
    /\ call.pc = "tasks" /\ call.tasks[i].state = "waiting"
    /\ Cardinality(Running) < Limit
    /\ call' = [call EXCEPT !.tasks[i] =
         IF call.ctx = "alive" THEN [@ EXCEPT !.state = "running"]
         ELSE [state |-> "done", got |-> <<Stopped(call.ctx)>>]]
    /\ UNCHANGED <<input, answer>>

(* A step of a task; what it brings decides whether the next one is taken. *)
StepTask(i) ==
    /\ call.pc = "tasks" /\ call.tasks[i].state = "running"
    /\ LET steps == Steps(call.phase)  k == Len(call.tasks[i].got) + 1
       IN \E brought \in Brings(steps[k], call.phase, call.ctx) :
            call' = [call EXCEPT !.tasks[i] =
              [state |-> IF k = Len(steps) \/ brought \notin Data \/ (k = 1 /\ Misconfigured(i))
                         THEN "done" ELSE "running",
               got |-> Append(@.got, brought)]]
    /\ UNCHANGED <<input, answer>>

PhaseOver(phase) ==
    /\ call.pc = "tasks" /\ call.phase = phase
    /\ \A i \in DOMAIN call.tasks : call.tasks[i].state = "done"

Brought == [i \in DOMAIN call.tasks |-> call.tasks[i].got[Len(call.tasks[i].got)]]

NextPhase(phase, n) ==
    /\ call' = Begin(phase, n, call.ctx)
    /\ UNCHANGED <<input, answer>>

DescriptorKnown ==
    /\ PhaseOver("descriptor")
    /\ IF Brought[1] # "points" THEN Reply([kind |-> "error", why |-> "descriptor"])
       ELSE IF input.misconfigured # {} THEN Reply([kind |-> "error", why |-> "registry"])
       ELSE IF input.tool = "compare" THEN NextPhase("windows", 2)
       ELSE NextPhase("current", 1)

-----------------------------------------------------------------------------
(* metrics_snapshot and metrics_top_contributors: the baseline is queried  *)
(* only once the current window has points.                                *)
CurrentKnown ==
    /\ PhaseOver("current")
    /\ CASE Brought[1] \in Errors -> Reply([kind |-> "error", why |-> "query"])
         [] Brought[1] \in Nothing -> Reply([kind |-> "no_data", got |-> Brought])
         [] OTHER -> NextPhase("baseline", Len(BaselineWindows))

(* Variant: a query that was not started has not failed.                   *)
FailedOf_Started(brought) == {i \in DOMAIN brought : brought[i] \in {"failed", "panic"}}

(* collectBaseline: it fails when no window has data and one has failed.   *)
FailedOf(brought) == {i \in DOMAIN brought : brought[i] \in Errors}
FetchedOf(brought) == {i \in DOMAIN brought : brought[i] \in Data}
BaselineFails(brought) == FetchedOf(brought) = {} /\ FailedOf(brought) # {}

(* The points of each window of the baseline; no points for one that has   *)
(* failed, which still counts as expected.                                 *)
Buckets(weeks, brought) ==
    [i \in DOMAIN brought |-> IF i \in FetchedOf(brought) THEN weeks[i] ELSE <<>>]

NoBaseline == BaselineStats(<<>>, 0)

SnapshotOf(brought) ==
    LET perBucket == ExpectedPoints(BaselineWindows[1])
        stats == IF BaselineFails(brought) THEN NoBaseline
                 ELSE BaselineStats(Buckets(input.weeks, brought), perBucket)
    IN [kind |-> "snapshot", verdict |-> Process(input.points, stats, input.meta, input.window),
        failed |-> FailedOf(brought), fetched |-> FetchedOf(brought), got |-> brought]

(* What is said of a contributor, the i-th series, against its own         *)
(* baseline if there is one.  A series without the dimension is left out.  *)
Contributor(i, brought, compared) ==
    LET c == input.contributors[i]
        perBucket == IF input.mode = "pre_event" THEN 0 ELSE ExpectedPoints(BaselineWindows[1])
        stats == IF ~ compared \/ \A w \in FetchedOf(brought) : c.weeks[w] = <<>> THEN NoBaseline
                 ELSE BaselineStats(Buckets(c.weeks, brought), perBucket)
        f == Features(c.points, stats, input.meta, input.window)
    IN [of |-> i, label |-> c.label, current |-> c.points[Len(c.points)].value, delta |-> f.delta,
        verdict |-> Process(c.points, stats, input.meta, input.window)]

Attributed == {i \in DOMAIN input.contributors : input.contributors[i].label # None}
Contributors(brought) == {Contributor(i, brought, FetchedOf(brought) # {}) : i \in Attributed}

(* By how much they differ from their baselines, or by current value when  *)
(* there is none; sort.Slice puts equal ones in any order.                 *)
Above(a, b, compared) ==
    IF compared THEN Less(R(Abs(b.delta.n), b.delta.d), R(Abs(a.delta.n), a.delta.d))
    ELSE a.current > b.current
Rankings(all, compared) ==
    {order \in [1..Cardinality(all) -> all] :
       \A j, k \in DOMAIN order : j < k => order[j] # order[k] /\ ~ Above(order[k], order[j], compared)}

TopOf(brought, order) ==
    [kind |-> "top", contributors |-> [k \in {k \in DOMAIN order : k <= ContributorLimit} |-> order[k]],
     missing |-> Cardinality(DOMAIN input.contributors \ Attributed),
     failed |-> FailedOf(brought), fetched |-> FetchedOf(brought), got |-> brought]

BaselineKnown ==
    /\ PhaseOver("baseline")
    /\ CASE input.tool = "snapshot" -> Reply(SnapshotOf(Brought))
         [] input.tool = "top" /\ Attributed = {} -> Reply([kind |-> "error", why |-> "dimension"])
         [] OTHER -> \E order \in Rankings(Contributors(Brought), FetchedOf(Brought) # {}) :
                       Reply(TopOf(Brought, order))

(* metrics_compare: one failed window fails the call; an empty one is      *)
(* named, and says what has emerged or disappeared.                        *)
WindowsKnown ==
    /\ PhaseOver("windows")
    /\ LET a == Brought[1]  b == Brought[2]
       IN Reply(IF a \in Errors \/ b \in Errors THEN [kind |-> "error", why |-> "query"]
                ELSE IF a \in Nothing \/ b \in Nothing
                THEN [kind |-> "one_sided", noData |-> {w \in 1..2 : Brought[w] \in Nothing},
                      shift |-> IF b \in Data THEN "emerged"
                                ELSE IF a \in Data THEN "disappeared" ELSE "unchanged",
                      got |-> Brought]
                ELSE [kind |-> "judged", got |-> Brought])

-----------------------------------------------------------------------------
(* metrics_related: a signal of each metric with points now, a skip of     *)
(* each other.                                                             *)
IsSignal(got) == Len(got) = 3 /\ got[3] \in Data \union Nothing

Cause(i, got) ==
    CASE Misconfigured(i) /\ got = <<"points">> -> "misconfig"
      [] got[Len(got)] \in Nothing \union {"canceled"} -> "benign"
      [] OTHER -> "query"

RelatedOf ==
    LET got == [i \in DOMAIN call.tasks |-> call.tasks[i].got]
        signals == {i \in DOMAIN got : IsSignal(got[i])}
        skipped == [i \in DOMAIN got \ signals |-> Cause(i, got[i])]
        failures == {i \in DOMAIN skipped : skipped[i] # "benign"}
        warned == \E i \in DOMAIN got : \E k \in 2..Len(got[i]) : got[i][k] \in {"lossy", "dropped"}
    IN IF call.ctx # "alive" /\ signals = {} THEN [kind |-> "error", why |-> "stopped"]
       ELSE IF signals = {} /\ failures # {} THEN [kind |-> "error", why |-> "all_failed"]
       ELSE [kind |-> "related", signals |-> signals, skipped |-> skipped,
             partial |-> failures # {} \/ warned, got |-> got]

RelatedKnown ==
    /\ PhaseOver("related")
    /\ Reply(RelatedOf)

Again ==
    /\ answer # NoAnswer
    /\ answer' = NoAnswer
    /\ UNCHANGED <<input, call>>

Next ==
    \/ Ask \/ ContextDone
    \/ call.pc = "tasks" /\ \E i \in DOMAIN call.tasks : StartTask(i) \/ StepTask(i)
    \/ DescriptorKnown \/ CurrentKnown \/ BaselineKnown \/ WindowsKnown \/ RelatedKnown \/ Again

Spec == Init /\ [][Next]_vars

-----------------------------------------------------------------------------
(* No more related metrics are queried at once than there are places.      *)
WithinLimit == call.pc = "tasks" => Cardinality(Running) <= Limit

(* The windows of a baseline are of the past, and those of same weekdays   *)
(* are the current one moved by whole weeks, each another one.             *)
WindowsPast ==
    input.tool \in {"snapshot", "top"} =>
      LET windows == BaselineWindows  current == input.window
      IN \A i, j \in DOMAIN windows :
           LET w == windows[i]
           IN /\ input.mode # "pre_event" => w.end <= current.start /\ w.end - w.start = current.end - current.start
              /\ i # j => (w.start - windows[j].start) % Week = 0 /\ w # windows[j]

(* Each window of the baseline is named as failed, counted as fetched, or  *)
(* had nothing: an answer that names no failed window has asked them all.  *)
(* What is said by comparison needs half of the points all windows of the  *)
(* baseline should have, failed ones included, and without any of them     *)
(* nothing is said with confidence.                                        *)
Weeks(c) == Cardinality(PointsIn([i \in answer.fetched |-> c.weeks[i]]))
Carried(c, class) ==
    class \in DeltaBased /\ input.mode # "pre_event" =>
      2 * Weeks(c) >= Len(BaselineWindows) * ExpectedPoints(BaselineWindows[1]) - 1
BaselineHonest ==
    /\ answer.kind \in {"snapshot", "top"} =>
         \A w \in DOMAIN BaselineWindows :
           answer.got[w] \in (IF w \in answer.failed THEN Errors
                              ELSE IF w \in answer.fetched THEN Data ELSE Nothing)
    /\ answer.kind = "snapshot" =>
         /\ Carried(input, answer.verdict.class)
         /\ answer.fetched = {} => answer.verdict.confidence = "low"
    /\ answer.kind = "top" =>
         \A k \in DOMAIN answer.contributors :
           LET said == answer.contributors[k]
           IN Carried(input.contributors[said.of], said.verdict.class)

(* A window whose query failed is not taken for one without data, and two  *)
(* are compared only if both have points; otherwise the one without is     *)
(* named, and what changed is what the other one shows.                    *)
AbsenceHonest ==
    /\ answer.kind = "no_data" => answer.got[1] \in Nothing
    /\ answer.kind = "judged" => answer.got[1] \in Data /\ answer.got[2] \in Data
    /\ answer.kind = "one_sided" =>
         /\ \A w \in 1..2 : answer.got[w] \in (IF w \in answer.noData THEN Nothing ELSE Data)
         /\ answer.shift = "emerged" => answer.noData = {1}
         /\ answer.shift = "disappeared" => answer.noData = {2}
         /\ answer.shift = "unchanged" => answer.noData = {1, 2}

(* A related metric whose query failed, or that is configured so that it   *)
(* cannot be asked, is skipped and the answer partial; it is partial too   *)
(* if any points were dropped, and a signal has points now.                *)
RelatedAccounted ==
    answer.kind = "related" =>
      LET bad(i) == \/ answer.got[i][Len(answer.got[i])] \in {"failed", "panic"}
                    \/ i \in input.misconfigured /\ answer.got[i][1] = "points"
      IN /\ \A i \in 1..input.related : bad(i) => i \in DOMAIN answer.skipped /\ answer.partial
         /\ \A i \in DOMAIN answer.got : Range(answer.got[i]) \intersect {"lossy", "dropped"} # {} => answer.partial
         /\ \A i \in answer.signals : answer.got[i][1] \in Data /\ answer.got[i][2] \in Data

(* Whatever of a call's queries fail, and in whatever order they end, the  *)
(* answer says what it rests on: which windows failed, and no failure is   *)
(* taken for an absence (metrics_snapshot.go:82-192, 367-384;              *)
(* metrics_top.go:17-254; metrics_compare.go:118-188;                      *)
(* metrics_related.go:24-201; tools.go:450-476).                           *)
ToolsHonest == WithinLimit /\ WindowsPast /\ BaselineHonest /\ AbsenceHonest /\ RelatedAccounted
===============================================================================
