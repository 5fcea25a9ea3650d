----------------------------- MODULE QueryPartProofs -----------------------------
(***************************************************************************)
(* Proofs about the parts of MetricQueries and the log scans of Queries,   *)
(* for all signals, tool calls, answers of the API and logs its constants  *)
(* allow:                                                                  *)
(*   ToolsInv    what a metrics tool's call has read of its windows so far;*)
(*   SignalsInv  a verdict is Process of the points, buckets and window;   *)
(*   SeriesRun   the series read, and the fold of the buckets done, are    *)
(*               what the property says of that part of the answer;        *)
(*   ScansInv    what a scan has found is what the entries it has read     *)
(*               hold.                                                     *)
(* Each is inductive and implies a property of its part; QueriesProofs has *)
(* the theorems.                                                           *)
(***************************************************************************)
EXTENDS Queries, Integers, FiniteSets, Sequences, SequenceTheorems, FiniteSetTheorems, WellFoundedInduction, TLAPS

-----------------------------------------------------------------------------
(* The metric tools.  What a task holds while it runs and when it has      *)
(* ended, and the tasks of each phase.                                     *)
Outcomes == Tools!Data \union Tools!Nothing \union Tools!Errors
ToolTasks == [state : {"waiting", "running", "done"}, got : Seq(Outcomes)]
ToolCalls ==
  [pc : {"tasks"}, phase : {"related", "descriptor", "current", "baseline", "windows"},
   ctx : {"alive", "canceled", "deadline"}, tasks : Seq(ToolTasks)]
TaskSound(phase, misconfigured, t) ==
  /\ t.state = "waiting" => t.got = <<>>
  /\ t.state = "running" => Len(t.got) < Len(Tools!Steps(phase)) /\ \A k \in DOMAIN t.got : t.got[k] \in Tools!Data
  /\ t.state = "done" => t.got # <<>> /\ \A k \in DOMAIN t.got : k < Len(t.got) => t.got[k] \in Tools!Data
  /\ misconfigured /\ t.got # <<>> => t.state = "done" /\ Len(t.got) = 1
  /\ phase = "related" /\ t.got # <<>> => t.got[1] \notin {"lossy", "dropped"}
ToolsCall ==
  call # Tools!Idle =>
    /\ call \in ToolCalls
    /\ (call.phase = "related") = (input.tool = "related")
    /\ call.phase = "related" => Len(call.tasks) = input.related
    /\ call.phase \in {"current", "baseline"} => input.tool \in {"snapshot", "top"}
    /\ call.phase = "baseline" => Len(call.tasks) = Len(Tools!BaselineWindows)
    /\ call.phase = "windows" => Len(call.tasks) = 2
    /\ \A i \in DOMAIN call.tasks : TaskSound(call.phase, Tools!Misconfigured(i), call.tasks[i])
    /\ Cardinality(Tools!Running) <= Tools!Limit
ToolsInv ==
  /\ input \in ToolInputs /\ ToolsCall
  /\ Tools!BaselineHonest /\ Tools!AbsenceHonest /\ Tools!RelatedAccounted

-----------------------------------------------------------------------------
(* The operators of the instance are the library's.                        *)
LEMMA ToolsSame ==
  /\ \A S : Tools!Cardinality(S) = Cardinality(S)
  /\ \A S : Tools!IsFiniteSet(S) <=> IsFiniteSet(S)
  BY DEF Tools!Cardinality, Cardinality, Tools!IsFiniteSet, IsFiniteSet

(* The windows of a baseline are of the past, each a week from the next.   *)
LEMMA WindowsArePast ==
  ASSUME Tools!ToolConstants, input \in ToolInputs
  PROVE Tools!WindowsPast
<1> SUFFICES ASSUME input.tool \in {"snapshot", "top"}
             PROVE  \A i, j \in DOMAIN Tools!BaselineWindows :
               LET w == Tools!BaselineWindows[i]  o == Tools!BaselineWindows[j]
               IN /\ input.mode # "pre_event" =>
                       w.end <= input.window.start /\ w.end - w.start = input.window.end - input.window.start
                  /\ i # j => (w.start - o.start) % Tools!Week = 0 /\ w # o
  BY DEF Tools!WindowsPast
<1>1. /\ input.mode \in {"same_weekday_hour", "pre_event", "prev_window"}
      /\ input.window.start \in Int /\ input.window.end \in Int /\ input.event \in Int
      /\ input.window.end - input.window.start \in 0..Tools!Week
  BY DEF Tools!ToolConstants
<1> DEFINE s == input.window.start  e == input.window.end
<1>2. CASE input.mode = "same_weekday_hour"
  <2>1. Tools!BaselineWindows = [i \in 1..4 |-> [start |-> s - Tools!Week * i, end |-> e - Tools!Week * i]]
    BY <1>2 DEF Tools!BaselineWindows, Tools!WindowsOf, Tools!Windows, Tools!WeeklyBaselineWeeks
  <2> HIDE DEF s, e
  <2>2. s \in Int /\ e \in Int /\ e - s \in 0..Tools!Week BY <1>1 DEF s, e
  <2>3. ASSUME NEW i \in 1..4, NEW j \in 1..4, i # j
        PROVE  ((s - Tools!Week * i) - (s - Tools!Week * j)) % Tools!Week = 0
    <3>1. (s - Tools!Week * i) - (s - Tools!Week * j) = Tools!Week * (j - i) BY <2>2, <2>3 DEF Tools!Week
    <3>2. j - i \in {-3, -2, -1, 1, 2, 3} BY <2>3
    <3> QED BY <3>1, <3>2 DEF Tools!Week
  <2>4. ASSUME NEW i \in 1..4
        PROVE  /\ e - Tools!Week * i <= s
               /\ (e - Tools!Week * i) - (s - Tools!Week * i) = e - s
    <3>1. e - s <= 10080 /\ Tools!Week = 10080 BY <2>2 DEF Tools!Week
    <3>2. i = 1 \/ i = 2 \/ i = 3 \/ i = 4 BY <2>4
    <3> QED BY <2>2, <3>1, <3>2
  <2>5. ASSUME NEW i \in 1..4, NEW j \in 1..4, i # j PROVE s - Tools!Week * i # s - Tools!Week * j
    BY <2>2, <2>5 DEF Tools!Week
  <2> HIDE DEF Tools!BaselineWindows
  <2> QED BY <2>1, <2>3, <2>4, <2>5 DEF s, e
<1>3. CASE input.mode = "pre_event"
  BY <1>3 DEF Tools!BaselineWindows, Tools!WindowsOf, Tools!Windows
<1>4. CASE input.mode = "prev_window"
  <2>1. Tools!BaselineWindows = <<[start |-> s - (e - s), end |-> s]>>
    BY <1>4 DEF Tools!BaselineWindows, Tools!WindowsOf, Tools!Windows
  <2>2. \A i \in DOMAIN Tools!BaselineWindows : i = 1 BY <2>1
  <2>3. s <= s /\ s - (s - (e - s)) = e - s BY <1>1
  <2> HIDE DEF Tools!BaselineWindows
  <2> QED BY <2>1, <2>2, <2>3
<1> QED BY <1>1, <1>2, <1>3, <1>4

-----------------------------------------------------------------------------
(* What a baseline rests on.  Finitely many buckets have finitely many     *)
(* points.                                                                 *)
LEMMA BucketsFinite ==
  ASSUME NEW b, IsFiniteSet(DOMAIN b), \A i \in DOMAIN b : IsFiniteSet(DOMAIN b[i])
  PROVE  IsFiniteSet(Tools!PointsIn(b))
<1> DEFINE D == DOMAIN b  P(i) == {i} \X DOMAIN b[i]  F == [i \in D |-> P(i)]  T == {P(i) : i \in D}
<1>1. F \in Surjection(D, T) BY Zenon DEF Surjection
<1>2. IsFiniteSet(D) OBVIOUS
<1>3. IsFiniteSet(T)
  <2> HIDE DEF F, D, T
  <2> QED BY <1>1, <1>2, FS_Surjection
<1>4. ASSUME NEW i \in D PROVE IsFiniteSet(P(i))
  <2>1. IsFiniteSet({i}) BY Zenon, FS_Singleton
  <2>2. IsFiniteSet(DOMAIN b[i]) OBVIOUS
  <2> QED BY <2>1, <2>2, FS_Product
<1>5. \A t \in T : IsFiniteSet(t) BY <1>4
<1>6. IsFiniteSet(UNION T)
  <2> HIDE DEF T
  <2> QED BY <1>3, <1>5, FS_UNION
<1> QED BY <1>6 DEF Tools!PointsIn

(* A window that failed brings no points.                                  *)
LEMMA BucketsHold ==
  ASSUME NEW weeks, NEW brought
  PROVE  Tools!PointsIn(Tools!Buckets(weeks, brought)) =
         Tools!PointsIn([i \in Tools!FetchedOf(brought) |-> weeks[i]])
<1> DEFINE F == Tools!FetchedOf(brought)  B == Tools!Buckets(weeks, brought)  W == [i \in F |-> weeks[i]]
<1>1. /\ DOMAIN B = DOMAIN brought /\ F \subseteq DOMAIN B
      /\ \A i \in DOMAIN B : B[i] = IF i \in F THEN weeks[i] ELSE <<>>
  BY DEF Tools!Buckets, Tools!FetchedOf
<1>2. DOMAIN W = F /\ \A i \in F : W[i] = weeks[i] OBVIOUS
<1>3. DOMAIN <<>> = {} OBVIOUS
<1>4. ASSUME NEW x PROVE x \in Tools!PointsIn(B) <=> \E i \in DOMAIN B : x \in {i} \X DOMAIN B[i]
  BY DEF Tools!PointsIn
<1>5. ASSUME NEW x PROVE x \in Tools!PointsIn(W) <=> \E i \in F : x \in {i} \X DOMAIN W[i]
  BY <1>2 DEF Tools!PointsIn
<1> HIDE DEF F, B, W
<1>6. ASSUME NEW x PROVE x \in Tools!PointsIn(B) <=> x \in Tools!PointsIn(W)
  <2>1. ASSUME NEW i \in DOMAIN B, x \in {i} \X DOMAIN B[i] PROVE i \in F /\ B[i] = W[i]
    <3>1. i \in F
      <4>1. SUFFICES ASSUME i \notin F PROVE FALSE OBVIOUS
      <4>2. DOMAIN B[i] = {} BY <1>1, <1>3, <4>1
      <4> QED BY <2>1, <4>2
    <3> QED BY <1>1, <1>2, <3>1
  <2>2. \A i \in F : i \in DOMAIN B /\ B[i] = W[i] BY <1>1, <1>2
  <2> QED BY <1>4, <1>5, <2>1, <2>2
<1>7. Tools!PointsIn(B) = Tools!PointsIn(W)
  <2> HIDE DEF Tools!PointsIn
  <2> QED BY <1>6
<1> QED BY <1>7 DEF F, B, W

(* Statistics that may be relied on have half of the points expected.      *)
LEMMA ReliableHalf ==
  ASSUME NEW b, NEW n \in Nat, n = Len(b), NEW per \in Int, IsFiniteSet(Tools!PointsIn(b)),
         Tools!BaselineStats(b, per).reliable
  PROVE  2 * Tools!Cardinality(Tools!PointsIn(b)) >= n * per - 1
<1> DEFINE c == Tools!Cardinality(Tools!PointsIn(b))
<1>1. c \in Nat BY FS_CardinalityType, ToolsSame
<1>2. c >= (per * Len(b)) \div 2 BY DEF Tools!BaselineStats
<1> HIDE DEF c
<1> DEFINE q == per * n
<1>3. q \in Int /\ n * per = q OBVIOUS
<1>4. c >= q \div 2 BY <1>2
<1> HIDE DEF q
<1>5. 2 * c >= q - 1 BY <1>1, <1>3, <1>4
<1> QED BY <1>3, <1>5 DEF c

(* Without points there are no statistics to rely on.                      *)
LEMMA NoPoints ==
  ASSUME NEW b, NEW per, Tools!PointsIn(b) = {}
  PROVE  Tools!BaselineStats(b, per).count = 0 /\ ~ Tools!BaselineStats(b, per).reliable
<1>1. Tools!Cardinality({}) = 0 BY FS_EmptySet, ToolsSame
<1>2. Tools!BaselineStats(b, per).count = Tools!Cardinality(Tools!PointsIn(b)) BY DEF Tools!BaselineStats
<1>3. Tools!BaselineStats(b, per).reliable => Tools!Cardinality(Tools!PointsIn(b)) >= 7
  BY Zenon DEF Tools!BaselineStats, Tools!MinBaselinePoints
<1> HIDE DEF Tools!BaselineStats
<1> QED BY <1>1, <1>2, <1>3
LEMMA NoStatistics == Tools!NoBaseline.count = 0 /\ ~ Tools!NoBaseline.reliable
<1>1. Tools!PointsIn(<<>>) = {} BY DEF Tools!PointsIn
<1> QED BY <1>1, NoPoints DEF Tools!NoBaseline

(* A verdict by comparison rests on a baseline to rely on, and one without *)
(* a baseline is of low confidence.                                        *)
LEMMA JudgedBy ==
  ASSUME NEW p, NEW b, NEW m, NEW w
  PROVE  /\ Tools!Process(p, b, m, w).class \in Tools!DeltaBased => b.reliable
         /\ b.count = 0 => Tools!Process(p, b, m, w).confidence = "low"
<1> DEFINE f == Tools!Features(p, b, m, w)
<1>1. f.baseline = b BY DEF Tools!Features
<1>2. "insufficient_data" \notin Tools!DeltaBased BY DEF Tools!DeltaBased
<1>3. ASSUME NEW class PROVE Tools!Downgrade(class, f) \in Tools!DeltaBased => b.reliable
  <2> HIDE DEF f
  <2> QED BY <1>1, <1>2 DEF Tools!Downgrade
<1>4. b.count = 0 => Tools!DeriveConfidence(f) = "low"
  <2> HIDE DEF f
  <2> QED BY <1>1 DEF Tools!DeriveConfidence
<1>5. CASE p = <<>> BY <1>2, <1>5 DEF Tools!Process
<1>6. CASE p # <<>>
  <2>1. Tools!Process(p, b, m, w) =
          [class |-> Tools!Downgrade(Tools!ClassifyCore(f, m, Tools!EffectiveThresholds(m)), f),
           confidence |-> Tools!DeriveConfidence(f)]
    BY <1>6 DEF Tools!Process
  <2> HIDE DEF f
  <2> QED BY <1>3, <1>4, <2>1
<1> QED BY <1>5, <1>6

-----------------------------------------------------------------------------
(* The answers of metrics_snapshot and metrics_top_contributors.  Every    *)
(* mode has windows, and expects some points of each.                      *)
LEMMA WindowsShape ==
  ASSUME Tools!ToolConstants, input \in ToolInputs, input.tool \in {"snapshot", "top"}
  PROVE  /\ Len(Tools!BaselineWindows) \in Nat
         /\ DOMAIN Tools!BaselineWindows = 1..Len(Tools!BaselineWindows)
         /\ Tools!ExpectedPoints(Tools!BaselineWindows[1]) \in Int
<1>1. /\ input.mode \in {"same_weekday_hour", "pre_event", "prev_window"}
      /\ input.window.start \in Int /\ input.window.end \in Int /\ input.event \in Int
  BY DEF Tools!ToolConstants
<1> DEFINE s == input.window.start  e == input.window.end  v == input.event
           Spans == [start : Int, end : Int]
<1>2. PICK n \in Nat \ {0} : Tools!BaselineWindows \in [1..n -> Spans]
  <2>1. CASE input.mode = "same_weekday_hour"
    <3>1. Tools!BaselineWindows = [i \in 1..4 |-> [start |-> s - Tools!Week * i, end |-> e - Tools!Week * i]]
      BY <2>1 DEF Tools!BaselineWindows, Tools!WindowsOf, Tools!Windows, Tools!WeeklyBaselineWeeks
    <3>2. Tools!Week \in Int BY DEF Tools!Week
    <3> HIDE DEF Tools!BaselineWindows, Tools!Week, s, e
    <3>3. s \in Int /\ e \in Int BY <1>1 DEF s, e
    <3>4. Tools!BaselineWindows \in [1..4 -> Spans] BY <3>1, <3>2, <3>3
    <3> QED BY <3>4
  <2>2. CASE input.mode = "pre_event"
    <3>1. Tools!BaselineWindows = <<[start |-> v - 30, end |-> v]>>
      BY <2>2 DEF Tools!BaselineWindows, Tools!WindowsOf, Tools!Windows, Tools!PreEventBaselineSpan
    <3> HIDE DEF Tools!BaselineWindows, v
    <3>2. v \in Int BY <1>1 DEF v
    <3>3. Tools!BaselineWindows \in [1..1 -> Spans] BY <3>1, <3>2
    <3> QED BY <3>3
  <2>3. CASE input.mode = "prev_window"
    <3>1. Tools!BaselineWindows = <<[start |-> s - (e - s), end |-> s]>>
      BY <2>3 DEF Tools!BaselineWindows, Tools!WindowsOf, Tools!Windows
    <3> HIDE DEF Tools!BaselineWindows, s, e
    <3>2. s \in Int /\ e \in Int BY <1>1 DEF s, e
    <3>3. Tools!BaselineWindows \in [1..1 -> Spans] BY <3>1, <3>2
    <3> QED BY <3>3
  <2> QED BY <1>1, <2>1, <2>2, <2>3
<1> HIDE DEF Tools!BaselineWindows, Spans
<1>3. Len(Tools!BaselineWindows) = n /\ DOMAIN Tools!BaselineWindows = 1..n BY <1>2
<1>4. Tools!BaselineWindows[1] \in Spans BY <1>2
<1>5. Tools!ExpectedPoints(Tools!BaselineWindows[1]) \in Int BY <1>4 DEF Tools!ExpectedPoints, Spans
<1> QED BY <1>2, <1>3, <1>5

(* What the windows fetched hold of a series is half of what all of them   *)
(* should hold, if its statistics may be relied on.                        *)
HalfOfAll(c, fetched) ==
  2 * Tools!Cardinality(Tools!PointsIn([i \in fetched |-> c.weeks[i]])) >=
    Len(Tools!BaselineWindows) * Tools!ExpectedPoints(Tools!BaselineWindows[1]) - 1
LEMMA BaselineHalf ==
  ASSUME Tools!ToolConstants, input \in ToolInputs, input.tool \in {"snapshot", "top"},
         NEW brought, DOMAIN brought = 1..Len(Tools!BaselineWindows),
         NEW c, \A i \in DOMAIN Tools!BaselineWindows : IsFiniteSet(DOMAIN c.weeks[i]),
         Tools!BaselineStats(Tools!Buckets(c.weeks, brought),
                             Tools!ExpectedPoints(Tools!BaselineWindows[1])).reliable
  PROVE  HalfOfAll(c, Tools!FetchedOf(brought))
<1> DEFINE per == Tools!ExpectedPoints(Tools!BaselineWindows[1])  n == Len(Tools!BaselineWindows)
           b == Tools!Buckets(c.weeks, brought)
<1>1. n \in Nat /\ DOMAIN Tools!BaselineWindows = 1..n /\ per \in Int BY WindowsShape
<1>2. DOMAIN b = 1..n /\ \A i \in 1..n : b[i] = c.weeks[i] \/ b[i] = <<>> BY DEF Tools!Buckets
<1>3. IsFiniteSet(1..n) BY <1>1, FS_Interval
<1>4. IsFiniteSet(DOMAIN <<>>) BY FS_EmptySet
<1>5. IsFiniteSet(Tools!PointsIn(b))
  <2> HIDE DEF b, n
  <2>1. \A i \in DOMAIN b : IsFiniteSet(DOMAIN b[i]) BY <1>1, <1>2, <1>4
  <2> QED BY <1>2, <1>3, <2>1, BucketsFinite
<1>6. Len(b) = n
  <2> b = [i \in 1..n |-> IF i \in Tools!FetchedOf(brought) THEN c.weeks[i] ELSE <<>>] BY DEF Tools!Buckets
  <2> HIDE DEF b, n
  <2> QED BY <1>1
<1>7. 2 * Tools!Cardinality(Tools!PointsIn(b)) >= n * per - 1
  <2>1. Tools!BaselineStats(b, per).reliable OBVIOUS
  <2> HIDE DEF b, n, per
  <2> QED BY <1>1, <1>5, <1>6, <2>1, ReliableHalf
<1> QED BY <1>7, BucketsHold DEF HalfOfAll

(* Without fetched windows a baseline has no points.                       *)
LEMMA NothingFetched ==
  ASSUME NEW weeks, NEW brought, NEW per, Tools!FetchedOf(brought) = {}
  PROVE  Tools!BaselineStats(Tools!Buckets(weeks, brought), per).count = 0
<1>1. Tools!PointsIn([i \in {} |-> weeks[i]]) = {} BY DEF Tools!PointsIn
<1>2. Tools!PointsIn(Tools!Buckets(weeks, brought)) = {} BY <1>1, BucketsHold
<1> QED BY <1>2, NoPoints

(* Every window that was asked has failed, was fetched or had nothing.     *)
LEMMA WindowsAccounted ==
  ASSUME NEW brought, \A w \in DOMAIN brought : brought[w] \in Outcomes
  PROVE  \A w \in DOMAIN brought :
           brought[w] \in (IF w \in Tools!FailedOf(brought) THEN Tools!Errors
                           ELSE IF w \in Tools!FetchedOf(brought) THEN Tools!Data ELSE Tools!Nothing)
  BY DEF Outcomes, Tools!FailedOf, Tools!FetchedOf

(* What is said of a metric or a contributor rests on the windows fetched. *)
LEMMA SnapshotIsHonest ==
  ASSUME Tools!ToolConstants, input \in ToolInputs, input.tool = "snapshot", input' = input,
         NEW brought, DOMAIN brought = 1..Len(Tools!BaselineWindows),
         \A w \in DOMAIN brought : brought[w] \in Outcomes,
         answer' = Tools!SnapshotOf(brought)
  PROVE  Tools!BaselineHonest' /\ Tools!AbsenceHonest' /\ Tools!RelatedAccounted'
<1> DEFINE per == Tools!ExpectedPoints(Tools!BaselineWindows[1])
           fetched == Tools!FetchedOf(brought)
           stats == IF Tools!BaselineFails(brought) THEN Tools!NoBaseline
                    ELSE Tools!BaselineStats(Tools!Buckets(input.weeks, brought), per)
           verdict == Tools!Process(input.points, stats, input.meta, input.window)
<1>1. /\ answer'.kind = "snapshot" /\ answer'.verdict = verdict /\ answer'.fetched = fetched
      /\ answer'.failed = Tools!FailedOf(brought) /\ answer'.got = brought
  BY DEF Tools!SnapshotOf
<1>2. /\ verdict.class \in Tools!DeltaBased => stats.reliable
      /\ stats.count = 0 => verdict.confidence = "low"
  BY JudgedBy
<1>3. stats.reliable => HalfOfAll(input, fetched)
  <2>1. \A i \in DOMAIN Tools!BaselineWindows : IsFiniteSet(DOMAIN input.weeks[i])
    BY ToolsSame DEF Tools!ToolConstants, Tools!BaselineWindows
  <2>2. ASSUME Tools!BaselineStats(Tools!Buckets(input.weeks, brought), per).reliable
        PROVE  HalfOfAll(input, fetched)
    BY <2>1, <2>2, BaselineHalf
  <2> QED BY <2>2, NoStatistics
<1>4. fetched = {} => stats.count = 0 BY NoStatistics, NothingFetched
<1> HIDE DEF stats, verdict, fetched
<1>5. HalfOfAll(input, fetched) =>
        2 * Tools!Weeks(input)' >= (Len(Tools!BaselineWindows) * per - 1)'
  BY <1>1 DEF HalfOfAll, Tools!Weeks, Tools!BaselineWindows
<1>6. Tools!Carried(input, answer.verdict.class)' BY <1>1, <1>2, <1>3, <1>5 DEF Tools!Carried
<1>7. \A w \in DOMAIN Tools!BaselineWindows' :
        answer'.got[w] \in (IF w \in answer'.failed THEN Tools!Errors
                            ELSE IF w \in answer'.fetched THEN Tools!Data ELSE Tools!Nothing)
  <2>1. Tools!BaselineWindows' = Tools!BaselineWindows BY DEF Tools!BaselineWindows
  <2>2. DOMAIN Tools!BaselineWindows = DOMAIN brought BY WindowsShape
  <2> QED BY Zenon, <1>1, <2>1, <2>2, WindowsAccounted DEF fetched
<1>8. Tools!BaselineHonest' BY <1>1, <1>2, <1>4, <1>6, <1>7 DEF Tools!BaselineHonest
<1>9. Tools!AbsenceHonest' /\ Tools!RelatedAccounted' BY <1>1 DEF Tools!AbsenceHonest, Tools!RelatedAccounted
<1> QED BY <1>8, <1>9

LEMMA TopIsHonest ==
  ASSUME Tools!ToolConstants, input \in ToolInputs, input.tool = "top", input' = input,
         NEW brought, DOMAIN brought = 1..Len(Tools!BaselineWindows),
         \A w \in DOMAIN brought : brought[w] \in Outcomes,
         NEW order \in Tools!Rankings(Tools!Contributors(brought), Tools!FetchedOf(brought) # {}),
         answer' = Tools!TopOf(brought, order)
  PROVE  Tools!BaselineHonest' /\ Tools!AbsenceHonest' /\ Tools!RelatedAccounted'
<1> DEFINE fetched == Tools!FetchedOf(brought)
           per == Tools!ExpectedPoints(Tools!BaselineWindows[1])
           kept == {k \in DOMAIN order : k <= ContributorLimit}
<1>1. /\ answer'.kind = "top" /\ answer'.fetched = fetched
      /\ answer'.failed = Tools!FailedOf(brought) /\ answer'.got = brought
      /\ answer'.contributors = [k \in kept |-> order[k]]
  BY DEF Tools!TopOf
<1>2. \A k \in DOMAIN order : order[k] \in Tools!Contributors(brought) BY DEF Tools!Rankings
<1>3. ASSUME NEW said \in Tools!Contributors(brought), input.mode # "pre_event",
             said.verdict.class \in Tools!DeltaBased
      PROVE  HalfOfAll(input.contributors[said.of], fetched)
  <2>1. PICK i \in Tools!Attributed : said = Tools!Contributor(i, brought, fetched # {})
    BY DEF Tools!Contributors
  <2> DEFINE c == input.contributors[i]
             stats == IF ~ (fetched # {}) \/ \A w \in fetched : c.weeks[w] = <<>> THEN Tools!NoBaseline
                      ELSE Tools!BaselineStats(Tools!Buckets(c.weeks, brought), per)
  <2>2. said.of = i /\ said.verdict = Tools!Process(c.points, stats, input.meta, input.window)
    BY <1>3, <2>1 DEF Tools!Contributor
  <2>3. stats.reliable BY <1>3, <2>2, JudgedBy
  <2>4. Tools!BaselineStats(Tools!Buckets(c.weeks, brought), per).reliable BY <2>3, NoStatistics
  <2>5. \A w \in DOMAIN Tools!BaselineWindows : IsFiniteSet(DOMAIN c.weeks[w])
    BY <2>1, ToolsSame DEF Tools!ToolConstants, Tools!BaselineWindows, Tools!Attributed
  <2>6. HalfOfAll(c, fetched) BY <2>4, <2>5, BaselineHalf
  <2> QED BY <2>2, <2>6
<1> HIDE DEF fetched
<1>4. ASSUME NEW c, HalfOfAll(c, fetched)
      PROVE  2 * Tools!Cardinality(Tools!PointsIn([i \in answer'.fetched |-> c.weeks[i]])) >=
             Len(Tools!BaselineWindows) * per - 1
  BY <1>1, <1>4 DEF HalfOfAll
<1>5. Tools!BaselineWindows' = Tools!BaselineWindows BY DEF Tools!BaselineWindows
<1>6. ASSUME NEW k \in DOMAIN answer'.contributors
      PROVE  LET said == answer'.contributors[k]
             IN said.verdict.class \in Tools!DeltaBased /\ input'.mode # "pre_event" =>
                  2 * Tools!Cardinality(Tools!PointsIn(
                        [i \in answer'.fetched |-> input'.contributors[said.of].weeks[i]])) >=
                  Len(Tools!BaselineWindows') * Tools!ExpectedPoints(Tools!BaselineWindows'[1]) - 1
  <2>1. answer'.contributors[k] \in Tools!Contributors(brought) BY <1>1, <1>2, <1>6
  <2> QED BY <1>3, <1>4, <1>5, <2>1
<1>7. \A w \in DOMAIN Tools!BaselineWindows' :
        answer'.got[w] \in (IF w \in answer'.failed THEN Tools!Errors
                            ELSE IF w \in answer'.fetched THEN Tools!Data ELSE Tools!Nothing)
  <2>1. DOMAIN Tools!BaselineWindows = DOMAIN brought BY WindowsShape
  <2>2. /\ answer'.fetched = Tools!FetchedOf(brought) /\ answer'.failed = Tools!FailedOf(brought)
        /\ answer'.got = brought
    BY <1>1 DEF fetched
  <2>3. \A w \in DOMAIN brought :
          brought[w] \in (IF w \in Tools!FailedOf(brought) THEN Tools!Errors
                          ELSE IF w \in Tools!FetchedOf(brought) THEN Tools!Data ELSE Tools!Nothing)
    BY WindowsAccounted
  <2> QED BY Zenon, <1>5, <2>1, <2>2, <2>3
<1>8. Tools!BaselineHonest' BY <1>1, <1>6, <1>7 DEF Tools!BaselineHonest, Tools!Carried, Tools!Weeks
<1>9. Tools!AbsenceHonest' /\ Tools!RelatedAccounted' BY <1>1 DEF Tools!AbsenceHonest, Tools!RelatedAccounted
<1> QED BY <1>8, <1>9

-----------------------------------------------------------------------------
(* The answer of metrics_related.  What ended a task that is no signal     *)
(* says whether it is benign.                                              *)
LEMMA RelatedIsAccounted ==
  ASSUME input.tool = "related", call \in ToolCalls, call.phase = "related",
         Len(call.tasks) = input.related, input' = input,
         \A i \in DOMAIN call.tasks : /\ call.tasks[i].state = "done"
                                     /\ TaskSound("related", Tools!Misconfigured(i), call.tasks[i]),
         answer' = Tools!RelatedOf
  PROVE  Tools!BaselineHonest' /\ Tools!AbsenceHonest' /\ Tools!RelatedAccounted'
<1> DEFINE got == [i \in DOMAIN call.tasks |-> call.tasks[i].got]
           n == input.related
           signals == {i \in DOMAIN got : Tools!IsSignal(got[i])}
           skipped == [i \in DOMAIN got \ signals |-> Tools!Cause(i, got[i])]
           failures == {i \in DOMAIN skipped : skipped[i] # "benign"}
           warned == \E i \in DOMAIN got : \E k \in 2..Len(got[i]) : got[i][k] \in {"lossy", "dropped"}
           whole == [kind |-> "related", signals |-> signals, skipped |-> skipped,
                     partial |-> failures # {} \/ warned, got |-> got]
<1>1. answer'.kind = "error" \/ answer' = whole BY Zenon DEF Tools!RelatedOf
<1>2. CASE answer'.kind = "error" BY <1>2 DEF Tools!BaselineHonest, Tools!AbsenceHonest, Tools!RelatedAccounted
<1>3. CASE answer' = whole
  <2>1. /\ DOMAIN got = 1..n
        /\ \A i \in 1..n : /\ got[i] \in Seq(Outcomes) /\ got[i] # <<>>
                           /\ \A k \in DOMAIN got[i] : k < Len(got[i]) => got[i][k] \in Tools!Data
                           /\ Tools!Misconfigured(i) => Len(got[i]) = 1
                           /\ got[i][1] \notin {"lossy", "dropped"}
    <3>1. call.tasks \in Seq(ToolTasks) BY DEF ToolCalls
    <3>2. DOMAIN call.tasks = 1..n BY <3>1
    <3>3. \A i \in 1..n : call.tasks[i] \in ToolTasks /\ TaskSound("related", Tools!Misconfigured(i), call.tasks[i])
      BY <3>1, <3>2
    <3> QED BY <3>2, <3>3 DEF ToolTasks, TaskSound
  <2>2. \A i \in 1..n : i \in input.misconfigured => Tools!Misconfigured(i) BY DEF Tools!Misconfigured
  <2> HIDE DEF got, n
  <2>3. \A i \in DOMAIN skipped : skipped[i] = Tools!Cause(i, got[i])
    BY <2>1
  <2>4. ASSUME NEW i \in 1..n,
               \/ got[i][Len(got[i])] \in {"failed", "panic"}
               \/ i \in input.misconfigured /\ got[i][1] = "points"
        PROVE  i \in DOMAIN skipped /\ i \in failures
    <3> DEFINE g == got[i]
    <3>1. g \in Seq(Outcomes) /\ g # <<>> BY <2>1
    <3>2. CASE i \in input.misconfigured /\ g[1] = "points"
      <4>1. Len(g) = 1 /\ Tools!Misconfigured(i) BY <2>1, <2>2, <3>2
      <4> HIDE DEF g
      <4>2. g = <<"points">> BY <3>1, <3>2, <4>1
      <4>3. ~ Tools!IsSignal(g) BY <4>1 DEF Tools!IsSignal
      <4>4. Tools!Cause(i, g) = "misconfig" BY <4>1, <4>2 DEF Tools!Cause, Tools!Nothing
      <4> QED BY <2>1, <4>3, <4>4 DEF g
    <3>3. CASE g[Len(g)] \in {"failed", "panic"}
      <4> HIDE DEF g
      <4>1. g[Len(g)] \notin Tools!Data /\ g[Len(g)] \notin Tools!Nothing \union {"canceled"}
        BY <3>3 DEF Tools!Data, Tools!Nothing
      <4>2. ~ Tools!IsSignal(g) BY <4>1 DEF Tools!IsSignal
      <4>3. Tools!Cause(i, g) # "benign" BY <4>1 DEF Tools!Cause
      <4> QED BY <2>1, <4>2, <4>3 DEF g
    <3> QED BY <2>4, <3>2, <3>3
  <2>5. ASSUME NEW i \in 1..n, Tools!Range(got[i]) \intersect {"lossy", "dropped"} # {} PROVE warned
    <3> DEFINE g == got[i]
    <3>1. g \in Seq(Outcomes) /\ g[1] \notin {"lossy", "dropped"} BY <2>1
    <3>2. PICK k \in DOMAIN g : g[k] \in {"lossy", "dropped"} BY <2>5 DEF Tools!Range
    <3>3. k \in 2..Len(g)
      <4> HIDE DEF g
      <4> QED BY <3>1, <3>2
    <3> QED BY <2>1, <3>2, <3>3
  <2>6. ASSUME NEW i \in signals PROVE got[i][1] \in Tools!Data /\ got[i][2] \in Tools!Data
    <3> DEFINE g == got[i]
    <3>1. i \in 1..n /\ Len(g) = 3 BY <2>1 DEF Tools!IsSignal
    <3>2. g \in Seq(Outcomes) /\ \A k \in DOMAIN g : k < Len(g) => g[k] \in Tools!Data BY <2>1, <3>1
    <3> HIDE DEF g
    <3>3. g[1] \in Tools!Data /\ g[2] \in Tools!Data BY <3>1, <3>2
    <3> QED BY <3>3 DEF g
  <2>7. /\ answer'.signals = signals /\ answer'.skipped = skipped /\ answer'.got = got
        /\ answer'.kind = "related" /\ input'.related = n /\ input'.misconfigured = input.misconfigured
        /\ answer'.partial = (failures # {} \/ warned)
    BY <1>3 DEF n
  <2> HIDE DEF signals, skipped, failures, warned
  <2>8. Tools!RelatedAccounted' BY Zenon, <2>1, <2>3, <2>4, <2>5, <2>6, <2>7 DEF Tools!RelatedAccounted
  <2>9. Tools!BaselineHonest' /\ Tools!AbsenceHonest' BY <2>7 DEF Tools!BaselineHonest, Tools!AbsenceHonest
  <2> QED BY <2>8, <2>9
<1> QED BY Zenon, <1>1, <1>2, <1>3

-----------------------------------------------------------------------------
(* The tasks.  Those of a phase begin waiting.                             *)
LEMMA TasksBegin ==
  ASSUME Tools!ToolConstants, input' = input, NEW phase, NEW n \in Nat, NEW ctx,
         call' = Tools!Begin(phase, n, ctx),
         phase \in {"related", "descriptor", "current", "baseline", "windows"},
         ctx \in {"alive", "canceled", "deadline"},
         (phase = "related") = (input.tool = "related"),
         phase = "related" => n = input.related,
         phase \in {"current", "baseline"} => input.tool \in {"snapshot", "top"},
         phase = "baseline" => n = Len(Tools!BaselineWindows),
         phase = "windows" => n = 2
  PROVE  ToolsCall'
<1> DEFINE new == [i \in 1..n |-> Tools!Waiting]
<1>1. Tools!Waiting = [state |-> "waiting", got |-> <<>>] BY DEF Tools!Waiting
<1>2. Tools!Waiting \in ToolTasks BY <1>1 DEF ToolTasks
<1>3. new \in Seq(ToolTasks) /\ Len(new) = n /\ DOMAIN new = 1..n BY <1>2
<1>4. call' = [pc |-> "tasks", phase |-> phase, ctx |-> ctx, tasks |-> new] BY DEF Tools!Begin
<1> HIDE DEF new
<1>5. /\ call'.phase = phase /\ call'.tasks = new /\ DOMAIN call'.tasks = 1..n
      /\ call' \in ToolCalls
  BY <1>3, <1>4 DEF ToolCalls
<1>6. \A i \in 1..n : call'.tasks[i] = [state |-> "waiting", got |-> <<>>] BY <1>1, <1>5 DEF new
<1>7. ASSUME NEW i \in 1..n, NEW m PROVE TaskSound(phase, m, call'.tasks[i])
  BY <1>6 DEF TaskSound
<1>8. Cardinality(Tools!Running') <= Tools!Limit'
  <2>1. Tools!Running' = {} BY <1>5, <1>6 DEF Tools!Running
  <2>2. Tools!Limit' \in Nat BY <1>3, <1>5 DEF Tools!Limit, Tools!ToolConstants
  <2> QED BY <2>1, <2>2, FS_EmptySet
<1>9. Tools!BaselineWindows' = Tools!BaselineWindows BY DEF Tools!BaselineWindows
<1> QED BY <1>3, <1>5, <1>7, <1>8, <1>9 DEF ToolsCall

(* One task moves.  Another one runs only when there is a place.           *)
LEMMA TaskMoves ==
  ASSUME Tools!ToolConstants, ToolsCall, call # Tools!Idle, input' = input,
         NEW i \in DOMAIN call.tasks, NEW new \in ToolTasks,
         call' = [call EXCEPT !.tasks[i] = new],
         TaskSound(call.phase, Tools!Misconfigured(i), new),
         \/ new.state # "running" \/ call.tasks[i].state = "running"
         \/ Cardinality(Tools!Running) < Tools!Limit
  PROVE  ToolsCall'
<1>1. call \in ToolCalls /\ Cardinality(Tools!Running) <= Tools!Limit BY DEF ToolsCall
<1>2. call.tasks \in Seq(ToolTasks) BY <1>1 DEF ToolCalls
<1> DEFINE old == call.tasks  n == Len(old)
<1>3. n \in Nat /\ DOMAIN old = 1..n BY <1>2
<1> DEFINE moved == [old EXCEPT ![i] = new]
<1>4. moved \in Seq(ToolTasks) /\ Len(moved) = n /\ DOMAIN moved = 1..n
  <2> HIDE DEF old
  <2>1. old \in Seq(ToolTasks) /\ i \in 1..Len(old) BY <1>2, <1>3 DEF old
  <2> QED BY <1>3, <2>1, ExceptSeq
<1>5. /\ call'.phase = call.phase /\ call'.tasks = moved
      /\ call' \in ToolCalls /\ Len(call'.tasks) = n /\ DOMAIN call'.tasks = 1..n
  <2>1. call'.phase = call.phase /\ call'.tasks = moved /\ call' \in ToolCalls
    BY <1>1, <1>4 DEF ToolCalls
  <2> HIDE DEF moved, old
  <2> QED BY <1>4, <2>1
<1>6. \A j \in 1..n : call'.tasks[j] = IF j = i THEN new ELSE old[j] BY <1>3, <1>5
<1>7. Tools!Misconfigured(i)' = Tools!Misconfigured(i) /\ \A j : Tools!Misconfigured(j)' = Tools!Misconfigured(j)
  BY <1>5 DEF Tools!Misconfigured
<1>8. ASSUME NEW j \in 1..n PROVE TaskSound(call.phase, Tools!Misconfigured(j), call'.tasks[j])
  <2>1. TaskSound(call.phase, Tools!Misconfigured(j), old[j]) BY <1>3 DEF ToolsCall
  <2> QED BY <1>6, <2>1
<1>9. Cardinality(Tools!Running') <= Tools!Limit'
  <2>1. Tools!Running' \subseteq Tools!Running \union {i} BY <1>3, <1>5, <1>6 DEF Tools!Running
  <2>2. Tools!Running \subseteq 1..n BY <1>3 DEF Tools!Running
  <2>3. IsFiniteSet(Tools!Running)
    <3>1. IsFiniteSet(1..n) BY <1>3, FS_Interval
    <3> QED BY <2>2, <3>1, FS_Subset
  <2>4. Tools!Limit' = Tools!Limit /\ Tools!Limit \in Nat BY <1>3, <1>5 DEF Tools!Limit, Tools!ToolConstants
  <2>5. Cardinality(Tools!Running) \in Nat BY <2>3, FS_CardinalityType
  <2> DEFINE all == Tools!Running \union {i}
  <2>6. IsFiniteSet(all) /\ Cardinality(all) =
          IF i \in Tools!Running THEN Cardinality(Tools!Running) ELSE Cardinality(Tools!Running) + 1
    BY <2>3, FS_AddElement
  <2>7. CASE Tools!Running' \subseteq Tools!Running
    <3>1. IsFiniteSet(Tools!Running') /\ Cardinality(Tools!Running') <= Cardinality(Tools!Running)
      BY <2>3, <2>7, FS_Subset
    <3>2. Cardinality(Tools!Running') \in Nat BY <3>1, FS_CardinalityType
    <3> QED BY <1>1, <2>4, <2>5, <3>1, <3>2
  <2>8. CASE ~ (Tools!Running' \subseteq Tools!Running)
    <3>1. new.state = "running" /\ i \notin Tools!Running
      BY <1>3, <1>5, <1>6, <2>8 DEF Tools!Running
    <3>2. Cardinality(Tools!Running) < Tools!Limit BY <3>1 DEF Tools!Running
    <3>3. IsFiniteSet(Tools!Running') /\ Cardinality(Tools!Running') <= Cardinality(all)
      BY <2>1, <2>6, FS_Subset
    <3>4. Cardinality(Tools!Running') \in Nat BY <3>3, FS_CardinalityType
    <3> QED BY <2>4, <2>5, <2>6, <3>1, <3>2, <3>3, <3>4
  <2> QED BY <2>7, <2>8
<1>10. Tools!BaselineWindows' = Tools!BaselineWindows BY DEF Tools!BaselineWindows
<1> QED BY <1>5, <1>7, <1>8, <1>9, <1>10 DEF ToolsCall

-----------------------------------------------------------------------------
(* The steps.  What other answers, none and the one already given say is   *)
(* kept; a call that is over has no tasks.                                 *)
LEMMA AnswerOther ==
  ASSUME answer'.kind \notin {"snapshot", "top", "related", "no_data", "judged", "one_sided"}
  PROVE  Tools!BaselineHonest' /\ Tools!AbsenceHonest' /\ Tools!RelatedAccounted'
  BY DEF Tools!BaselineHonest, Tools!AbsenceHonest, Tools!RelatedAccounted

LEMMA AnswerKept ==
  ASSUME UNCHANGED <<input, answer>>, Tools!BaselineHonest, Tools!AbsenceHonest, Tools!RelatedAccounted
  PROVE  Tools!BaselineHonest' /\ Tools!AbsenceHonest' /\ Tools!RelatedAccounted'
<1>1. Tools!BaselineHonest'
  BY DEF Tools!BaselineHonest, Tools!Carried, Tools!Weeks, Tools!BaselineWindows
<1>2. Tools!AbsenceHonest' /\ Tools!RelatedAccounted' BY DEF Tools!AbsenceHonest, Tools!RelatedAccounted
<1> QED BY <1>1, <1>2

LEMMA ReplyOther ==
  ASSUME ToolsInv, NEW result, Tools!Reply(result),
         result.kind \notin {"snapshot", "top", "related", "no_data", "judged", "one_sided"}
  PROVE  ToolsInv'
<1>1. answer' = result /\ call' = Tools!Idle /\ input' = input BY DEF Tools!Reply
<1>2. ToolsCall' BY <1>1 DEF ToolsCall, Tools!Idle
<1>3. Tools!BaselineHonest' /\ Tools!AbsenceHonest' /\ Tools!RelatedAccounted' BY <1>1, AnswerOther
<1> QED BY <1>1, <1>2, <1>3 DEF ToolsInv

(* A window without data, or two that were compared.                       *)
LEMMA ReplyAbsence ==
  ASSUME ToolsInv, NEW result, Tools!Reply(result), result.kind \in {"no_data", "judged", "one_sided"},
         result.kind = "no_data" => result.got[1] \in Tools!Nothing,
         result.kind = "judged" => result.got[1] \in Tools!Data /\ result.got[2] \in Tools!Data,
         result.kind = "one_sided" =>
           /\ \A w \in 1..2 : result.got[w] \in (IF w \in result.noData THEN Tools!Nothing ELSE Tools!Data)
           /\ result.shift = "emerged" => result.noData = {1}
           /\ result.shift = "disappeared" => result.noData = {2}
           /\ result.shift = "unchanged" => result.noData = {1, 2}
  PROVE  ToolsInv'
<1>1. answer' = result /\ call' = Tools!Idle /\ input' = input BY DEF Tools!Reply
<1>2. ToolsCall' BY <1>1 DEF ToolsCall, Tools!Idle
<1>3. Tools!AbsenceHonest' BY Zenon, <1>1 DEF Tools!AbsenceHonest
<1>4. Tools!BaselineHonest' /\ Tools!RelatedAccounted' BY <1>1 DEF Tools!BaselineHonest, Tools!RelatedAccounted
<1> QED BY <1>1, <1>2, <1>3, <1>4 DEF ToolsInv

LEMMA ToolsInit == Tools!Init => ToolsInv
  BY DEF Tools!Init, ToolsInv, ToolsCall, Tools!NoAnswer, Tools!BaselineHonest,
     Tools!AbsenceHonest, Tools!RelatedAccounted

LEMMA ToolsAsk == ASSUME Tools!ToolConstants, ToolsInv, Tools!Ask PROVE ToolsInv'
<1>1. CASE input.tool # "related"
  <2>1. call' = Tools!Begin("descriptor", 1, "alive") /\ UNCHANGED <<input, answer>> BY <1>1 DEF Tools!Ask
  <2>2. ToolsCall' BY <1>1, <2>1, TasksBegin
  <2> QED BY <2>1, <2>2, AnswerKept DEF ToolsInv
<1>2. CASE input.tool = "related" /\ input.related = 0
  BY <1>2, ReplyOther DEF Tools!Ask
<1>3. CASE input.tool = "related" /\ input.related # 0
  <2>1. call' = Tools!Begin("related", input.related, "alive") /\ UNCHANGED <<input, answer>>
    BY <1>3 DEF Tools!Ask
  <2>2. input.related \in Nat BY <1>3 DEF ToolsInv, Tools!ToolConstants
  <2>3. ToolsCall' BY <1>3, <2>1, <2>2, TasksBegin
  <2> QED BY <2>1, <2>3, AnswerKept DEF ToolsInv
<1> QED BY <1>1, <1>2, <1>3

LEMMA ToolsContextDone == ASSUME ToolsInv, Tools!ContextDone PROVE ToolsInv'
<1>1. call.pc = "tasks" /\ UNCHANGED <<input, answer>> BY DEF Tools!ContextDone
<1>2. call # Tools!Idle /\ call \in ToolCalls BY <1>1 DEF ToolsInv, ToolsCall, Tools!Idle
<1>3. PICK ctx \in {"canceled", "deadline"} : call' = [call EXCEPT !.ctx = ctx] BY DEF Tools!ContextDone
<1>4. call' \in ToolCalls /\ call'.phase = call.phase /\ call'.tasks = call.tasks
  BY <1>2, <1>3 DEF ToolCalls
<1>5. /\ Tools!Running' = Tools!Running /\ Tools!Limit' = Tools!Limit
      /\ Tools!BaselineWindows' = Tools!BaselineWindows
      /\ \A i : Tools!Misconfigured(i)' = Tools!Misconfigured(i)
  BY <1>1, <1>4 DEF Tools!Running, Tools!Limit, Tools!BaselineWindows, Tools!Misconfigured
<1>6. ToolsCall'
  <2>1. ToolsCall BY DEF ToolsInv
  <2> QED BY <1>1, <1>2, <1>4, <1>5, <2>1 DEF ToolsCall
<1> QED BY <1>1, <1>6, AnswerKept DEF ToolsInv

LEMMA ToolsStart ==
  ASSUME Tools!ToolConstants, ToolsInv, call.pc = "tasks",
         NEW i \in DOMAIN call.tasks, Tools!StartTask(i)
  PROVE  ToolsInv'
<1>1. call # Tools!Idle /\ call \in ToolCalls BY DEF ToolsInv, ToolsCall, Tools!Idle
<1> DEFINE t == call.tasks[i]
           stopped == [state |-> "done", got |-> <<Tools!Stopped(call.ctx)>>]
           new == IF call.ctx = "alive" THEN [t EXCEPT !.state = "running"] ELSE stopped
<1>2. /\ t.state = "waiting" /\ Cardinality(Tools!Running) < Tools!Limit
      /\ call' = [call EXCEPT !.tasks[i] = new] /\ UNCHANGED <<input, answer>>
  BY ToolsSame DEF Tools!StartTask
<1>3. t \in ToolTasks /\ TaskSound(call.phase, Tools!Misconfigured(i), t)
  BY <1>1 DEF ToolsInv, ToolsCall, ToolCalls
<1>4. t.got = <<>> BY <1>2, <1>3 DEF TaskSound
<1>5. Len(Tools!Steps(call.phase)) >= 1 BY DEF Tools!Steps
<1>6. new \in ToolTasks /\ TaskSound(call.phase, Tools!Misconfigured(i), new)
  <2>1. CASE call.ctx = "alive"
    <3>1. new = [state |-> "running", got |-> <<>>] BY <1>3, <1>4, <2>1 DEF ToolTasks
    <3> HIDE DEF new
    <3> QED BY <1>5, <3>1 DEF ToolTasks, TaskSound
  <2>2. CASE call.ctx # "alive"
    <3>1. new = [state |-> "done", got |-> <<Tools!Stopped(call.ctx)>>] BY <2>2
    <3>2. PICK o \in {"canceled", "failed"} : o = Tools!Stopped(call.ctx) BY DEF Tools!Stopped
    <3>3. o \in Outcomes /\ o \notin {"lossy", "dropped"} BY DEF Outcomes, Tools!Errors
    <3> HIDE DEF new
    <3>4. new = [state |-> "done", got |-> <<o>>] BY <3>1, <3>2
    <3> QED BY <3>3, <3>4 DEF ToolTasks, TaskSound
  <2> QED BY <2>1, <2>2
<1>7. ToolsCall'
  <2> HIDE DEF new
  <2> QED BY <1>1, <1>2, <1>6, TaskMoves DEF ToolsInv
<1> QED BY <1>2, <1>7, AnswerKept DEF ToolsInv

LEMMA ToolsStepTask ==
  ASSUME Tools!ToolConstants, ToolsInv, call.pc = "tasks",
         NEW i \in DOMAIN call.tasks, Tools!StepTask(i)
  PROVE  ToolsInv'
<1>1. call # Tools!Idle /\ call \in ToolCalls BY DEF ToolsInv, ToolsCall, Tools!Idle
<1> DEFINE t == call.tasks[i]  steps == Tools!Steps(call.phase)  k == Len(t.got) + 1
           m == Tools!Misconfigured(i)
<1>2. t.state = "running" /\ UNCHANGED <<input, answer>> BY DEF Tools!StepTask
<1>3. PICK brought \in Tools!Brings(steps[k], call.phase, call.ctx) :
        call' = [call EXCEPT !.tasks[i] =
          [state |-> IF k = Len(steps) \/ brought \notin Tools!Data \/ (k = 1 /\ m)
                     THEN "done" ELSE "running",
           got |-> Append(t.got, brought)]]
  BY DEF Tools!StepTask
<1>4. t \in ToolTasks /\ TaskSound(call.phase, m, t)
  BY <1>1 DEF ToolsInv, ToolsCall, ToolCalls
<1>5. brought \in Outcomes
  BY DEF Tools!Brings, Tools!Stopped, Outcomes, Tools!Data, Tools!Nothing, Tools!Errors
<1>6. call.phase = "related" /\ k = 1 => brought \notin {"lossy", "dropped"}
  BY DEF Tools!Brings, Tools!Stopped, Tools!Steps
<1>7. PICK state \in {"done", "running"} :
        state = IF k = Len(steps) \/ brought \notin Tools!Data \/ (k = 1 /\ m) THEN "done" ELSE "running"
  OBVIOUS
<1>8. Len(steps) \in Nat BY DEF Tools!Steps
<1> DEFINE g == t.got  new == [state |-> state, got |-> Append(g, brought)]
<1>9. call' = [call EXCEPT !.tasks[i] = new] BY <1>3, <1>7
<1>10. /\ g \in Seq(Outcomes) /\ Len(g) < Len(steps) /\ \A j \in DOMAIN g : g[j] \in Tools!Data
       /\ m => g = <<>>
       /\ call.phase = "related" /\ g # <<>> => g[1] \notin {"lossy", "dropped"}
  BY <1>2, <1>4 DEF ToolTasks, TaskSound
<1>11. k = Len(g) + 1 OBVIOUS
<1>12. new \in ToolTasks /\ TaskSound(call.phase, m, new)
  <2> HIDE DEF g, k, m, steps
  <2>1. Append(g, brought) \in Seq(Outcomes) /\ Len(Append(g, brought)) = k
        /\ DOMAIN Append(g, brought) = 1..k /\ Append(g, brought)[k] = brought
        /\ \A j \in 1..(k - 1) : Append(g, brought)[j] = g[j]
    BY <1>5, <1>10, <1>11
  <2> DEFINE h == Append(g, brought)
  <2>2. g = <<>> \/ (1 \in DOMAIN g /\ h[1] = g[1]) BY <1>10, <1>11, <2>1
  <2>3. k \in Nat \ {0} /\ (g = <<>> <=> k = 1) /\ DOMAIN g = 1..(k - 1) BY <1>10, <1>11
  <2> HIDE DEF h
  <2>4. h # <<>> BY <2>1, <2>3 DEF h
  <2>5. state = "running" => k < Len(steps) /\ brought \in Tools!Data /\ ~ (k = 1 /\ m)
    BY <1>7, <1>8, <1>10, <1>11
  <2>6. \A j \in 1..(k - 1) : h[j] \in Tools!Data BY <1>10, <2>1, <2>3 DEF h
  <2>7. DOMAIN h = 1..k /\ Len(h) = k /\ h[k] = brought /\ h \in Seq(Outcomes) BY <2>1 DEF h
  <2>8. new = [state |-> state, got |-> h] BY DEF h
  <2> HIDE DEF new
  <2>9. /\ state = "running" => Len(h) < Len(steps) /\ \A j \in DOMAIN h : h[j] \in Tools!Data
        /\ \A j \in DOMAIN h : j < Len(h) => h[j] \in Tools!Data
    BY <2>3, <2>5, <2>6, <2>7
  <2>10. m => state = "done" /\ Len(h) = 1
    BY <1>7, <1>10, <2>3, <2>7
  <2>11. call.phase = "related" => h[1] \notin {"lossy", "dropped"}
    BY <1>6, <1>10, <2>2, <2>3, <2>7
  <2>12. state \in {"waiting", "running", "done"} /\ state # "waiting" BY <1>7
  <2> QED BY <2>4, <2>7, <2>8, <2>9, <2>10, <2>11, <2>12 DEF ToolTasks, TaskSound, steps
<1>13. ToolsCall'
  <2> HIDE DEF new
  <2> QED BY <1>1, <1>2, <1>9, <1>12, TaskMoves DEF ToolsInv
<1> QED BY <1>2, <1>13, AnswerKept DEF ToolsInv

LEMMA ToolsDescriptor ==
  ASSUME Tools!ToolConstants, ToolsInv, Tools!DescriptorKnown PROVE ToolsInv'
<1>1. /\ call # Tools!Idle /\ call \in ToolCalls /\ call.phase = "descriptor"
      /\ (call.phase = "related") = (input.tool = "related")
  BY DEF Tools!DescriptorKnown, Tools!PhaseOver, ToolsInv, ToolsCall, Tools!Idle
<1>2. input.tool # "related" /\ input.tool \in {"related", "compare", "snapshot", "top"}
  BY <1>1 DEF ToolsInv, Tools!ToolConstants
<1>3. \/ \E why \in {"descriptor", "registry"} : Tools!Reply([kind |-> "error", why |-> why])
      \/ input.tool = "compare" /\ Tools!NextPhase("windows", 2)
      \/ input.tool # "compare" /\ Tools!NextPhase("current", 1)
  BY DEF Tools!DescriptorKnown
<1>4. ASSUME NEW why, Tools!Reply([kind |-> "error", why |-> why]) PROVE ToolsInv'
  BY <1>4, ReplyOther
<1>5. ASSUME NEW phase \in {"windows", "current"}, NEW n \in Nat, Tools!NextPhase(phase, n),
             phase = "current" => input.tool # "compare", phase = "windows" => n = 2
      PROVE  ToolsInv'
  <2>1. call' = Tools!Begin(phase, n, call.ctx) /\ UNCHANGED <<input, answer>> BY <1>5 DEF Tools!NextPhase
  <2>2. call.ctx \in {"alive", "canceled", "deadline"} BY <1>1 DEF ToolCalls
  <2>3. phase \notin {"related", "baseline"} BY <1>5
  <2>4. ToolsCall' BY <1>2, <1>5, <2>1, <2>2, <2>3, TasksBegin
  <2> QED BY <2>1, <2>4, AnswerKept DEF ToolsInv
<1> QED BY <1>3, <1>4, <1>5

LEMMA ToolsCurrent ==
  ASSUME Tools!ToolConstants, ToolsInv, Tools!CurrentKnown PROVE ToolsInv'
<1>1. /\ call # Tools!Idle /\ call \in ToolCalls /\ call.phase = "current"
      /\ input.tool \in {"snapshot", "top"} /\ input \in ToolInputs
  BY DEF Tools!CurrentKnown, Tools!PhaseOver, ToolsInv, ToolsCall, Tools!Idle
<1>2. \/ Tools!Reply([kind |-> "error", why |-> "query"])
      \/ Tools!Brought[1] \in Tools!Nothing /\ Tools!Reply([kind |-> "no_data", got |-> Tools!Brought])
      \/ Tools!NextPhase("baseline", Len(Tools!BaselineWindows))
  BY DEF Tools!CurrentKnown
<1>3. ASSUME Tools!NextPhase("baseline", Len(Tools!BaselineWindows)) PROVE ToolsInv'
  <2>1. call' = Tools!Begin("baseline", Len(Tools!BaselineWindows), call.ctx) /\ UNCHANGED <<input, answer>>
    BY <1>3 DEF Tools!NextPhase
  <2>2. call.ctx \in {"alive", "canceled", "deadline"} BY <1>1 DEF ToolCalls
  <2>3. Len(Tools!BaselineWindows) \in Nat BY <1>1, WindowsShape
  <2>4. ToolsCall' BY <1>1, <2>1, <2>2, <2>3, TasksBegin
  <2> QED BY <2>1, <2>4, AnswerKept DEF ToolsInv
<1>4. ASSUME Tools!Brought[1] \in Tools!Nothing, Tools!Reply([kind |-> "no_data", got |-> Tools!Brought])
      PROVE  ToolsInv'
  <2> DEFINE result == [kind |-> "no_data", got |-> Tools!Brought]
  <2>1. result.kind = "no_data" /\ result.got = Tools!Brought OBVIOUS
  <2> HIDE DEF result
  <2> QED BY <1>4, <2>1, ReplyAbsence DEF result
<1> QED BY <1>2, <1>3, <1>4, ReplyOther

LEMMA ToolsBaseline ==
  ASSUME Tools!ToolConstants, ToolsInv, Tools!BaselineKnown PROVE ToolsInv'
<1>1. /\ call # Tools!Idle /\ call \in ToolCalls /\ call.phase = "baseline"
      /\ input.tool \in {"snapshot", "top"} /\ input \in ToolInputs
      /\ Len(call.tasks) = Len(Tools!BaselineWindows)
  BY DEF Tools!BaselineKnown, Tools!PhaseOver, ToolsInv, ToolsCall, Tools!Idle
<1> DEFINE brought == Tools!Brought
<1>2. DOMAIN brought = 1..Len(Tools!BaselineWindows)
  <2>1. DOMAIN brought = DOMAIN call.tasks BY DEF Tools!Brought
  <2>2. call.tasks \in Seq(ToolTasks) BY <1>1 DEF ToolCalls
  <2> QED BY <1>1, <2>1, <2>2
<1>2a. \A w \in DOMAIN brought : brought[w] \in Outcomes
  <2>1. call.tasks \in Seq(ToolTasks) BY <1>1 DEF ToolCalls
  <2>2. ASSUME NEW w \in DOMAIN call.tasks PROVE call.tasks[w].got[Len(call.tasks[w].got)] \in Outcomes
    <3> DEFINE g == call.tasks[w].got
    <3>1. call.tasks[w] \in ToolTasks BY <2>1
    <3>2. call.tasks[w].state = "done" BY DEF Tools!BaselineKnown, Tools!PhaseOver
    <3>3. TaskSound(call.phase, Tools!Misconfigured(w), call.tasks[w]) BY <1>1 DEF ToolsInv, ToolsCall
    <3>4. g \in Seq(Outcomes) /\ g # <<>> BY <3>1, <3>2, <3>3 DEF ToolTasks, TaskSound
    <3> HIDE DEF g
    <3>5. g[Len(g)] \in Outcomes BY <3>4
    <3> QED BY <3>5 DEF g
  <2> QED BY <2>2 DEF Tools!Brought
<1>3. \/ input.tool = "snapshot" /\ Tools!Reply(Tools!SnapshotOf(brought))
      \/ Tools!Reply([kind |-> "error", why |-> "dimension"])
      \/ /\ input.tool = "top"
         /\ \E order \in Tools!Rankings(Tools!Contributors(brought), Tools!FetchedOf(brought) # {}) :
              Tools!Reply(Tools!TopOf(brought, order))
  BY <1>1 DEF Tools!BaselineKnown
<1>4. ASSUME NEW result, Tools!Reply(result)
      PROVE  answer' = result /\ input' = input /\ ToolsCall' /\ input' \in ToolInputs
  BY <1>1, <1>4 DEF Tools!Reply, ToolsCall, Tools!Idle
<1> HIDE DEF brought
<1>5. CASE input.tool = "snapshot" /\ Tools!Reply(Tools!SnapshotOf(brought))
  BY <1>2a, <1>1, <1>2, <1>4, <1>5, SnapshotIsHonest DEF ToolsInv
<1>6. CASE Tools!Reply([kind |-> "error", why |-> "dimension"])
  BY <1>6, ReplyOther
<1>7. ASSUME input.tool = "top",
             NEW order \in Tools!Rankings(Tools!Contributors(brought), Tools!FetchedOf(brought) # {}),
             Tools!Reply(Tools!TopOf(brought, order))
      PROVE  ToolsInv'
  BY <1>2a, <1>1, <1>2, <1>4, <1>7, TopIsHonest DEF ToolsInv
<1> QED BY <1>3, <1>5, <1>6, <1>7

LEMMA ToolsWindows == ASSUME ToolsInv, Tools!WindowsKnown PROVE ToolsInv'
<1> DEFINE a == Tools!Brought[1]  b == Tools!Brought[2]
           one == [kind |-> "one_sided", noData |-> {w \in 1..2 : Tools!Brought[w] \in Tools!Nothing},
                   shift |-> IF b \in Tools!Data THEN "emerged"
                             ELSE IF a \in Tools!Data THEN "disappeared" ELSE "unchanged",
                   got |-> Tools!Brought]
<1>1. /\ call \in ToolCalls
      /\ \A i \in DOMAIN call.tasks : /\ call.tasks[i].state = "done"
                                      /\ TaskSound(call.phase, Tools!Misconfigured(i), call.tasks[i])
      /\ Len(call.tasks) = 2
  BY DEF Tools!WindowsKnown, Tools!PhaseOver, ToolsInv, ToolsCall, Tools!Idle
<1>2. ASSUME NEW w \in 1..2 PROVE Tools!Brought[w] \in Outcomes
  <2> DEFINE g == call.tasks[w].got
  <2>1. call.tasks \in Seq(ToolTasks) /\ w \in DOMAIN call.tasks BY <1>1 DEF ToolCalls
  <2>2. call.tasks[w] \in ToolTasks BY <2>1
  <2>3. g \in Seq(Outcomes) /\ g # <<>> BY <1>1, <2>1, <2>2 DEF ToolTasks, TaskSound
  <2>4. Tools!Brought[w] = g[Len(g)] BY <2>1 DEF Tools!Brought
  <2> HIDE DEF g
  <2> QED BY <2>3, <2>4
<1>3. a \in Outcomes /\ b \in Outcomes BY <1>2
<1>4. \/ Tools!Reply([kind |-> "error", why |-> "query"])
      \/ /\ a \notin Tools!Errors /\ b \notin Tools!Errors /\ (a \in Tools!Nothing \/ b \in Tools!Nothing)
         /\ Tools!Reply(one)
      \/ /\ a \notin Tools!Errors /\ b \notin Tools!Errors /\ a \notin Tools!Nothing /\ b \notin Tools!Nothing
         /\ Tools!Reply([kind |-> "judged", got |-> Tools!Brought])
  BY Zenon DEF Tools!WindowsKnown
<1>5. CASE Tools!Reply([kind |-> "error", why |-> "query"]) BY <1>5, ReplyOther
<1>6. ASSUME a \notin Tools!Errors, b \notin Tools!Errors, a \in Tools!Nothing \/ b \in Tools!Nothing,
             Tools!Reply(one)
      PROVE  ToolsInv'
  <2>1. /\ one.kind = "one_sided" /\ one.got = Tools!Brought
        /\ one.noData = {w \in 1..2 : Tools!Brought[w] \in Tools!Nothing}
        /\ one.shift = IF b \in Tools!Data THEN "emerged"
                       ELSE IF a \in Tools!Data THEN "disappeared" ELSE "unchanged"
    OBVIOUS
  <2>2. \A x \in {a, b} : (x \in Tools!Data) = (x \notin Tools!Nothing)
    BY <1>3, <1>6 DEF Outcomes, Tools!Data, Tools!Nothing
  <2>3. 1..2 = {1, 2} OBVIOUS
  <2>4. \A w \in 1..2 : one.got[w] \in (IF w \in one.noData THEN Tools!Nothing ELSE Tools!Data)
    BY <2>1, <2>2, <2>3
  <2>5. /\ one.shift = "emerged" => one.noData = {1}
        /\ one.shift = "disappeared" => one.noData = {2}
        /\ one.shift = "unchanged" => one.noData = {1, 2}
    BY <1>6, <2>1, <2>2, <2>3
  <2> HIDE DEF one
  <2> QED BY <1>6, <2>1, <2>4, <2>5, ReplyAbsence
<1>7. ASSUME a \notin Tools!Errors, b \notin Tools!Errors, a \notin Tools!Nothing, b \notin Tools!Nothing,
             Tools!Reply([kind |-> "judged", got |-> Tools!Brought])
      PROVE  ToolsInv'
  <2> DEFINE result == [kind |-> "judged", got |-> Tools!Brought]
  <2>1. result.kind = "judged" /\ result.got = Tools!Brought OBVIOUS
  <2>2. a \in Tools!Data /\ b \in Tools!Data BY <1>3, <1>7 DEF Outcomes
  <2> HIDE DEF result
  <2> QED BY <1>7, <2>1, <2>2, ReplyAbsence DEF result
<1> HIDE DEF one
<1> QED BY <1>4, <1>5, <1>6, <1>7

LEMMA ToolsRelated == ASSUME ToolsInv, Tools!RelatedKnown PROVE ToolsInv'
<1>1. /\ call # Tools!Idle /\ call.phase = "related" /\ Tools!Reply(Tools!RelatedOf)
      /\ \A i \in DOMAIN call.tasks : call.tasks[i].state = "done"
  BY DEF Tools!RelatedKnown, Tools!PhaseOver, Tools!Idle
<1>2. /\ input.tool = "related" /\ call \in ToolCalls /\ Len(call.tasks) = input.related
      /\ \A i \in DOMAIN call.tasks : TaskSound("related", Tools!Misconfigured(i), call.tasks[i])
  BY <1>1 DEF ToolsInv, ToolsCall
<1>3. answer' = Tools!RelatedOf /\ call' = Tools!Idle /\ input' = input BY <1>1 DEF Tools!Reply
<1>4. Tools!BaselineHonest' /\ Tools!AbsenceHonest' /\ Tools!RelatedAccounted' BY <1>1, <1>2, <1>3, RelatedIsAccounted
<1>5. ToolsCall' BY <1>3 DEF ToolsCall
<1> QED BY <1>3, <1>4, <1>5 DEF ToolsInv

LEMMA ToolsSameState == ASSUME ToolsInv, UNCHANGED <<input, call>>,
                               Tools!BaselineHonest', Tools!AbsenceHonest', Tools!RelatedAccounted'
                        PROVE  ToolsInv'
<1>1. /\ Tools!Running' = Tools!Running /\ Tools!Limit' = Tools!Limit
      /\ Tools!BaselineWindows' = Tools!BaselineWindows
      /\ \A i : Tools!Misconfigured(i)' = Tools!Misconfigured(i)
  BY DEF Tools!Running, Tools!Limit, Tools!BaselineWindows, Tools!Misconfigured
<1>2. ToolsCall'
  <2>1. ToolsCall BY DEF ToolsInv
  <2> QED BY <1>1, <2>1 DEF ToolsCall
<1> QED BY <1>2 DEF ToolsInv

LEMMA ToolsStep ==
  ASSUME Tools!ToolConstants, ToolsInv, [Tools!Next]_Tools!vars PROVE ToolsInv'
<1>1. CASE Tools!Ask BY <1>1, ToolsAsk
<1>2. CASE Tools!ContextDone BY <1>2, ToolsContextDone
<1>3. CASE call.pc = "tasks" /\ \E i \in DOMAIN call.tasks : Tools!StartTask(i) \/ Tools!StepTask(i)
  BY <1>3, ToolsStart, ToolsStepTask
<1>4. CASE Tools!DescriptorKnown BY <1>4, ToolsDescriptor
<1>5. CASE Tools!CurrentKnown BY <1>5, ToolsCurrent
<1>6. CASE Tools!BaselineKnown BY <1>6, ToolsBaseline
<1>7. CASE Tools!WindowsKnown BY <1>7, ToolsWindows
<1>8. CASE Tools!RelatedKnown BY <1>8, ToolsRelated
<1>9. CASE Tools!Again
  <2>1. answer'.kind = "none" /\ UNCHANGED <<input, call>> BY <1>9 DEF Tools!Again, Tools!NoAnswer
  <2> QED BY <2>1, AnswerOther, ToolsSameState
<1>10. CASE UNCHANGED Tools!vars
  <2>1. UNCHANGED <<input, call, answer>> BY <1>10 DEF Tools!vars
  <2> QED BY <2>1, AnswerKept, ToolsSameState DEF ToolsInv
<1> QED BY <1>1, <1>2, <1>3, <1>4, <1>5, <1>6, <1>7, <1>8, <1>9, <1>10 DEF Tools!Next

LEMMA ToolsAreWithin == ASSUME ToolsInv PROVE Tools!WithinLimit
<1>1. CASE call = Tools!Idle BY <1>1 DEF Tools!WithinLimit, Tools!Idle
<1>2. CASE call # Tools!Idle BY <1>2, ToolsSame DEF ToolsInv, ToolsCall, Tools!WithinLimit
<1> QED BY <1>1, <1>2

-----------------------------------------------------------------------------
(* metrics signals.  Points in the order of their times: those before a    *)
(* point, itself among them, give its place, and every place is taken.     *)
LEMMA SignalsSame ==
  /\ \A S : Signals!Cardinality(S) = Cardinality(S) /\ (Signals!IsFiniteSet(S) <=> IsFiniteSet(S))
  /\ \A s : Signals!Range(s) = {s[k] : k \in DOMAIN s}
  BY DEF Signals!Cardinality, Cardinality, Signals!IsFiniteSet, IsFiniteSet, Signals!Range

UpTo(p, i) == {j \in DOMAIN p : p[j].at < p[i].at \/ (p[j].at = p[i].at /\ j <= i)}

LEMMA PlacesGrow ==
  ASSUME NEW n \in Nat, NEW p, DOMAIN p = 1..n, \A i \in 1..n : p[i].at \in Int
  PROVE  /\ \A i \in 1..n : Signals!Place(p, i) \in 1..n
         /\ \A i, k \in 1..n : k \notin UpTo(p, i) => Signals!Place(p, i) < Signals!Place(p, k)
<1>1. \A i \in 1..n : UpTo(p, i) \subseteq 1..n /\ i \in UpTo(p, i) BY DEF UpTo
<1>2. IsFiniteSet(1..n) /\ Cardinality(1..n) = n BY FS_Interval
<1>3. \A i \in 1..n : IsFiniteSet(UpTo(p, i)) BY <1>1, <1>2, FS_Subset
<1>4. \A i : Signals!Place(p, i) = Cardinality(UpTo(p, i)) BY SignalsSame DEF Signals!Place, UpTo
<1>5. ASSUME NEW i \in 1..n PROVE Signals!Place(p, i) \in 1..n
  <2>1. Cardinality(UpTo(p, i)) <= n /\ Cardinality(UpTo(p, i)) \in Nat
    BY <1>1, <1>2, <1>3, FS_Subset, FS_CardinalityType
  <2>2. Cardinality(UpTo(p, i)) # 0 BY <1>1, <1>3, FS_EmptySet
  <2> QED BY <1>4, <2>1, <2>2
<1>6. ASSUME NEW i \in 1..n, NEW k \in 1..n, k \notin UpTo(p, i)
      PROVE  Signals!Place(p, i) < Signals!Place(p, k)
  <2>1. p[i].at < p[k].at \/ (p[i].at = p[k].at /\ i < k) BY <1>6 DEF UpTo
  <2>2. UpTo(p, i) \subseteq UpTo(p, k) BY <2>1 DEF UpTo
  <2>3. UpTo(p, i) # UpTo(p, k) BY <1>1, <1>6
  <2> DEFINE A == UpTo(p, i)  B == UpTo(p, k)
  <2>4. IsFiniteSet(A) /\ IsFiniteSet(B) BY <1>3
  <2>5. Cardinality(A) \in Nat /\ Cardinality(B) \in Nat BY <2>4, FS_CardinalityType
  <2> HIDE DEF A, B
  <2>6. Cardinality(A) < Cardinality(B) BY <2>2, <2>3, <2>4, <2>5, FS_Subset DEF A, B
  <2> QED BY <1>4, <2>6 DEF A, B
<1> QED BY <1>5, <1>6

LEMMA PlacesTaken ==
  ASSUME NEW n \in Nat, NEW p, DOMAIN p = 1..n, \A i \in 1..n : p[i].at \in Int
  PROVE  \A k \in 1..n : \E i \in 1..n : Signals!Place(p, i) = k
<1> SUFFICES ASSUME NEW k \in 1..n, \A i \in 1..n : Signals!Place(p, i) # k PROVE FALSE OBVIOUS
<1> DEFINE S == 1..n  T == (1..n) \ {k}  f == [i \in S |-> Signals!Place(p, i)]
<1>1. f \in [S -> T] BY PlacesGrow
<1>2. IsFiniteSet(S) /\ Cardinality(S) = n BY FS_Interval
<1>3. IsFiniteSet(T) /\ Cardinality(T) = n - 1 BY <1>2, FS_RemoveElement
<1>4. \E x, y \in S : x # y /\ f[x] = f[y]
  <2> HIDE DEF S, T, f
  <2> QED BY <1>1, <1>2, <1>3, FS_PigeonHole
<1>5. ASSUME NEW x \in S, NEW y \in S, x # y PROVE f[x] # f[y]
  <2>1. x \notin UpTo(p, y) \/ y \notin UpTo(p, x) BY <1>5 DEF UpTo
  <2>2. Signals!Place(p, x) \in Int /\ Signals!Place(p, y) \in Int BY PlacesGrow
  <2> QED BY <2>1, <2>2, PlacesGrow
<1> QED BY <1>4, <1>5

(* So the points are all there, the earliest first and the latest last.    *)
LEMMA InOrderSpans ==
  ASSUME NEW n \in Nat \ {0}, NEW p, DOMAIN p = 1..n, \A i \in 1..n : p[i].at \in Int, n = Len(p)
  PROVE  LET s == Signals!InOrder(p)  times == {q.at : q \in Signals!Range(p)}
         IN /\ Len(s) = n
            /\ s[1].at = Signals!Min(times) /\ s[n].at = Signals!Max(times)
            /\ Signals!Min(times) \in Int /\ Signals!Max(times) \in Int
<1> DEFINE place == [i \in DOMAIN p |-> Signals!Place(p, i)]
           s == Signals!InOrder(p)  times == {q.at : q \in Signals!Range(p)}
           From(k) == CHOOSE i \in DOMAIN p : place[i] = k
<1>1. s = [k \in 1..n |-> p[From(k)]] BY DEF Signals!InOrder
<1>2. DOMAIN s = 1..n /\ Len(s) = n BY <1>1
<1>a. n \in Nat OBVIOUS
<1>b. /\ \A i \in 1..n : Signals!Place(p, i) \in 1..n
      /\ \A i, k \in 1..n : k \notin UpTo(p, i) => Signals!Place(p, i) < Signals!Place(p, k)
      /\ \A k \in 1..n : \E i \in 1..n : Signals!Place(p, i) = k
  <2>1. /\ \A i \in 1..n : Signals!Place(p, i) \in 1..n
        /\ \A i, k \in 1..n : k \notin UpTo(p, i) => Signals!Place(p, i) < Signals!Place(p, k)
    BY <1>a, PlacesGrow
  <2>2. \A k \in 1..n : \E i \in 1..n : Signals!Place(p, i) = k BY <1>a, PlacesTaken
  <2> QED BY <2>1, <2>2
<1>3. ASSUME NEW k \in 1..n PROVE s[k] = p[From(k)] /\ From(k) \in 1..n /\ Signals!Place(p, From(k)) = k
  <2>1. \E i \in DOMAIN p : place[i] = k BY <1>b
  <2>2. From(k) \in DOMAIN p /\ place[From(k)] = k BY <2>1
  <2> HIDE DEF s, From
  <2>3. Signals!Place(p, From(k)) = k BY <2>2
  <2>4. s[k] = p[From(k)] BY <1>1
  <2> QED BY <2>2, <2>3, <2>4
<1>4. times = {p[i].at : i \in 1..n}
  <2>1. \A S, g : {q.at : q \in {g[i] : i \in S}} = {g[i].at : i \in S} OBVIOUS
  <2> QED BY <2>1, SignalsSame
<1>5. 1 \in 1..n /\ n \in 1..n OBVIOUS
<1> HIDE DEF s, times, From
<1>6. \A i \in 1..n : p[From(1)].at <= p[i].at
  <2> SUFFICES ASSUME NEW i \in 1..n, ~ (p[From(1)].at <= p[i].at) PROVE FALSE OBVIOUS
  <2>1. From(1) \notin UpTo(p, i) BY <1>3, <1>5 DEF UpTo
  <2>2. Signals!Place(p, i) < 1 /\ Signals!Place(p, i) \in 1..n BY <1>3, <1>5, <1>b, <2>1
  <2> QED BY <2>2
<1>7. \A i \in 1..n : p[i].at <= p[From(n)].at
  <2> SUFFICES ASSUME NEW i \in 1..n, ~ (p[i].at <= p[From(n)].at) PROVE FALSE OBVIOUS
  <2>1. i \notin UpTo(p, From(n)) BY <1>3, <1>5 DEF UpTo
  <2>2. From(n) \in 1..n /\ Signals!Place(p, From(n)) = n BY <1>3, <1>5
  <2>3. n < Signals!Place(p, i) /\ Signals!Place(p, i) \in 1..n BY <1>b, <2>1, <2>2
  <2> QED BY <2>3
<1>8. s[1].at = Signals!Min(times)
  <2> DEFINE m == p[From(1)].at
  <2>1. m \in times /\ m \in Int /\ \A y \in times : m <= y /\ y \in Int BY <1>3, <1>4, <1>5, <1>6
  <2> HIDE DEF m
  <2>2. Signals!Min(times) = m BY <2>1 DEF Signals!Min
  <2> QED BY <1>3, <1>5, <2>2 DEF m
<1>9. s[n].at = Signals!Max(times)
  <2> DEFINE m == p[From(n)].at
  <2>1. m \in times /\ m \in Int /\ \A y \in times : m >= y /\ y \in Int BY <1>3, <1>4, <1>5, <1>7
  <2> HIDE DEF m
  <2>2. Signals!Max(times) = m BY <2>1 DEF Signals!Max
  <2> QED BY <1>3, <1>5, <2>2 DEF m
<1>10. s[1].at \in Int /\ s[n].at \in Int BY <1>3, <1>5
<1> QED BY <1>2, <1>8, <1>9, <1>10 DEF s, times

(* What a baseline and a window that may be relied on have.                *)
LEMMA SignalBase ==
  ASSUME NEW b, Len(b) \in Nat, IsFiniteSet(DOMAIN b), \A i \in DOMAIN b : IsFiniteSet(DOMAIN b[i]),
         NEW per \in Nat, Signals!BaselineStats(b, per).reliable
  PROVE  /\ Signals!BaselineStats(b, per).count >= Signals!MinBaselinePoints
         /\ Signals!Full(Signals!BaselineStats(b, per).count, per * Len(b))
<1> DEFINE c == Signals!Cardinality(Signals!PointsIn(b))  q == per * Len(b)
<1>1. IsFiniteSet(Signals!PointsIn(b))
  <2>1. Signals!PointsIn(b) = Tools!PointsIn(b) BY DEF Signals!PointsIn, Tools!PointsIn
  <2> QED BY <2>1, BucketsFinite
<1>2. c \in Nat BY <1>1, FS_CardinalityType, SignalsSame
<1>3. Signals!BaselineStats(b, per).count = c BY DEF Signals!BaselineStats
<1>4. c >= Signals!MinBaselinePoints /\ c >= q \div 2 BY DEF Signals!BaselineStats
<1>5. q \in Int OBVIOUS
<1> HIDE DEF c, q
<1>6. 2 * c >= q - 1 BY <1>2, <1>4, <1>5
<1> QED BY <1>3, <1>4, <1>6 DEF Signals!Full, q

Long(w) == ~ (w = None \/ w.end <= w.start)
LEMMA SignalQuality ==
  ASSUME NEW n \in Nat \ {0}, NEW p, DOMAIN p = 1..n, n = Len(p), \A i \in 1..n : p[i].at \in Int,
         NEW w, w # None => w.start \in Int /\ w.end \in Int,
         Signals!DataQuality(Signals!InOrder(p), w).reliable
  PROVE  LET times == {q.at : q \in Signals!Range(p)}
         IN /\ n >= Signals!MinCurrentWindowPoints
            /\ Signals!Full(n, IF Long(w) THEN w.end - w.start + 1 ELSE Signals!Max(times) - Signals!Min(times) + 1)
<1> DEFINE s == Signals!InOrder(p)  times == {q.at : q \in Signals!Range(p)}
           low == Signals!Min(times)  high == Signals!Max(times)
<1>1. /\ Len(s) = n /\ s[1].at = low /\ s[n].at = high /\ low \in Int /\ high \in Int
  BY InOrderSpans
<1> HIDE DEF s, low, high
<1> DEFINE known == w # None /\ w.end > w.start
           span == IF known THEN w ELSE [start |-> s[1].at, end |-> s[Len(s)].at]
           length == span.end - span.start + 1
<1>2. n >= Signals!MinCurrentWindowPoints /\ n >= length \div 2
  BY Zenon, <1>1 DEF Signals!DataQuality, s
<1>3. length \in Int /\ length = IF Long(w) THEN w.end - w.start + 1 ELSE high - low + 1
  <2>1. known <=> Long(w) BY DEF Long
  <2>2. CASE known BY <2>1, <2>2
  <2>3. CASE ~ known
    <3>1. span.start = low /\ span.end = high BY <1>1, <2>3
    <3> QED BY <1>1, <2>1, <2>3, <3>1
  <2> QED BY <2>2, <2>3
<1> HIDE DEF length
<1>4. 2 * n >= length - 1 BY <1>2, <1>3
<1> QED BY <1>2, <1>3, <1>4 DEF Signals!Full, low, high

(* A verdict by comparison, or one of high confidence, is not taken back.  *)
LEMMA SignalJudged ==
  ASSUME NEW p, NEW b, NEW m, NEW w, p # <<>>,
         \/ Signals!Process(p, b, m, w).class \in Signals!DeltaBased
         \/ Signals!Process(p, b, m, w).confidence = "high"
  PROVE  b.reliable /\ Signals!DataQuality(Signals!InOrder(p), w).reliable
<1> DEFINE f == Signals!Features(p, b, m, w)
<1>1. f.baseline = b /\ f.quality = Signals!DataQuality(Signals!InOrder(p), w) BY DEF Signals!Features
<1>2. "insufficient_data" \notin Signals!DeltaBased BY DEF Signals!DeltaBased
<1>3. ASSUME NEW class, Signals!Downgrade(class, f) \in Signals!DeltaBased PROVE b.reliable /\ f.quality.reliable
  <2> HIDE DEF f
  <2> QED BY <1>1, <1>2, <1>3 DEF Signals!Downgrade
<1>4. Signals!DeriveConfidence(f) = "high" => b.reliable /\ f.quality.reliable
  <2> HIDE DEF f
  <2> QED BY <1>1 DEF Signals!DeriveConfidence
<1>5. Signals!Process(p, b, m, w) =
        [class |-> Signals!Downgrade(Signals!ClassifyCore(f, m, Signals!EffectiveThresholds(m)), f),
         confidence |-> Signals!DeriveConfidence(f)]
  BY DEF Signals!Process
<1> HIDE DEF f
<1> QED BY <1>1, <1>3, <1>4, <1>5

(* The decision tree, whatever the thresholds: a verdict that says things  *)
(* are well asks for a change that is not to the worse, or not significant.*)
LEMMA SignalClassified ==
  ASSUME NEW f, NEW m, NEW thr, f.points \in Nat, f.slo.count \in Nat
  PROVE  LET class == Signals!Downgrade(Signals!ClassifyCore(f, m, thr), f)
         IN /\ Signals!IsDegrading(f.delta, m.direction) /\ Signals!Abs(f.delta.n) >= thr.delta * f.delta.d =>
                 class \notin {"stable", "improvement"}
            /\ 2 * f.slo.count > f.points => class \notin {"recovery", "improvement"}
<1> DEFINE core == Signals!ClassifyCore(f, m, thr)  class == Signals!Downgrade(core, f)
           significant == Signals!Abs(f.delta.n) >= thr.delta * f.delta.d
           degrading == Signals!IsDegrading(f.delta, m.direction)
<1>1. class = core \/ class = "insufficient_data"
  <2> HIDE DEF core
  <2> QED BY DEF Signals!Downgrade
<1>2. degrading /\ significant => core \notin {"stable", "improvement"}
  <2> HIDE DEF degrading, significant
  <2> QED BY DEF Signals!ClassifyCore, degrading, significant
<1>3. f.slo.count * 100 < 20 * f.points => ~ (2 * f.slo.count > f.points) OBVIOUS
<1>4. core \in {"recovery", "improvement"} => f.slo.count * 100 < 20 * f.points
  BY DEF Signals!ClassifyCore
<1>5. /\ degrading /\ significant => class \notin {"stable", "improvement"}
      /\ 2 * f.slo.count > f.points => class \notin {"recovery", "improvement"}
  <2> HIDE DEF core, class
  <2> QED BY <1>1, <1>2, <1>3, <1>4
<1> QED BY <1>5


LEMMA SignalWorse ==
  ASSUME NEW n \in Nat \ {0}, NEW p, DOMAIN p = 1..n, n = Len(p), \A i \in 1..n : p[i].at \in Int,
         NEW b, NEW m, NEW w
  PROVE  LET f == Signals!Features(p, b, m, w)  class == Signals!Process(p, b, m, w).class
         IN /\ Signals!IsDegrading(f.delta, m.direction)
               /\ Signals!Abs(f.delta.n) >= Signals!EffectiveThresholds(m).delta * f.delta.d =>
                 class \notin {"stable", "improvement"}
            /\ 2 * f.slo.count > f.points => class \notin {"recovery", "improvement"}
<1> DEFINE s == Signals!InOrder(p)  values == [i \in DOMAIN s |-> s[i].value]
           f == Signals!Features(p, b, m, w)
<1>1. Len(s) = n /\ DOMAIN s = 1..n BY InOrderSpans DEF Signals!InOrder
<1>2. f.points \in Nat
  <2>1. f.points = Len(s) BY DEF Signals!Features
  <2> QED BY <1>1, <2>1
<1>3. f.slo.count \in Nat
  <2> DEFINE breached == {i \in DOMAIN values : m.slo # None /\ Signals!IsBreach(values[i], m.slo, m.direction)}
  <2>1. DOMAIN values = 1..n BY <1>1
  <2>2. breached \subseteq 1..n /\ IsFiniteSet(1..n)
    <3>1. breached \subseteq DOMAIN values OBVIOUS
    <3>2. 1 \in Int /\ n \in Int OBVIOUS
    <3>3. IsFiniteSet(1..n) BY <3>2, FS_Interval
    <3> HIDE DEF breached, values
    <3> QED BY <2>1, <3>1, <3>3
  <2>3. Cardinality(breached) \in Nat BY <2>2, FS_Subset, FS_CardinalityType
  <2>4. f.slo = Signals!SLOBreach(values, m) BY DEF Signals!Features
  <2>5. Signals!SLOBreach(values, m).count = Signals!Cardinality(breached) BY DEF Signals!SLOBreach
  <2> QED BY <2>3, <2>4, <2>5, SignalsSame
<1>4. p # <<>> BY <1>1
<1>5. Signals!Process(p, b, m, w).class = Signals!Downgrade(Signals!ClassifyCore(f, m, Signals!EffectiveThresholds(m)), f)
  BY <1>4 DEF Signals!Process
<1> HIDE DEF f
<1>6. LET class == Signals!Downgrade(Signals!ClassifyCore(f, m, Signals!EffectiveThresholds(m)), f)
      IN /\ Signals!IsDegrading(f.delta, m.direction)
            /\ Signals!Abs(f.delta.n) >= Signals!EffectiveThresholds(m).delta * f.delta.d =>
              class \notin {"stable", "improvement"}
         /\ 2 * f.slo.count > f.points => class \notin {"recovery", "improvement"}
  BY <1>2, <1>3, SignalClassified
<1> QED BY <1>5, <1>6 DEF f

(* What has been answered, and of which points.                            *)
SignalsInv ==
  /\ input \in SignalInputs
  /\ \/ answer = Signals!NoAnswer
     \/ /\ answer.tool = "judge"
        /\ answer.result = Signals!Process(input.points, Signals!BaselineStats(input.buckets, input.perBucket),
                                           input.meta, input.window)
     \/ /\ answer.tool = "compare" /\ input.buckets # <<>>
        /\ answer.result.b = Signals!Process(input.points, Signals!BaselineStats(<<input.buckets[1]>>, input.perBucket),
                                             input.meta, input.window)

LEMMA SignalsStep == ASSUME SignalsInv, [Signals!Next]_(Signals!vars) PROVE SignalsInv'
<1>1. CASE UNCHANGED Signals!vars BY <1>1 DEF Signals!vars, SignalsInv
<1>2. CASE Signals!Judge
  <2> DEFINE result == Signals!Process(input.points, Signals!BaselineStats(input.buckets, input.perBucket), input.meta, input.window)
  <2>1. answer' = [tool |-> "judge", result |-> result] /\ UNCHANGED input BY <1>2 DEF Signals!Judge, Signals!Reply
  <2> HIDE DEF result
  <2>2. answer'.tool = "judge" /\ answer'.result = result BY <2>1
  <2>3. (answer.result = result)' BY <2>1, <2>2 DEF result
  <2> QED BY <2>1, <2>2, <2>3 DEF SignalsInv, result
<1>3. CASE Signals!Compare
  <2> DEFINE b == Signals!Process(input.points, Signals!BaselineStats(<<input.buckets[1]>>, input.perBucket), input.meta, input.window)
  <2>1. /\ input.buckets # <<>> /\ UNCHANGED input
        /\ \E a, shift : answer' = [tool |-> "compare", result |-> [a |-> a, b |-> b, shift |-> shift]]
    BY Zenon, <1>3 DEF Signals!Compare, Signals!Reply
  <2> HIDE DEF b
  <2>2. answer'.tool = "compare" /\ answer'.result.b = b BY <2>1
  <2> QED BY <2>1, <2>2 DEF SignalsInv, b
<1>4. CASE Signals!Again BY <1>4 DEF Signals!Again, SignalsInv
<1> QED BY <1>1, <1>2, <1>3, <1>4 DEF Signals!Next

LEMMA SignalsAreSound == ASSUME Signals!SignalConstants, SignalsInv PROVE Signals!VerdictsSound
<1> SUFFICES ASSUME answer # Signals!NoAnswer, input.points # <<>>
             PROVE  Signals!Supported /\ Signals!NeverHealthy
  BY DEF Signals!VerdictsSound
<1> DEFINE p == input.points  w == input.window  m == input.meta  n == Len(p)
           b == IF answer.tool = "judge" THEN input.buckets ELSE <<input.buckets[1]>>
           base == Signals!BaselineStats(b, input.perBucket)
           said == IF answer.tool = "judge" THEN answer.result ELSE answer.result.b
           verdict == Signals!Process(p, base, m, w)
<1>1. /\ p \in Seq({p[k] : k \in DOMAIN p}) /\ \A i \in DOMAIN p : p[i].at \in Int
      /\ w # None => w.start \in Int /\ w.end \in Int
      /\ input.buckets \in Seq({input.buckets[k] : k \in DOMAIN input.buckets}) /\ input.perBucket \in Nat
      /\ \A i \in DOMAIN input.buckets : IsFiniteSet(DOMAIN input.buckets[i])
  BY SignalsSame DEF Signals!SignalConstants, SignalsInv
<1>2. n \in Nat \ {0} /\ DOMAIN p = 1..n BY <1>1
<1>3. Signals!Base = base /\ Signals!Class = said.class BY DEF Signals!Base, Signals!Class
<1>4. said = verdict /\ (answer.tool = "judge" \/ input.buckets # <<>>) BY DEF SignalsInv
<1>5. Len(b) \in Nat /\ IsFiniteSet(DOMAIN b) /\ \A i \in DOMAIN b : IsFiniteSet(DOMAIN b[i])
  <2>1. CASE answer.tool = "judge"
    <3>1. Len(input.buckets) \in Nat /\ DOMAIN input.buckets = 1..Len(input.buckets) BY <1>1
    <3>2. IsFiniteSet(DOMAIN input.buckets) BY <3>1, FS_Interval
    <3> QED BY Zenon, <1>1, <2>1, <3>1, <3>2
  <2>2. CASE answer.tool # "judge"
    <3>1. b = <<input.buckets[1]>> /\ Len(b) = 1 /\ DOMAIN b = {1} /\ b[1] = input.buckets[1] BY <2>2
    <3>2. 1 \in DOMAIN input.buckets BY <1>1, <1>4, <2>2
    <3>3. IsFiniteSet(DOMAIN b) BY Zenon, <3>1, FS_Singleton
    <3> QED BY <1>1, <3>1, <3>2, <3>3
  <2> QED BY <2>1, <2>2
<1> HIDE DEF base, b, p
<1>6. Signals!Supported
  <2> SUFFICES ASSUME said.class \in Signals!DeltaBased \/ (answer.tool = "judge" /\ answer.result.confidence = "high")
               PROVE  LET times == {q.at : q \in Signals!Range(p)}
                      IN /\ Signals!Full(n, IF ~ Long(w) THEN Signals!Max(times) - Signals!Min(times) + 1 ELSE w.end - w.start + 1)
                         /\ answer.tool = "judge" => Signals!Full(base.count, input.perBucket * Len(input.buckets))
                         /\ n >= Signals!MinCurrentWindowPoints /\ base.count >= Signals!MinBaselinePoints
    BY <1>3 DEF Signals!Supported, p, Long
  <2>1. verdict.class \in Signals!DeltaBased \/ verdict.confidence = "high" BY <1>4
  <2>2. p # <<>> BY DEF p
  <2>3. base.reliable /\ Signals!DataQuality(Signals!InOrder(p), w).reliable BY <2>1, <2>2, SignalJudged
  <2>4. base.count >= Signals!MinBaselinePoints /\ Signals!Full(base.count, input.perBucket * Len(b))
    BY <1>1, <1>5, <2>3, SignalBase DEF base
  <2>5. LET times == {q.at : q \in Signals!Range(p)}
        IN /\ n >= Signals!MinCurrentWindowPoints
           /\ Signals!Full(n, IF Long(w) THEN w.end - w.start + 1 ELSE Signals!Max(times) - Signals!Min(times) + 1)
    BY <1>1, <1>2, <2>3, SignalQuality
  <2>6. answer.tool = "judge" => b = input.buckets BY DEF b
  <2> QED BY <2>4, <2>5, <2>6
<1>7. Signals!NeverHealthy
  <2>1. LET f == Signals!Features(p, base, m, w)
        IN /\ Signals!IsDegrading(f.delta, m.direction)
              /\ Signals!Abs(f.delta.n) >= Signals!EffectiveThresholds(m).delta * f.delta.d =>
                verdict.class \notin {"stable", "improvement"}
           /\ 2 * f.slo.count > f.points => verdict.class \notin {"recovery", "improvement"}
    BY <1>1, <1>2, SignalWorse
  <2>2. Signals!F = Signals!Features(p, base, m, w) BY <1>3 DEF Signals!F, p
  <2> HIDE DEF m
  <2> QED BY <1>3, <1>4, <2>1, <2>2 DEF Signals!NeverHealthy, m
<1> QED BY <1>6, <1>7

-----------------------------------------------------------------------------
(* Series.  The decoded points of one; and, of a list f of decoded series, *)
(* what the property says of the groups at a bucket.                       *)
Numbers(p) == {p[k] : k \in {k \in DOMAIN p : p[k].type = "number"}}
Decoded(p) == [at \in {q.at : q \in Numbers(p)} |-> (CHOOSE q \in Numbers(p) : q.at = at).value]

Buckets(f) == UNION {DOMAIN f[i] : i \in DOMAIN f}
Before(f, i, at) == {b \in Buckets(f) : b <= at /\ b \in DOMAIN f[i]}
LastOf(f, i, at) == Series!Max(Before(f, i, at))
SilentFor(f, i, at) == Cardinality({b \in Buckets(f) : LastOf(f, i, at) < b /\ b <= at})
StartedAt(f, at) == {i \in DOMAIN f : Before(f, i, at) # {}}
DepartedAt(f, at) == {i \in StartedAt(f, at) : SilentFor(f, i, at) > MaxCarryForwardBuckets}
CountedAt(f, at) == StartedAt(f, at) \ DepartedAt(f, at)
CarriedAt(f, at) == {i \in CountedAt(f, at) : SilentFor(f, i, at) > 0}
FoldedAt(f, at, across) ==
  Series!ApplyReducer([i \in CountedAt(f, at) |-> f[i][LastOf(f, i, at)]], across)
GoodAt(f, at, across) == CountedAt(f, at) # {} /\ Series!Finite(FoldedAt(f, at, across))
LostAt(f, at, across) == CountedAt(f, at) # {} /\ ~ Series!Finite(FoldedAt(f, at, across))

(* A list of decoded series: finitely many, each with finitely many points.*)
Groups(f) ==
  /\ IsFiniteSet(DOMAIN f)
  /\ \A i \in DOMAIN f : IsFiniteSet(DOMAIN f[i]) /\ DOMAIN f[i] \subseteq Int

(* The fold is done with the buckets in done: m is the last one of group i *)
(* among them; each group that has started is carried with its last point, *)
(* and its streak tells how many buckets have passed since.                *)
LastDone(f, done, i, m) == m \in done \intersect DOMAIN f[i] /\ \A b \in done \intersect DOMAIN f[i] : b <= m
StreakOf(n) == IF n <= MaxCarryForwardBuckets THEN n ELSE MaxCarryForwardBuckets
Carrying(f, done, carried, streak) ==
  /\ DOMAIN streak = DOMAIN f
  /\ DOMAIN carried = {i \in DOMAIN f : done \intersect DOMAIN f[i] # {}}
  /\ \A i \in DOMAIN carried : \E m \in done :
       /\ LastDone(f, done, i, m)
       /\ carried[i] = f[i][m]
       /\ streak[i] = StreakOf(Cardinality({b \in done : m < b}))

(* The next bucket.                                                        *)
NextBucket(f, left, at) ==
  /\ left \subseteq Buckets(f) /\ at \in left /\ \A b \in left : at <= b
  /\ \A a \in Buckets(f) \ left : a < at

LEMMA FiniteImage ==
  ASSUME NEW D, IsFiniteSet(D), NEW g, DOMAIN g = D, NEW T, T = {g[x] : x \in D}
  PROVE  IsFiniteSet(T)
<1> DEFINE h == [x \in D |-> g[x]]
<1>1. h \in Surjection(D, T) BY Zenon DEF Surjection
<1> HIDE DEF h
<1> QED BY <1>1, FS_Surjection

LEMMA GreatestIs ==
  ASSUME NEW S, NEW m \in S, S \subseteq Int, \A x \in S : x <= m
  PROVE  Series!Max(S) = m
<1>1. \A x \in S : (\A y \in S : x >= y) => x = m OBVIOUS
<1>2. \A y \in S : m >= y OBVIOUS
<1> QED BY <1>1, <1>2 DEF Series!Max

LEMMA BucketsAreFinite ==
  ASSUME NEW f, Groups(f)
  PROVE  IsFiniteSet(Buckets(f)) /\ Buckets(f) \subseteq Int
<1> DEFINE D == DOMAIN f  g == [i \in D |-> DOMAIN f[i]]  T == {g[i] : i \in D}
<1>1. IsFiniteSet(D) /\ (\A U \in T : IsFiniteSet(U)) /\ Buckets(f) = UNION T /\ DOMAIN g = D
  BY DEF Groups, Buckets
<1>2. Buckets(f) \subseteq Int BY DEF Groups, Buckets
<1>3. IsFiniteSet(T)
  <2> HIDE DEF D, g
  <2> QED BY <1>1, FiniteImage
<1> HIDE DEF T
<1> QED BY <1>1, <1>2, <1>3, FS_UNION

(* What GroupNext says of a group, with done the buckets up to at.         *)
GroupAt(f, done, at, carried, streak, i) ==
  /\ i \in StartedAt(f, at) <=> at \in DOMAIN f[i] \/ i \in DOMAIN carried
  /\ at \in DOMAIN f[i] =>
       /\ LastOf(f, i, at) = at /\ SilentFor(f, i, at) = 0
       /\ LastDone(f, done, i, at)
       /\ Cardinality({b \in done : at < b}) = 0
  /\ at \notin DOMAIN f[i] /\ i \in DOMAIN carried =>
       /\ carried[i] = f[i][LastOf(f, i, at)] /\ SilentFor(f, i, at) \in Nat \ {0}
       /\ streak[i] = StreakOf(SilentFor(f, i, at) - 1)
       /\ LastDone(f, done, i, LastOf(f, i, at))
       /\ Cardinality({b \in done : LastOf(f, i, at) < b}) = SilentFor(f, i, at)

(* A streak says how long a group has been silent.                         *)
LEMMA GroupNext ==
  ASSUME NEW f, Groups(f), MaxCarryForwardBuckets \in Nat,
         NEW left, NEW at, NextBucket(f, left, at),
         NEW carried, NEW streak, Carrying(f, Buckets(f) \ left, carried, streak),
         NEW i \in DOMAIN f
  PROVE  GroupAt(f, (Buckets(f) \ left) \union {at}, at, carried, streak, i)
<1> DEFINE B == Buckets(f)  done == B \ left  D == DOMAIN f[i]
<1>1. /\ IsFiniteSet(B) /\ B \subseteq Int /\ D \subseteq B /\ at \in Int /\ at \in B /\ at \notin done
      /\ \A b \in B : b <= at <=> b \in done \union {at}
      /\ \A b \in done : b < at /\ b \in Int
  <2>1. IsFiniteSet(B) /\ B \subseteq Int /\ D \subseteq B BY BucketsAreFinite DEF Buckets
  <2> HIDE DEF D
  <2> QED BY <2>1 DEF NextBucket
<1>2. Before(f, i, at) = (done \union {at}) \intersect D
  <2> HIDE DEF done
  <2> QED BY <1>1 DEF Before
<1>3. i \in DOMAIN carried <=> done \intersect D # {} BY DEF Carrying
<1>4. i \in StartedAt(f, at) <=> at \in D \/ i \in DOMAIN carried
  <2> HIDE DEF D, done
  <2> QED BY <1>2, <1>3 DEF StartedAt
<1>5. ASSUME at \in D
      PROVE  /\ LastOf(f, i, at) = at /\ SilentFor(f, i, at) = 0 /\ LastDone(f, done \union {at}, i, at)
             /\ Cardinality({b \in done \union {at} : at < b}) = 0
  <2>1. LastDone(f, done \union {at}, i, at) BY <1>1, <1>5 DEF LastDone
  <2>2. LastOf(f, i, at) = at
    <3> HIDE DEF done, D
    <3>1. at \in Before(f, i, at) /\ Before(f, i, at) \subseteq Int /\ \A x \in Before(f, i, at) : x <= at
      BY <1>1, <1>2, <1>5
    <3> QED BY <3>1, GreatestIs DEF LastOf
  <2>3. {b \in Buckets(f) : LastOf(f, i, at) < b /\ b <= at} = {} BY <1>1, <2>2
  <2>4. {b \in done \union {at} : at < b} = {} BY <1>1
  <2> QED BY <2>1, <2>2, <2>3, <2>4, FS_EmptySet DEF SilentFor
<1>6. ASSUME at \notin D, i \in DOMAIN carried
      PROVE  /\ carried[i] = f[i][LastOf(f, i, at)] /\ SilentFor(f, i, at) \in Nat \ {0}
             /\ streak[i] = StreakOf(SilentFor(f, i, at) - 1)
             /\ LastDone(f, done \union {at}, i, LastOf(f, i, at))
             /\ Cardinality({b \in done \union {at} : LastOf(f, i, at) < b}) = SilentFor(f, i, at)
  <2>1. PICK m \in done : /\ LastDone(f, done, i, m) /\ carried[i] = f[i][m]
                          /\ streak[i] = StreakOf(Cardinality({b \in done : m < b}))
    BY <1>6 DEF Carrying
  <2> DEFINE S == {b \in done : m < b}  T == {b \in done \union {at} : m < b}
  <2>2. /\ m \in Int /\ m < at /\ m \in D /\ (\A b \in done \intersect D : b <= m)
        /\ LastDone(f, done \union {at}, i, m)
    BY <1>1, <1>6, <2>1 DEF LastDone
  <2>3. LastOf(f, i, at) = m
    <3> HIDE DEF done, D
    <3>1. m \in Before(f, i, at) /\ Before(f, i, at) \subseteq Int /\ \A x \in Before(f, i, at) : x <= m
      BY <1>1, <1>2, <1>6, <2>1, <2>2
    <3> QED BY <3>1, GreatestIs DEF LastOf
  <2>4. T = S \union {at} /\ at \notin S /\ S \subseteq B /\ T = {b \in Buckets(f) : m < b /\ b <= at}
    <3> HIDE DEF done
    <3>1. done \subseteq B BY DEF done
    <3> QED BY <1>1, <2>2, <3>1
  <2> HIDE DEF S, T
  <2>5. IsFiniteSet(S) BY <1>1, <2>4, FS_Subset
  <2>6. Cardinality(S) \in Nat /\ Cardinality(T) = Cardinality(S) + 1 BY <2>4, <2>5, FS_AddElement, FS_CardinalityType
  <2>7. SilentFor(f, i, at) = Cardinality(T) BY <2>3, <2>4 DEF SilentFor
  <2>8. Cardinality(T) - 1 = Cardinality(S) BY <2>6
  <2> QED BY <2>1, <2>2, <2>3, <2>6, <2>7, <2>8 DEF S, T
<1> QED BY <1>4, <1>5, <1>6 DEF GroupAt

SetsAt(started, n, fresh, silent, gone, streak) ==
  /\ {i \in started : n[i] > MaxCarryForwardBuckets} = gone
  /\ started \ gone = fresh \union (silent \ gone)
  /\ {i \in started \ gone : n[i] > 0} = silent \ gone
  /\ \A i \in silent : /\ i \in gone => streak[i] = StreakOf(n[i])
                       /\ i \notin gone => streak[i] + 1 = StreakOf(n[i])

LEMMA BucketSets ==
  ASSUME MaxCarryForwardBuckets \in Nat, NEW D, NEW known, NEW fresh, NEW started, NEW n, NEW streak,
         known \subseteq D, fresh \subseteq D, started \subseteq D,
         \A i \in D : i \in started <=> i \in fresh \/ i \in known,
         \A i \in fresh : n[i] = 0,
         \A i \in known \ fresh : n[i] \in Nat \ {0} /\ streak[i] = StreakOf(n[i] - 1),
         NEW silent, silent = known \ fresh,
         NEW gone, gone = {i \in silent : streak[i] >= MaxCarryForwardBuckets}
  PROVE  SetsAt(started, n, fresh, silent, gone, streak)
<1>1. ASSUME NEW i \in silent
      PROVE  /\ n[i] > 0
             /\ i \in gone <=> n[i] > MaxCarryForwardBuckets
             /\ i \in gone => streak[i] = StreakOf(n[i])
             /\ i \notin gone => streak[i] + 1 = StreakOf(n[i])
  <2>1. n[i] \in Nat \ {0} /\ streak[i] = StreakOf(n[i] - 1) /\ (i \in gone <=> streak[i] >= MaxCarryForwardBuckets) OBVIOUS
  <2>2. /\ StreakOf(n[i] - 1) = (IF n[i] - 1 <= MaxCarryForwardBuckets THEN n[i] - 1 ELSE MaxCarryForwardBuckets)
        /\ StreakOf(n[i]) = (IF n[i] <= MaxCarryForwardBuckets THEN n[i] ELSE MaxCarryForwardBuckets)
    BY DEF StreakOf
  <2> QED BY <2>1, <2>2
<1>2. started = fresh \union silent OBVIOUS
<1>3. \A i \in fresh : ~ (n[i] > MaxCarryForwardBuckets) /\ ~ (n[i] > 0) /\ i \notin silent OBVIOUS
<1>4. gone \subseteq silent OBVIOUS
<1> QED BY <1>1, <1>2, <1>3, <1>4 DEF SetsAt

FoldedGroups(f, left, at, carried, streak) ==
  LET fresh == {i \in DOMAIN f : at \in DOMAIN f[i]}
      silent == DOMAIN carried \ fresh
      gone == {i \in silent : streak[i] >= MaxCarryForwardBuckets}
      present == fresh \union (silent \ gone)
      next == [i \in DOMAIN carried \union fresh |-> IF i \in fresh THEN f[i][at] ELSE carried[i]]
  IN /\ DepartedAt(f, at) = gone /\ CountedAt(f, at) = present /\ CarriedAt(f, at) = silent \ gone
     /\ [i \in present |-> next[i]] = [i \in CountedAt(f, at) |-> f[i][LastOf(f, i, at)]]
     /\ Carrying(f, Buckets(f) \ (left \ {at}), next, Series!Streaks(streak, fresh, present))

LEMMA FoldedNext ==
  ASSUME NEW f, Groups(f), MaxCarryForwardBuckets \in Nat,
         NEW left, NEW at, NextBucket(f, left, at),
         NEW carried, NEW streak, Carrying(f, Buckets(f) \ left, carried, streak)
  PROVE  FoldedGroups(f, left, at, carried, streak)
<1>a. PICK fresh : fresh = {i \in DOMAIN f : at \in DOMAIN f[i]} OBVIOUS
<1>b. PICK silent : silent = DOMAIN carried \ fresh OBVIOUS
<1>c. PICK gone : gone = {i \in silent : streak[i] >= MaxCarryForwardBuckets} OBVIOUS
<1>d. PICK present : present = fresh \union (silent \ gone) OBVIOUS
<1>e. PICK next : next = [i \in DOMAIN carried \union fresh |-> IF i \in fresh THEN f[i][at] ELSE carried[i]]
  OBVIOUS
<1> USE <1>a, <1>b, <1>c, <1>d, <1>e
<1> DEFINE done == (Buckets(f) \ left) \union {at}
           n(i) == SilentFor(f, i, at)
           m(i) == LastOf(f, i, at)
           after == Series!Streaks(streak, fresh, present)
<1>1. DOMAIN carried \subseteq DOMAIN f /\ DOMAIN streak = DOMAIN f BY DEF Carrying
<1>0. \A i \in DOMAIN f : GroupAt(f, done, at, carried, streak, i) BY GroupNext
<1>2. \A i \in DOMAIN f :
        /\ i \in StartedAt(f, at) <=> at \in DOMAIN f[i] \/ i \in DOMAIN carried
        /\ at \in DOMAIN f[i] =>
             /\ m(i) = at /\ n(i) = 0 /\ LastDone(f, done, i, at)
             /\ Cardinality({b \in done : at < b}) = 0
        /\ at \notin DOMAIN f[i] /\ i \in DOMAIN carried =>
             /\ carried[i] = f[i][m(i)] /\ n(i) \in Nat \ {0}
             /\ streak[i] = StreakOf(n(i) - 1)
             /\ LastDone(f, done, i, m(i))
             /\ Cardinality({b \in done : m(i) < b}) = n(i)
  BY ONLY Zenon, <1>0 DEF GroupAt
<1>3. DepartedAt(f, at) = {i \in StartedAt(f, at) : n(i) > MaxCarryForwardBuckets} BY DEF DepartedAt
<1>4. CountedAt(f, at) = StartedAt(f, at) \ DepartedAt(f, at) /\ CarriedAt(f, at) = {i \in CountedAt(f, at) : n(i) > 0}
  BY DEF CountedAt, CarriedAt
<1>5. StartedAt(f, at) \subseteq DOMAIN f BY DEF StartedAt
<1> DEFINE k == [i \in DOMAIN f |-> n(i)]
<1>6. \A i \in DOMAIN f : k[i] = n(i) OBVIOUS
<1> HIDE DEF n, m, k, done, after
<1>7. /\ fresh \subseteq DOMAIN f /\ silent \subseteq DOMAIN f /\ fresh \intersect silent = {}
      /\ \A i \in fresh : k[i] = 0
      /\ \A i \in DOMAIN carried \ fresh : k[i] \in Nat \ {0} /\ streak[i] = StreakOf(k[i] - 1)
      /\ \A i \in DOMAIN f : i \in StartedAt(f, at) <=> i \in fresh \/ i \in DOMAIN carried
  BY <1>1, <1>2, <1>6
<1>8. SetsAt(StartedAt(f, at), k, fresh, silent, gone, streak)
  BY <1>1, <1>5, <1>7, BucketSets
<1>9. DepartedAt(f, at) = gone /\ CountedAt(f, at) = present /\ CarriedAt(f, at) = silent \ gone
  BY <1>3, <1>4, <1>5, <1>6, <1>8 DEF SetsAt
<1>10. [i \in present |-> next[i]] = [i \in CountedAt(f, at) |-> f[i][LastOf(f, i, at)]]
  <2>1. ASSUME NEW i \in present PROVE next[i] = f[i][m(i)]
    <3>1. CASE i \in fresh BY <1>1, <1>2, <3>1
    <3>2. CASE i \in silent BY <1>1, <1>2, <1>7, <3>2
    <3> QED BY <3>1, <3>2
  <2> QED BY <1>9, <2>1 DEF m
<1>11. DOMAIN after = DOMAIN f /\ DOMAIN next = {i \in DOMAIN f : done \intersect DOMAIN f[i] # {}}
  <2>1. DOMAIN after = DOMAIN f BY <1>1 DEF after, Series!Streaks
  <2>2. DOMAIN carried = {i \in DOMAIN f : (Buckets(f) \ left) \intersect DOMAIN f[i] # {}} BY DEF Carrying
  <2>3. DOMAIN next = DOMAIN carried \union fresh OBVIOUS
  <2> QED BY <2>1, <2>2, <2>3 DEF done
<1>12. ASSUME NEW i \in DOMAIN next
       PROVE  \E x \in done : LastDone(f, done, i, x) /\ next[i] = f[i][x]
                              /\ after[i] = StreakOf(Cardinality({b \in done : x < b}))
  <2>1. CASE i \in fresh
    <3>1. after[i] = 0 BY <1>1, <1>7, <2>1 DEF after, Series!Streaks
    <3>2. StreakOf(0) = 0 BY DEF StreakOf
    <3>3. next[i] = f[i][at] /\ i \in DOMAIN f /\ at \in DOMAIN f[i] BY <2>1
    <3>4. LastDone(f, done, i, at) /\ Cardinality({b \in done : at < b}) = 0 BY <1>2, <3>3
    <3>5. at \in done BY <3>4 DEF LastDone
    <3> QED BY <3>1, <3>2, <3>3, <3>4, <3>5
  <2>2. CASE i \in silent
    <3>1. i \notin fresh /\ i \in DOMAIN f /\ i \in DOMAIN carried /\ at \notin DOMAIN f[i] BY <1>7, <2>2
    <3>2. /\ carried[i] = f[i][m(i)] /\ n(i) \in Nat \ {0}
          /\ LastDone(f, done, i, m(i)) /\ Cardinality({b \in done : m(i) < b}) = n(i)
      BY <1>2, <3>1
    <3>3. after[i] = StreakOf(n(i))
      <4>1. CASE i \in gone
        <5>1. i \notin present BY <3>1, <4>1
        <5>2. after[i] = streak[i] BY <1>1, <3>1, <5>1 DEF after, Series!Streaks
        <5> QED BY <1>6, <1>8, <2>2, <3>1, <4>1, <5>2 DEF SetsAt
      <4>2. CASE i \notin gone
        <5>1. i \in present \ fresh BY <2>2, <3>1, <4>2
        <5>2. after[i] = streak[i] + 1 BY <1>1, <3>1, <5>1 DEF after, Series!Streaks
        <5> QED BY <1>6, <1>8, <2>2, <3>1, <4>2, <5>2 DEF SetsAt
      <4> QED BY <4>1, <4>2
    <3>4. next[i] = carried[i] /\ m(i) \in done
      BY <2>2, <3>1, <3>2 DEF LastDone
    <3> QED BY <3>2, <3>3, <3>4
  <2>3. i \in fresh \/ i \in silent OBVIOUS
  <2> QED BY <2>1, <2>2, <2>3
<1>13. done = Buckets(f) \ (left \ {at}) BY DEF NextBucket, done
<1>14. Carrying(f, done, next, after) BY <1>11, <1>12 DEF Carrying
<1> QED BY <1>9, <1>10, <1>13, <1>14 DEF after, FoldedGroups

-----------------------------------------------------------------------------
(* The series of an answer of the API that are kept, decoded.              *)
KeptN(inp) == IF Len(inp.series) <= MaxTimeSeries THEN Len(inp.series) ELSE MaxTimeSeries
KeptOf(inp) == [i \in 1..KeptN(inp) |-> Decoded(inp.series[i])]

OfType(p, type) == {k \in DOMAIN p : p[k].type = type}
PairsOf(inp, i, type) == {<<i, k>> : k \in OfType(inp.series[i], type)}
Pairs(inp, n, type) == UNION {PairsOf(inp, i, type) : i \in 1..n}

LEMMA SeriesCardinality == \A S : Series!Cardinality(S) = Cardinality(S)
BY DEF Cardinality, Series!Cardinality

LEMMA SeriesInputFacts ==
  ASSUME Series!SeriesConstants, NEW inp \in SeriesInputs
  PROVE  /\ Len(inp.series) \in Nat /\ DOMAIN inp.series = 1..Len(inp.series)
         /\ \A i \in 1..Len(inp.series) : inp.series[i] \in Seq([at : Int, type : STRING, value : Int])
         /\ KeptN(inp) \in 0..Len(inp.series) /\ KeptN(inp) <= MaxTimeSeries
         /\ MaxTimeSeries \in Nat \ {0} /\ MaxCarryForwardBuckets \in Nat
         /\ inp.metric.kind \in {"GAUGE", "DELTA", "CUMULATIVE"}
<1> DEFINE s == inp.series  P == Seq([at : Int, type : STRING, value : Int])
<1>1. /\ s \in Seq(P) /\ MaxTimeSeries \in Nat \ {0} /\ MaxCarryForwardBuckets \in Nat
      /\ inp.metric.kind \in {"GAUGE", "DELTA", "CUMULATIVE"}
  BY DEF Series!SeriesConstants
<1> HIDE DEF P
<1>2. Len(s) \in Nat /\ DOMAIN s = 1..Len(s) /\ \A i \in 1..Len(s) : s[i] \in P BY <1>1
<1> HIDE DEF s
<1>3. KeptN(inp) = IF Len(s) <= MaxTimeSeries THEN Len(s) ELSE MaxTimeSeries BY DEF KeptN, s
<1>4. KeptN(inp) \in 0..Len(s) /\ KeptN(inp) <= MaxTimeSeries BY <1>1, <1>2, <1>3
<1> QED BY <1>1, <1>2, <1>4 DEF s, P

LEMMA DecodedFacts ==
  ASSUME NEW p \in Seq([at : Int, type : STRING, value : Int])
  PROVE  /\ IsFiniteSet(DOMAIN Decoded(p)) /\ DOMAIN Decoded(p) \subseteq Int
         /\ DOMAIN Decoded(p) = {q.at : q \in Numbers(p)}
         /\ \A type : IsFiniteSet(OfType(p, type))
<1> DEFINE P == [at : Int, type : STRING, value : Int]
<1>1. Len(p) \in Nat /\ DOMAIN p = 1..Len(p) /\ \A k \in DOMAIN p : p[k].at \in Int
  <2>1. \A q \in P : q.at \in Int OBVIOUS
  <2> HIDE DEF P
  <2>2. p \in Seq(P) BY DEF P
  <2>3. Len(p) \in Nat /\ DOMAIN p = 1..Len(p) /\ \A k \in DOMAIN p : p[k] \in P BY <2>2
  <2> QED BY <2>1, <2>3
<1>2. IsFiniteSet(DOMAIN p) BY <1>1, FS_Interval
<1>3. \A type : IsFiniteSet(OfType(p, type)) BY <1>2, FS_Subset DEF OfType
<1> DEFINE D == {k \in DOMAIN p : p[k].type = "number"}  g == [k \in D |-> p[k].at]  T == {g[k] : k \in D}
<1>4. IsFiniteSet(D) BY <1>2, FS_Subset
<1>5. DOMAIN Decoded(p) = {q.at : q \in Numbers(p)} BY DEF Decoded
<1>6. {q.at : q \in Numbers(p)} = T BY DEF Numbers
<1>7. T \subseteq Int BY <1>1
<1>8. DOMAIN g = D OBVIOUS
<1>9. IsFiniteSet(T)
  <2> HIDE DEF D, g
  <2> QED BY <1>4, <1>8, FiniteImage
<1> HIDE DEF T
<1> QED BY <1>3, <1>5, <1>6, <1>7, <1>9

LEMMA KeptGroups ==
  ASSUME Series!SeriesConstants, NEW inp \in SeriesInputs
  PROVE  /\ Groups(KeptOf(inp)) /\ DOMAIN KeptOf(inp) = 1..KeptN(inp)
         /\ \A i \in 1..KeptN(inp) : KeptOf(inp)[i] = Decoded(inp.series[i])
<1>1. KeptN(inp) \in Nat /\ \A i \in 1..KeptN(inp) : inp.series[i] \in Seq([at : Int, type : STRING, value : Int])
  BY SeriesInputFacts
<1>2. DOMAIN KeptOf(inp) = 1..KeptN(inp) /\ \A i \in 1..KeptN(inp) : KeptOf(inp)[i] = Decoded(inp.series[i]) BY DEF KeptOf
<1>3. IsFiniteSet(1..KeptN(inp)) BY <1>1, FS_Interval
<1>4. ASSUME NEW i \in 1..KeptN(inp) PROVE IsFiniteSet(DOMAIN Decoded(inp.series[i])) /\ DOMAIN Decoded(inp.series[i]) \subseteq Int
  BY <1>1, DecodedFacts
<1> QED BY <1>2, <1>3, <1>4 DEF Groups

(* Counting the dropped points of one more series.                         *)
LEMMA PairsNext ==
  ASSUME Series!SeriesConstants, NEW inp \in SeriesInputs, NEW n \in Nat, n < Len(inp.series), NEW type
  PROVE  /\ Pairs(inp, 0, type) = {}
         /\ Cardinality(Pairs(inp, n, type)) \in Nat
         /\ Cardinality(Pairs(inp, n + 1, type))
              = Cardinality(Pairs(inp, n, type)) + Series!Count(inp.series[n + 1], type)
<1>1. ASSUME NEW i \in 1..(n + 1)
      PROVE  /\ IsFiniteSet(PairsOf(inp, i, type))
             /\ Cardinality(PairsOf(inp, i, type)) = Cardinality(OfType(inp.series[i], type))
  <2> DEFINE K == OfType(inp.series[i], type)  G == PairsOf(inp, i, type)  h == [k \in K |-> <<i, k>>]
  <2>1. IsFiniteSet(K)
    <3>1. i \in 1..Len(inp.series) BY SeriesInputFacts
    <3>2. inp.series[i] \in Seq([at : Int, type : STRING, value : Int]) BY <3>1, SeriesInputFacts
    <3> QED BY <3>2, DecodedFacts
  <2>2. G = {<<i, k>> : k \in K} BY DEF PairsOf
  <2> HIDE DEF G, K
  <2>3. DOMAIN h = K /\ \A k \in K : h[k] = <<i, k>> OBVIOUS
  <2>4. h \in [K -> G] BY <2>2
  <2>5. \A a, b \in K : h[a] = h[b] => a = b BY <2>3
  <2>6. \A t \in G : \E k \in K : h[k] = t BY <2>2, <2>3
  <2> HIDE DEF h
  <2>7. h \in Bijection(K, G) BY <2>4, <2>5, <2>6 DEF Bijection, Injection, Surjection, IsInjective
  <2>8. ExistsBijection(K, G) BY <2>7 DEF ExistsBijection
  <2> QED BY <2>1, <2>8, FS_Bijection DEF G, K
<1>2. /\ Pairs(inp, n, type) = UNION {PairsOf(inp, i, type) : i \in 1..n}
      /\ Pairs(inp, n + 1, type) = Pairs(inp, n, type) \union PairsOf(inp, n + 1, type)
  <2>1. 1..(n + 1) = 1..n \union {n + 1} OBVIOUS
  <2> QED BY ONLY Zenon, <2>1 DEF Pairs
<1>3. IsFiniteSet(Pairs(inp, n, type))
  <2> DEFINE e == [i \in 1..n |-> PairsOf(inp, i, type)]  U == {e[i] : i \in 1..n}
  <2>1. IsFiniteSet(1..n) BY FS_Interval
  <2>2. DOMAIN e = 1..n /\ U = {PairsOf(inp, i, type) : i \in 1..n} OBVIOUS
  <2>3. IsFiniteSet(U)
    <3> HIDE DEF e
    <3> QED BY <2>1, <2>2, FiniteImage
  <2>4. \A V \in U : IsFiniteSet(V) BY <1>1
  <2> HIDE DEF U
  <2> QED BY <1>2, <2>2, <2>3, <2>4, FS_UNION
<1>4. Pairs(inp, n, type) \intersect PairsOf(inp, n + 1, type) = {}
  <2>1. n + 1 \notin 1..n OBVIOUS
  <2>2. ASSUME NEW x \in Pairs(inp, n, type) PROVE x[1] \in 1..n
    <3>1. PICK i \in 1..n : x \in PairsOf(inp, i, type) BY <2>2 DEF Pairs
    <3> QED BY <3>1 DEF PairsOf
  <2>3. \A x \in PairsOf(inp, n + 1, type) : x[1] = n + 1 BY DEF PairsOf
  <2> QED BY <2>1, <2>2, <2>3
<1>5. Series!Count(inp.series[n + 1], type) = Cardinality(OfType(inp.series[n + 1], type))
  BY SeriesCardinality DEF Series!Count, OfType
<1>6. Pairs(inp, 0, type) = {} BY DEF Pairs
<1> DEFINE A == Pairs(inp, n, type)  B == PairsOf(inp, n + 1, type)
<1>7. IsFiniteSet(B) /\ Cardinality(B) = Series!Count(inp.series[n + 1], type) BY <1>1, <1>5
<1>8. IsFiniteSet(A) /\ A \intersect B = {} BY <1>3, <1>4
<1> HIDE DEF A, B
<1>9. Cardinality(A) \in Nat /\ Cardinality(B) \in Nat BY <1>7, <1>8, FS_CardinalityType
<1>10. Cardinality(A \union B) = Cardinality(A) + Cardinality(B) - Cardinality(A \intersect B) BY <1>7, <1>8, FS_Union
<1>12. Cardinality(A \intersect B) = 0 BY <1>8, FS_EmptySet
<1>11. Cardinality(A \union B) = Cardinality(A) + Cardinality(B) BY <1>9, <1>10, <1>12
<1> QED BY <1>2, <1>6, <1>7, <1>9, <1>11 DEF A, B

-----------------------------------------------------------------------------
(* What an answer says, with the series kept at hand.                      *)
GoodSet(f, across) == {at \in Buckets(f) : GoodAt(f, at, across)}
LostSet(f, across) == {at \in Buckets(f) : LostAt(f, at, across)}
DepartedSet(f, across) == {at \in GoodSet(f, across) : DepartedAt(f, at) # {}}
CarriedSet(f, across) ==
  {at \in GoodSet(f, across) : DepartedAt(f, at) = {} /\ CarriedAt(f, at) # {}}
Gone(f, done) == UNION {DepartedAt(f, at) : at \in done}
Point(f, at, across) == [at |-> at, value |-> FoldedAt(f, at, across)]
DroppedOf(inp, type) == Cardinality(Pairs(inp, KeptN(inp), type))

Exact(inp, ans) ==
  LET f == KeptOf(inp)
      across == ans.spec.across
      w == ans.warnings
  IN /\ Series!Valid(ans.spec) /\ ans.request = Series!BuildAggregatedParams(inp.metric, ans.spec)
     /\ w.truncated = (Len(inp.series) > MaxTimeSeries)
     /\ w.unsupported = DroppedOf(inp, "other")
     /\ IF ~ Series!IsTwoStage(ans.spec)
        THEN w.nonFinite = DroppedOf(inp, "nonfinite") /\ ans.result = f
        ELSE /\ {ans.result[k] : k \in DOMAIN ans.result} = {Point(f, at, across) : at \in GoodSet(f, across)}
             /\ \A j, k \in DOMAIN ans.result : j < k => ans.result[j].at < ans.result[k].at
             /\ w.nonFinite = DroppedOf(inp, "nonfinite") + Cardinality(LostSet(f, across))
             /\ w.departedBuckets = Cardinality(DepartedSet(f, across))
             /\ w.carryForward = Cardinality(CarriedSet(f, across))
             /\ w.departedSeries = Cardinality(Gone(f, Buckets(f)))
             /\ w.totalBuckets = Cardinality(GoodSet(f, across)) /\ w.groupCount = KeptN(inp)
             /\ w.singleGroup = (KeptN(inp) = 1)

LEMMA LeastNatural ==
  ASSUME NEW T \in SUBSET Nat, T # {}
  PROVE  \E n \in T : \A m \in T : n <= m
<1>1. PICK n \in T : \A m \in T : ~ (<<m, n>> \in OpToRel(<, Nat))
  BY NatLessThanWellFounded, WFMin
<1>2. ASSUME NEW m \in T PROVE n <= m
  <2>1. m \in Nat /\ n \in Nat OBVIOUS
  <2>2. ~ (m < n) BY <1>1, <2>1 DEF OpToRel
  <2> QED BY <2>1, <2>2
<1> QED BY <1>2

(* A finite set of times has a last one: the one with the fewest later.    *)
LEMMA GreatestExists ==
  ASSUME NEW S, IsFiniteSet(S), S \subseteq Int, S # {}
  PROVE  Series!Max(S) \in S
<1> DEFINE later(x) == {y \in S : x < y}
           N == {Cardinality(later(x)) : x \in S}
<1>1. ASSUME NEW x \in S PROVE IsFiniteSet(later(x)) /\ Cardinality(later(x)) \in Nat
  BY FS_Subset, FS_CardinalityType
<1>2. N \in SUBSET Nat /\ N # {} BY <1>1
<1>3. PICK n \in N : \A k \in N : n <= k
  <2> HIDE DEF N
  <2> QED BY <1>2, LeastNatural
<1>4. PICK m \in S : n = Cardinality(later(m)) OBVIOUS
<1>5. ASSUME NEW y \in S PROVE m >= y
  <2>0. m \in Int /\ y \in Int /\ \A z \in S : z \in Int OBVIOUS
  <2>1. SUFFICES ASSUME m < y PROVE FALSE BY <2>0
  <2>2. later(y) \in SUBSET later(m) /\ y \in later(m) /\ y \notin later(y)
    <3>1. \A z \in S : y < z => m < z BY <2>0, <2>1
    <3>2. m < y /\ ~ (y < y) BY <2>0, <2>1
    <3> QED BY ONLY Zenon, <3>1, <3>2, y \in S
  <2>3. n <= Cardinality(later(y)) BY <1>3
  <2> DEFINE A == later(m)  B == later(y)
  <2>4. IsFiniteSet(A) /\ n = Cardinality(A) /\ Cardinality(B) \in Nat /\ Cardinality(A) \in Nat BY <1>1, <1>4
  <2>5. B \in SUBSET A /\ A # B BY <2>2
  <2> HIDE DEF A, B
  <2>6. Cardinality(B) <= Cardinality(A) /\ (Cardinality(A) = Cardinality(B) => A = B) BY <2>4, <2>5, FS_Subset
  <2> QED BY <2>3, <2>4, <2>5, <2>6 DEF B
<1> QED BY <1>5 DEF Series!Max

(* The property is what Exact says of the answer.                          *)
LEMMA KeptSame ==
  ASSUME Series!SeriesConstants, input \in SeriesInputs
  PROVE  /\ Len(Series!Kept) = KeptN(input) /\ DOMAIN Series!Kept = 1..KeptN(input)
         /\ \A i \in 1..KeptN(input) : Series!Kept[i] = input.series[i] /\ Series!Numbers(i) = Numbers(input.series[i])
         /\ \A type : Series!Dropped(type) = DroppedOf(input, type)
<1> DEFINE s == input.series  n == Len(s)  m == Series!Min({MaxTimeSeries, n})
<1>1. n \in Nat /\ MaxTimeSeries \in Nat /\ KeptN(input) \in 0..n BY SeriesInputFacts
<1>2. m = KeptN(input)
  <2> HIDE DEF n, s
  <2>1. \A x \in {MaxTimeSeries, n} : (\A y \in {MaxTimeSeries, n} : x <= y) <=> x = (IF n <= MaxTimeSeries THEN n ELSE MaxTimeSeries)
    BY <1>1
  <2>2. (IF n <= MaxTimeSeries THEN n ELSE MaxTimeSeries) \in {MaxTimeSeries, n} OBVIOUS
  <2>3. m = (IF n <= MaxTimeSeries THEN n ELSE MaxTimeSeries) BY <2>1, <2>2 DEF Series!Min
  <2> QED BY <2>3 DEF KeptN, n, s
<1>3. Series!Kept = SubSeq(s, 1, KeptN(input)) BY <1>2 DEF Series!Kept
<1>4. s \in Seq(Seq([at : Int, type : STRING, value : Int])) BY DEF Series!SeriesConstants
<1>5. /\ Len(Series!Kept) = KeptN(input) /\ DOMAIN Series!Kept = 1..KeptN(input)
      /\ \A i \in 1..KeptN(input) : Series!Kept[i] = s[i]
  <2> DEFINE P == Seq([at : Int, type : STRING, value : Int])  k == KeptN(input)
  <2> HIDE DEF P, s, k
  <2>1. k \in 0..Len(s) /\ Series!Kept = SubSeq(s, 1, k) /\ s \in Seq(P) /\ Len(s) \in Nat BY <1>1, <1>3, <1>4 DEF k, P, n
  <2>2. /\ Len(SubSeq(s, 1, k)) = k /\ DOMAIN SubSeq(s, 1, k) = 1..k
        /\ \A i \in 1..k : SubSeq(s, 1, k)[i] = s[i]
    BY <2>1, SubSeqProperties
  <2> QED BY <2>1, <2>2 DEF k
<1>6. \A i \in 1..KeptN(input) : Series!Numbers(i) = Numbers(s[i]) BY <1>5 DEF Series!Numbers, Numbers
<1>7. ASSUME NEW type PROVE Series!Dropped(type) = DroppedOf(input, type)
  <2>1. \A i \in 1..KeptN(input) :
          {<<i, k>> : k \in {k \in DOMAIN Series!Kept[i] : Series!Kept[i][k].type = type}} = PairsOf(input, i, type)
    BY <1>5 DEF PairsOf, OfType
  <2>2. UNION {{<<i, k>> : k \in {k \in DOMAIN Series!Kept[i] : Series!Kept[i][k].type = type}} : i \in DOMAIN Series!Kept}
         = Pairs(input, KeptN(input), type)
    BY <1>5, <2>1 DEF Pairs
  <2> QED BY <2>2, SeriesCardinality DEF Series!Dropped, DroppedOf
<1> QED BY <1>5, <1>6, <1>7

LEMMA PointsSame ==
  ASSUME Series!SeriesConstants, input \in SeriesInputs
  PROVE  LET f == KeptOf(input)
         IN /\ \A i \in 1..KeptN(input) :
                 f[i] = [at \in {p.at : p \in Series!Numbers(i)} |-> Series!ValueAt(i, at)]
            /\ Series!Observed = Buckets(f)
            /\ \A i \in 1..KeptN(input), at \in Buckets(f) :
                 /\ Series!NumberAt(i, at) <=> at \in DOMAIN f[i]
                 /\ Series!Since(i, at) = Before(f, i, at)
                 /\ Series!Silence(i, at) = SilentFor(f, i, at)
<1> DEFINE f == KeptOf(input)
<1>1. DOMAIN f = 1..KeptN(input) /\ \A i \in 1..KeptN(input) : f[i] = Decoded(input.series[i])
  BY KeptGroups
<1>2. DOMAIN Series!Kept = 1..KeptN(input) /\ \A i \in 1..KeptN(input) : Series!Numbers(i) = Numbers(input.series[i])
  BY KeptSame
<1>3. ASSUME NEW i \in 1..KeptN(input)
      PROVE  /\ f[i] = [at \in {p.at : p \in Series!Numbers(i)} |-> Series!ValueAt(i, at)]
             /\ DOMAIN f[i] = {p.at : p \in Series!Numbers(i)}
             /\ \A at : Series!NumberAt(i, at) <=> at \in DOMAIN f[i]
  <2>1. f[i] = [at \in {p.at : p \in Series!Numbers(i)} |-> Series!ValueAt(i, at)]
    <3>1. f[i] = Decoded(input.series[i]) /\ Series!Numbers(i) = Numbers(input.series[i]) BY <1>1, <1>2
    <3> HIDE DEF f
    <3> QED BY ONLY <3>1 DEF Decoded, Series!ValueAt
  <2>2. DOMAIN f[i] = {p.at : p \in Series!Numbers(i)} BY <2>1
  <2>3. \A at : Series!NumberAt(i, at) <=> at \in DOMAIN f[i] BY <2>2 DEF Series!NumberAt
  <2> QED BY <2>1, <2>2, <2>3
<1>4. Series!Observed = Buckets(f)
  <2> HIDE DEF f
  <2>1. Series!Observed = UNION {{p.at : p \in Series!Numbers(i)} : i \in 1..KeptN(input)} BY <1>2 DEF Series!Observed
  <2>2. Buckets(f) = UNION {DOMAIN f[i] : i \in 1..KeptN(input)} BY <1>1 DEF Buckets
  <2> QED BY <1>3, <2>1, <2>2
<1>5. ASSUME NEW i \in 1..KeptN(input), NEW at \in Buckets(f)
      PROVE  Series!Since(i, at) = Before(f, i, at) /\ Series!Silence(i, at) = SilentFor(f, i, at)
  <2> HIDE DEF f
  <2>1. Series!Since(i, at) = Before(f, i, at) BY <1>3, <1>4 DEF Series!Since, Before
  <2>2. Series!Silence(i, at) = SilentFor(f, i, at)
    BY <1>4, <2>1, SeriesCardinality DEF Series!Silence, SilentFor, LastOf
  <2> QED BY <2>1, <2>2
<1> QED BY <1>3, <1>4, <1>5

LEMMA BucketSame ==
  ASSUME Series!SeriesConstants, input \in SeriesInputs, NEW across \in Series!Reducers,
         NEW at \in Buckets(KeptOf(input))
  PROVE  LET f == KeptOf(input)
         IN /\ Series!Departed(at) = DepartedAt(f, at) /\ Series!Carried(at) = CarriedAt(f, at)
            /\ Series!Folded(at, across) = FoldedAt(f, at, across)
            /\ Series!Empty(at) <=> CountedAt(f, at) = {}
            /\ Series!Good(at, across) <=> GoodAt(f, at, across)
<1> DEFINE f == KeptOf(input)
<1>1. Groups(f) /\ DOMAIN f = 1..KeptN(input) BY KeptGroups
<1>2. DOMAIN Series!Kept = 1..KeptN(input) BY KeptSame
<1>3. /\ \A i \in 1..KeptN(input) :
           /\ f[i] = [a \in {p.at : p \in Series!Numbers(i)} |-> Series!ValueAt(i, a)]
           /\ Series!Since(i, at) = Before(f, i, at)
           /\ Series!Silence(i, at) = SilentFor(f, i, at)
  BY PointsSame
<1> HIDE DEF f
<1>4. Series!Started(at) = StartedAt(f, at)
  <2>1. Series!Started(at) = {i \in 1..KeptN(input) : Series!Since(i, at) # {}} BY <1>2 DEF Series!Started
  <2>2. StartedAt(f, at) = {i \in 1..KeptN(input) : Before(f, i, at) # {}} BY <1>1 DEF StartedAt
  <2>3. \A i \in 1..KeptN(input) : Series!Since(i, at) = Before(f, i, at) BY <1>3
  <2> QED BY ONLY Zenon, <2>1, <2>2, <2>3
<1>5. StartedAt(f, at) \subseteq 1..KeptN(input) BY <1>1 DEF StartedAt
<1>6. Series!Departed(at) = DepartedAt(f, at) BY <1>3, <1>4, <1>5 DEF Series!Departed, DepartedAt
<1>7. Series!Started(at) \ Series!Departed(at) = CountedAt(f, at) /\ CountedAt(f, at) \subseteq StartedAt(f, at)
  BY <1>4, <1>6 DEF CountedAt
<1>8. Series!Carried(at) = CarriedAt(f, at) BY <1>3, <1>5, <1>7 DEF Series!Carried, CarriedAt
<1> DEFINE last == [i \in CountedAt(f, at) |-> f[i][LastOf(f, i, at)]]
<1>9. [i \in Series!Started(at) \ Series!Departed(at) |-> Series!ValueAt(i, Series!Max(Series!Since(i, at)))] = last
  <2>1. ASSUME NEW i \in CountedAt(f, at) PROVE Series!ValueAt(i, Series!Max(Series!Since(i, at))) = f[i][LastOf(f, i, at)]
    <3>1. i \in 1..KeptN(input) /\ Before(f, i, at) # {} BY <1>5, <1>7 DEF StartedAt
    <3>2. Before(f, i, at) \subseteq DOMAIN f[i] BY DEF Before
    <3>3. IsFiniteSet(Before(f, i, at)) /\ Before(f, i, at) \subseteq Int
      <4>1. IsFiniteSet(DOMAIN f[i]) /\ DOMAIN f[i] \subseteq Int BY <1>1, <3>1 DEF Groups
      <4> QED BY <3>2, <4>1, FS_Subset
    <3>4. LastOf(f, i, at) \in DOMAIN f[i] BY <3>1, <3>2, <3>3, GreatestExists DEF LastOf
    <3>5. Series!Max(Series!Since(i, at)) = LastOf(f, i, at) BY <1>3, <3>1 DEF LastOf
    <3> QED BY <1>3, <3>1, <3>4, <3>5
  <2> QED BY <1>7, <2>1
<1>10. FoldedAt(f, at, across) = Series!ApplyReducer(last, across) BY DEF FoldedAt
<1>11. Series!Folded(at, across)
         = CASE across = "sum" -> <<Series!Total(last), 1>>
             [] across = "mean" -> <<Series!Total(last), Series!Cardinality(DOMAIN last)>>
             [] across = "max" -> <<Series!Max(Series!Range(last)), 1>>
             [] across = "min" -> <<Series!Min(Series!Range(last)), 1>>
  BY <1>9 DEF Series!Folded
<1> HIDE DEF last
<1>12. Series!Folded(at, across) = FoldedAt(f, at, across)
  <2>1. CASE across = "sum" BY <1>10, <1>11, <2>1 DEF Series!ApplyReducer
  <2>2. CASE across = "mean" BY <1>10, <1>11, <2>2 DEF Series!ApplyReducer
  <2>3. CASE across = "max" BY <1>10, <1>11, <2>3 DEF Series!ApplyReducer
  <2>4. CASE across = "min" BY <1>10, <1>11, <2>4 DEF Series!ApplyReducer
  <2> QED BY <2>1, <2>2, <2>3, <2>4 DEF Series!Reducers
<1>13. Series!Empty(at) <=> CountedAt(f, at) = {} BY <1>7 DEF Series!Empty
<1>14. Series!Good(at, across) <=> GoodAt(f, at, across) BY <1>12, <1>13 DEF Series!Good, GoodAt
<1> QED BY <1>6, <1>8, <1>12, <1>13, <1>14 DEF f

LEMMA RequestIs ==
  ASSUME Series!Valid(answer.spec),
         answer.request = Series!BuildAggregatedParams(input.metric, answer.spec)
  PROVE  /\ answer.request.groupBy = <<>> <=> ~ Series!IsTwoStage(answer.spec)
         /\ answer.spec.across \in Series!Reducers
<1>1. answer.request.groupBy = answer.spec.groupBy
  BY DEF Series!BuildAggregatedParams
<1> QED BY <1>1 DEF Series!Valid, Series!IsTwoStage

LEMMA SetsSame ==
  ASSUME Series!SeriesConstants, input \in SeriesInputs, NEW across \in Series!Reducers
  PROVE  LET f == KeptOf(input)
             good == {at \in Series!Observed : Series!Good(at, across)}
         IN /\ good = GoodSet(f, across)
            /\ {at \in Series!Observed : ~ Series!Empty(at) /\ ~ Series!Good(at, across)} = LostSet(f, across)
            /\ {at \in good : Series!Departed(at) # {}} = DepartedSet(f, across)
            /\ {at \in good : Series!Departed(at) = {} /\ Series!Carried(at) # {}} = CarriedSet(f, across)
            /\ UNION {Series!Departed(at) : at \in Series!Observed} = Gone(f, Buckets(f))
            /\ {[at |-> at, value |-> Series!Folded(at, across)] : at \in good}
                 = {Point(f, at, across) : at \in GoodSet(f, across)}
<1> DEFINE f == KeptOf(input)
           good == {at \in Series!Observed : Series!Good(at, across)}
<1>1. Series!Observed = Buckets(f) BY PointsSame
<1>2. \A at \in Buckets(f) :
        /\ Series!Departed(at) = DepartedAt(f, at) /\ Series!Carried(at) = CarriedAt(f, at)
        /\ Series!Folded(at, across) = FoldedAt(f, at, across)
        /\ Series!Empty(at) <=> CountedAt(f, at) = {}
        /\ Series!Good(at, across) <=> GoodAt(f, at, across)
  BY BucketSame
<1> HIDE DEF f
<1>3. good = GoodSet(f, across) BY <1>1, <1>2 DEF GoodSet
<1>4. {at \in Series!Observed : ~ Series!Empty(at) /\ ~ Series!Good(at, across)} = LostSet(f, across)
  BY <1>1, <1>2 DEF LostSet, LostAt, GoodAt
<1>5. \A at \in good : at \in Buckets(f) BY <1>1
<1> HIDE DEF good
<1>6. {at \in good : Series!Departed(at) # {}} = DepartedSet(f, across)
  BY ONLY Zenon, <1>2, <1>3, <1>5 DEF DepartedSet
<1>7. {at \in good : Series!Departed(at) = {} /\ Series!Carried(at) # {}} = CarriedSet(f, across)
  BY ONLY Zenon, <1>2, <1>3, <1>5 DEF CarriedSet
<1>8. UNION {Series!Departed(at) : at \in Series!Observed} = Gone(f, Buckets(f))
  BY ONLY Zenon, <1>1, <1>2 DEF Gone
<1>9. {[at |-> at, value |-> Series!Folded(at, across)] : at \in good}
        = {Point(f, at, across) : at \in GoodSet(f, across)}
  BY ONLY Zenon, <1>2, <1>3, <1>5 DEF Point
<1> QED BY <1>3, <1>4, <1>6, <1>7, <1>8, <1>9 DEF f, good

LEMMA ExactSame ==
  ASSUME Series!SeriesConstants, input \in SeriesInputs, answer.kind = "series" => Exact(input, answer)
  PROVE  Series!SeriesExact
<1> SUFFICES ASSUME answer.kind = "series", Exact(input, answer) PROVE Series!SeriesExact
  BY DEF Series!SeriesExact
<1> DEFINE f == KeptOf(input)  across == answer.spec.across  w == answer.warnings
           good == {at \in Series!Observed : Series!Good(at, across)}
           gone == {at \in Series!Observed : ~ Series!Empty(at) /\ ~ Series!Good(at, across)}
<1>1. /\ across \in Series!Reducers
      /\ answer.request.groupBy = <<>> <=> ~ Series!IsTwoStage(answer.spec)
  BY RequestIs DEF Exact
<1>2. /\ w.truncated = (Len(input.series) > MaxTimeSeries)
      /\ w.unsupported = Series!Dropped("other")
  BY KeptSame DEF Exact
<1>3. ASSUME answer.request.groupBy = <<>>
      PROVE  /\ w.nonFinite = Series!Dropped("nonfinite")
             /\ Len(answer.result) = Len(Series!Kept)
             /\ \A i \in DOMAIN Series!Kept :
                  answer.result[i] = [at \in {p.at : p \in Series!Numbers(i)} |-> Series!ValueAt(i, at)]
  <2>1. w.nonFinite = DroppedOf(input, "nonfinite") /\ answer.result = f BY <1>1, <1>3 DEF Exact
  <2>2. f = [i \in 1..KeptN(input) |-> Decoded(input.series[i])] /\ KeptN(input) \in Nat BY SeriesInputFacts DEF KeptOf
  <2>3. Len(f) = KeptN(input)
    <3> HIDE DEF f
    <3> QED BY <2>2
  <2>4. \A i \in 1..KeptN(input) : f[i] = [at \in {p.at : p \in Series!Numbers(i)} |-> Series!ValueAt(i, at)]
    BY PointsSame
  <2> HIDE DEF f
  <2> QED BY <2>1, <2>3, <2>4, KeptSame
<1>4. ASSUME answer.request.groupBy # <<>>
      PROVE  /\ {answer.result[k] : k \in DOMAIN answer.result}
                  = {[at |-> at, value |-> Series!Folded(at, across)] : at \in good}
             /\ \A j, k \in DOMAIN answer.result : j < k => answer.result[j].at < answer.result[k].at
             /\ w.nonFinite = Series!Dropped("nonfinite") + Series!Cardinality(gone)
             /\ w.departedBuckets = Series!Cardinality({at \in good : Series!Departed(at) # {}})
             /\ w.carryForward = Series!Cardinality({at \in good : Series!Departed(at) = {} /\ Series!Carried(at) # {}})
             /\ w.departedSeries = Series!Cardinality(UNION {Series!Departed(at) : at \in Series!Observed})
             /\ w.totalBuckets = Series!Cardinality(good) /\ w.groupCount = Len(Series!Kept)
             /\ w.singleGroup = (Len(Series!Kept) = 1)
  <2>1. /\ good = GoodSet(f, across) /\ gone = LostSet(f, across)
        /\ {at \in good : Series!Departed(at) # {}} = DepartedSet(f, across)
        /\ {at \in good : Series!Departed(at) = {} /\ Series!Carried(at) # {}} = CarriedSet(f, across)
        /\ UNION {Series!Departed(at) : at \in Series!Observed} = Gone(f, Buckets(f))
        /\ {[at |-> at, value |-> Series!Folded(at, across)] : at \in good}
             = {Point(f, at, across) : at \in GoodSet(f, across)}
    BY <1>1, SetsSame
  <2>2. /\ {answer.result[k] : k \in DOMAIN answer.result} = {Point(f, at, across) : at \in GoodSet(f, across)}
        /\ \A j, k \in DOMAIN answer.result : j < k => answer.result[j].at < answer.result[k].at
        /\ w.nonFinite = DroppedOf(input, "nonfinite") + Cardinality(LostSet(f, across))
        /\ w.departedBuckets = Cardinality(DepartedSet(f, across))
        /\ w.carryForward = Cardinality(CarriedSet(f, across))
        /\ w.departedSeries = Cardinality(Gone(f, Buckets(f)))
        /\ w.totalBuckets = Cardinality(GoodSet(f, across)) /\ w.groupCount = KeptN(input)
        /\ w.singleGroup = (KeptN(input) = 1)
    BY <1>1, <1>4 DEF Exact
  <2>3. Len(Series!Kept) = KeptN(input) /\ Series!Dropped("nonfinite") = DroppedOf(input, "nonfinite") BY KeptSame
  <2> QED BY ONLY Zenon, <2>1, <2>2, <2>3, SeriesCardinality
<1> QED BY ONLY Zenon, <1>1, <1>2, <1>3, <1>4, answer.kind = "series" DEF Series!SeriesExact

-----------------------------------------------------------------------------
(* The call while it reads, and while it folds.                            *)
WarningFields ==
  {"unsupported", "nonFinite", "singleGroup", "carryForward", "departedBuckets",
   "departedSeries", "totalBuckets", "groupCount", "truncated"}
ReadFields == {"pc", "spec", "request", "series", "read", "warnings"}
FoldFields ==
  {"pc", "spec", "request", "series", "warnings", "left", "points", "carried", "streak", "departed"}

Asked(inp, c) == Series!Valid(c.spec) /\ c.request = Series!BuildAggregatedParams(inp.metric, c.spec)

Reading(inp, c) ==
  /\ DOMAIN c = ReadFields /\ DOMAIN c.warnings = WarningFields
  /\ Asked(inp, c)
  /\ \E n \in 0..KeptN(inp) :
       /\ c.series = [i \in 1..n |-> Decoded(inp.series[i])]
       /\ c.warnings.unsupported = Cardinality(Pairs(inp, n, "other"))
       /\ c.warnings.nonFinite = Cardinality(Pairs(inp, n, "nonfinite"))
       /\ c.warnings.truncated \in BOOLEAN
       /\ IF c.warnings.truncated
          THEN n = MaxTimeSeries /\ Len(inp.series) > MaxTimeSeries /\ c.read = Len(inp.series)
          ELSE c.read = n
  /\ \A x \in {"carryForward", "departedBuckets", "departedSeries"} : c.warnings[x] = 0

PointsOf(f, across, done, q) ==
  /\ q \in Seq({Point(f, at, across) : at \in Buckets(f)})
  /\ {q[k] : k \in 1..Len(q)} = {Point(f, at, across) : at \in done \intersect GoodSet(f, across)}
  /\ \A j, k \in 1..Len(q) : j < k => q[j].at < q[k].at
  /\ Len(q) = Cardinality(done \intersect GoodSet(f, across))

FoldState(inp, f, done, across, c) ==
  LET w == c.warnings
  IN /\ DOMAIN c = FoldFields /\ DOMAIN w = WarningFields
     /\ Asked(inp, c) /\ Series!IsTwoStage(c.spec)
     /\ c.series = f /\ c.left \subseteq Buckets(f) /\ \A a \in done, b \in c.left : a < b
     /\ Carrying(f, done, c.carried, c.streak)
     /\ c.departed = Gone(f, done)
     /\ PointsOf(f, across, done, c.points)
     /\ w.truncated = (Len(inp.series) > MaxTimeSeries)
     /\ w.unsupported = DroppedOf(inp, "other")
     /\ w.nonFinite = DroppedOf(inp, "nonfinite") + Cardinality(done \intersect LostSet(f, across))
     /\ w.departedBuckets = Cardinality(done \intersect DepartedSet(f, across))
     /\ w.carryForward = Cardinality(done \intersect CarriedSet(f, across))
     /\ w.departedSeries = Cardinality(c.departed)
     /\ w.groupCount = KeptN(inp) /\ w.singleGroup = (KeptN(inp) = 1)

Folding(inp, c) == FoldState(inp, KeptOf(inp), Buckets(KeptOf(inp)) \ c.left, c.spec.across, c)

SeriesRun ==
  /\ input \in SeriesInputs
  /\ call.pc = "read" => Reading(input, call)
  /\ call.pc = "fold" => Folding(input, call)
  /\ answer.kind = "series" => Exact(input, answer)

LEMMA SeriesRunInit == Series!Init => SeriesRun
BY DEF Series!Init, SeriesRun, Series!Idle, Series!NoAnswer

LEMMA AskRun ==
  ASSUME Series!SeriesConstants, SeriesRun, Series!Ask
  PROVE  SeriesRun'
<1>1. input \in SeriesInputs /\ input' = input /\ answer = Series!NoAnswer BY DEF SeriesRun, Series!Ask
<1>2. PICK spec \in Specs :
        IF Series!Valid(spec)
        THEN /\ call' = [pc |-> "read", spec |-> spec,
                         request |-> Series!BuildAggregatedParams(input.metric, spec),
                         series |-> <<>>, read |-> 0, warnings |-> Series!NoWarnings]
             /\ UNCHANGED answer
        ELSE /\ answer' = [kind |-> "invalid", spec |-> spec] /\ UNCHANGED call
  BY DEF Series!Ask
<1>3. call.pc = "idle" BY DEF Series!Ask
<1>4. CASE ~ Series!Valid(spec) BY <1>1, <1>2, <1>3, <1>4 DEF SeriesRun
<1>5. CASE Series!Valid(spec)
  <2> DEFINE w == Series!NoWarnings
  <2>1. PICK r : r = Series!BuildAggregatedParams(input.metric, spec) OBVIOUS
  <2>2. /\ call'.pc = "read" /\ DOMAIN call' = ReadFields /\ call'.spec = spec /\ call'.request = r
        /\ call'.series = <<>> /\ call'.read = 0 /\ call'.warnings = w /\ answer' = answer
    BY <1>2, <1>5, <2>1 DEF ReadFields
  <2>3. /\ DOMAIN w = WarningFields /\ w.unsupported = 0 /\ w.nonFinite = 0 /\ w.truncated = FALSE
        /\ w.carryForward = 0 /\ w.departedBuckets = 0 /\ w.departedSeries = 0
    BY DEF Series!NoWarnings, WarningFields
  <2> HIDE DEF w
  <2>4. 0 \in 0..KeptN(input) BY <1>1, SeriesInputFacts
  <2>5. [i \in 1..0 |-> Decoded(input.series[i])] = <<>> OBVIOUS
  <2>6. \A type : Cardinality(Pairs(input, 0, type)) = 0
    <3>1. \A type : Pairs(input, 0, type) = {} BY DEF Pairs
    <3> QED BY <3>1, FS_EmptySet
  <2>7. Reading(input, call')
    <3>1. Asked(input, call') BY <1>5, <2>1, <2>2 DEF Asked
    <3>2. \A x \in {"carryForward", "departedBuckets", "departedSeries"} : call'.warnings[x] = 0 BY <2>2, <2>3
    <3>3. /\ call'.series = [i \in 1..0 |-> Decoded(input.series[i])]
          /\ call'.warnings.unsupported = Cardinality(Pairs(input, 0, "other"))
          /\ call'.warnings.nonFinite = Cardinality(Pairs(input, 0, "nonfinite"))
          /\ call'.warnings.truncated = FALSE /\ call'.read = 0
      BY <2>2, <2>3, <2>5, <2>6
    <3> QED BY <2>2, <2>3, <2>4, <3>1, <3>2, <3>3 DEF Reading
  <2> QED BY <1>1, <2>2, <2>7 DEF SeriesRun, Series!NoAnswer
<1> QED BY <1>4, <1>5

(* One more series read; and the rest of the series left out.              *)
LEMMA DecodedNext ==
  ASSUME NEW inp, NEW n \in Nat, NEW q, q = [i \in 1..n |-> Decoded(inp.series[i])]
  PROVE  Append(q, Decoded(inp.series[n + 1])) = [i \in 1..(n + 1) |-> Decoded(inp.series[i])]
<1> DEFINE D(i) == Decoded(inp.series[i])  S == {D(i) : i \in 1..(n + 1)}  r == [i \in 1..(n + 1) |-> D(i)]
<1>1. q \in Seq(S) /\ Len(q) = n /\ \A i \in 1..n : q[i] = D(i)
  <2>1. q \in [1..n -> S] /\ (\A i \in 1..n : q[i] = D(i)) /\ DOMAIN q = 1..n OBVIOUS
  <2> HIDE DEF S, D
  <2> QED BY <2>1
<1>2. D(n + 1) \in S OBVIOUS
<1>3. r \in [1..(n + 1) -> S] OBVIOUS
<1>4. \A i \in 1..(n + 1) : r[i] = D(i) OBVIOUS
<1> DEFINE e == D(n + 1)
<1>5. e = D(n + 1) OBVIOUS
<1> HIDE DEF S, D, r, e
<1>6. /\ Append(q, e) \in Seq(S) /\ Len(Append(q, e)) = n + 1
      /\ \A i \in 1..n : Append(q, e)[i] = q[i] /\ Append(q, e)[n + 1] = e
  BY <1>1, <1>2, <1>5, AppendProperties
<1>7. Append(q, e) = r
  <2> DEFINE a == Append(q, e)
  <2>1. DOMAIN a = 1..(n + 1) /\ a \in [1..(n + 1) -> S]
    <3> HIDE DEF a
    <3>1. a \in Seq(S) /\ Len(a) = n + 1 BY <1>6 DEF a
    <3> QED BY <3>1
  <2>2. \A i \in 1..(n + 1) : a[i] = r[i]
    <3>1. a[n + 1] = r[n + 1] BY <1>4, <1>5, <1>6
    <3>2. ASSUME NEW i \in 1..n PROVE a[i] = r[i]
      <4>1. i \in 1..(n + 1) OBVIOUS
      <4> QED BY <1>1, <1>4, <1>6, <4>1
    <3>3. \A i \in 1..(n + 1) : i \in 1..n \/ i = n + 1 OBVIOUS
    <3> QED BY <3>1, <3>2, <3>3
  <2> HIDE DEF a
  <2>3. a = r BY <1>3, <2>1, <2>2
  <2> QED BY <2>3 DEF a
<1> QED BY <1>5, <1>7 DEF r, D, e

LEMMA ReadSeriesRun ==
  ASSUME Series!SeriesConstants, SeriesRun, Series!ReadSeries
  PROVE  SeriesRun'
<1> DEFINE p == input.series[call.read + 1]
           decoded == {p[k] : k \in {k \in DOMAIN p : p[k].type = "number"}}
           g == [at \in {q.at : q \in decoded} |-> (CHOOSE q \in decoded : q.at = at).value]
<1>1. /\ input \in SeriesInputs /\ input' = input /\ answer' = answer /\ call.pc = "read" /\ call.read < Len(input.series)
      /\ Reading(input, call) /\ (answer.kind = "series" => Exact(input, answer))
  BY DEF SeriesRun, Series!ReadSeries
<1>2. /\ KeptN(input) \in Nat /\ KeptN(input) <= MaxTimeSeries /\ Len(input.series) \in Nat /\ MaxTimeSeries \in Nat
      /\ KeptN(input) = IF Len(input.series) <= MaxTimeSeries THEN Len(input.series) ELSE MaxTimeSeries
  BY <1>1, SeriesInputFacts DEF KeptN
<1>3. PICK n \in 0..KeptN(input) :
        /\ call.series = [i \in 1..n |-> Decoded(input.series[i])]
        /\ call.warnings.unsupported = Cardinality(Pairs(input, n, "other"))
        /\ call.warnings.nonFinite = Cardinality(Pairs(input, n, "nonfinite"))
        /\ call.warnings.truncated \in BOOLEAN
        /\ IF call.warnings.truncated
           THEN n = MaxTimeSeries /\ Len(input.series) > MaxTimeSeries /\ call.read = Len(input.series)
           ELSE call.read = n
  BY <1>1 DEF Reading
<1>4. n \in Nat /\ call.read = n /\ ~ call.warnings.truncated BY <1>1, <1>2, <1>3
<1>5. Len(call.series) = n BY <1>3, <1>4
<1>6. /\ DOMAIN call = ReadFields /\ DOMAIN call.warnings = WarningFields /\ Asked(input, call)
      /\ \A x \in {"carryForward", "departedBuckets", "departedSeries"} : call.warnings[x] = 0
  BY <1>1 DEF Reading
<1>7. Reading(input, call') /\ call'.pc = "read"
  <2>1. CASE n = MaxTimeSeries
    <3>1. call' = [call EXCEPT !.read = Len(input.series), !.warnings.truncated = TRUE]
      BY <1>5, <2>1 DEF Series!ReadSeries
    <3>2. PICK w : w = [call.warnings EXCEPT !.truncated = TRUE] OBVIOUS
    <3>3. /\ DOMAIN call' = ReadFields /\ call'.warnings = w /\ call'.pc = call.pc /\ call'.spec = call.spec
          /\ call'.request = call.request /\ call'.series = call.series /\ call'.read = Len(input.series)
      BY <1>6, <3>1, <3>2 DEF ReadFields
    <3>4. /\ DOMAIN w = WarningFields /\ w.truncated = TRUE
          /\ \A x \in {"unsupported", "nonFinite", "carryForward", "departedBuckets", "departedSeries"} : w[x] = call.warnings[x]
      BY <1>6, <3>2 DEF WarningFields
    <3>5. Asked(input, call') BY <1>6, <3>3 DEF Asked
    <3>6. n = MaxTimeSeries /\ Len(input.series) > MaxTimeSeries BY <1>1, <1>2, <1>4, <2>1
    <3> QED BY <1>1, <1>3, <1>6, <3>3, <3>4, <3>5, <3>6 DEF Reading
  <2>2. CASE n # MaxTimeSeries
    <3> DEFINE x == call.warnings.unsupported + Series!Count(p, "other")
               y == call.warnings.nonFinite + Series!Count(p, "nonfinite")
               q == Append(call.series, g)
    <3>1. call' = [call EXCEPT !.read = @ + 1, !.series = Append(@, g),
                     !.warnings.unsupported = @ + Series!Count(p, "other"),
                     !.warnings.nonFinite = @ + Series!Count(p, "nonfinite")]
      BY <1>5, <2>2 DEF Series!ReadSeries
    <3>2. call' = [call EXCEPT !.read = call.read + 1, !.series = q, !.warnings.unsupported = x, !.warnings.nonFinite = y]
      <4> HIDE DEF g, p
      <4> QED BY <1>6, <3>1 DEF ReadFields, WarningFields
    <3>3. g = Decoded(input.series[n + 1]) BY <1>4 DEF Decoded, Numbers
    <3> HIDE DEF g
    <3>4. q = [i \in 1..(n + 1) |-> Decoded(input.series[i])] BY <1>3, <1>4, <3>3, DecodedNext
    <3>5. n + 1 \in 0..KeptN(input) /\ n < Len(input.series) BY <1>1, <1>2, <1>3, <1>4, <2>2
    <3>6. /\ x = Cardinality(Pairs(input, n + 1, "other")) /\ y = Cardinality(Pairs(input, n + 1, "nonfinite"))
      BY <1>1, <1>3, <1>4, <3>5, PairsNext
    <3> HIDE DEF x, y, q
    <3>7. /\ DOMAIN call' = ReadFields /\ DOMAIN call'.warnings = WarningFields
          /\ call'.pc = call.pc /\ call'.spec = call.spec /\ call'.request = call.request
          /\ call'.series = q /\ call'.read = call.read + 1
          /\ call'.warnings.unsupported = x /\ call'.warnings.nonFinite = y
          /\ \A z \in {"truncated", "carryForward", "departedBuckets", "departedSeries"} :
               call'.warnings[z] = call.warnings[z]
      <4>1. PICK w : w = [call.warnings EXCEPT !.unsupported = x, !.nonFinite = y] OBVIOUS
      <4>2. /\ DOMAIN w = WarningFields /\ w.unsupported = x /\ w.nonFinite = y
            /\ \A z \in {"truncated", "carryForward", "departedBuckets", "departedSeries"} : w[z] = call.warnings[z]
        BY <1>6, <4>1 DEF WarningFields
      <4>3. /\ DOMAIN call' = ReadFields /\ call'.warnings = w /\ call'.pc = call.pc /\ call'.spec = call.spec
            /\ call'.request = call.request /\ call'.series = q /\ call'.read = call.read + 1
        BY <1>6, <3>2, <4>1 DEF ReadFields
      <4> QED BY <4>2, <4>3
    <3>8. Asked(input, call') BY <1>6, <3>7 DEF Asked
    <3>9. /\ call'.series = [i \in 1..(n + 1) |-> Decoded(input.series[i])]
          /\ call'.warnings.unsupported = Cardinality(Pairs(input, n + 1, "other"))
          /\ call'.warnings.nonFinite = Cardinality(Pairs(input, n + 1, "nonfinite"))
          /\ call'.warnings.truncated = FALSE /\ call'.read = n + 1
          /\ \A z \in {"carryForward", "departedBuckets", "departedSeries"} : call'.warnings[z] = 0
      BY <1>3, <1>4, <1>6, <3>4, <3>6, <3>7
    <3> QED BY <1>1, <3>5, <3>7, <3>8, <3>9 DEF Reading
  <2> QED BY <2>1, <2>2
<1> QED BY <1>1, <1>7 DEF SeriesRun

(* All that counts has been read.                                          *)
LEMMA ReadDone ==
  ASSUME Series!SeriesConstants, NEW inp \in SeriesInputs, NEW c, Reading(inp, c), c.read = Len(inp.series)
  PROVE  /\ c.series = KeptOf(inp) /\ Len(c.series) = KeptN(inp)
         /\ c.warnings.truncated = (Len(inp.series) > MaxTimeSeries)
         /\ c.warnings.unsupported = DroppedOf(inp, "other") /\ c.warnings.nonFinite = DroppedOf(inp, "nonfinite")
<1>1. /\ KeptN(inp) \in Nat /\ KeptN(inp) <= MaxTimeSeries /\ Len(inp.series) \in Nat /\ MaxTimeSeries \in Nat
      /\ KeptN(inp) = IF Len(inp.series) <= MaxTimeSeries THEN Len(inp.series) ELSE MaxTimeSeries
  BY SeriesInputFacts DEF KeptN
<1>2. PICK n \in 0..KeptN(inp) :
        /\ c.series = [i \in 1..n |-> Decoded(inp.series[i])]
        /\ c.warnings.unsupported = Cardinality(Pairs(inp, n, "other"))
        /\ c.warnings.nonFinite = Cardinality(Pairs(inp, n, "nonfinite"))
        /\ c.warnings.truncated \in BOOLEAN
        /\ IF c.warnings.truncated
           THEN n = MaxTimeSeries /\ Len(inp.series) > MaxTimeSeries /\ c.read = Len(inp.series)
           ELSE c.read = n
  BY DEF Reading
<1>3. n = KeptN(inp) /\ n \in Nat BY <1>1, <1>2
<1>4. c.warnings.truncated = (Len(inp.series) > MaxTimeSeries)
  <2>1. CASE c.warnings.truncated = TRUE
    <3>1. Len(inp.series) > MaxTimeSeries BY <1>2, <2>1
    <3>2. (Len(inp.series) > MaxTimeSeries) = TRUE BY <3>1
    <3> QED BY <2>1, <3>2
  <2>2. CASE c.warnings.truncated = FALSE
    <3>1. ~ (Len(inp.series) > MaxTimeSeries) BY <1>1, <1>2, <2>2
    <3>2. (Len(inp.series) > MaxTimeSeries) = FALSE BY <3>1
    <3> QED BY <2>2, <3>2
  <2>3. c.warnings.truncated \in BOOLEAN BY <1>2
  <2> QED BY <2>1, <2>2, <2>3
<1>5. Len(c.series) = n BY <1>2, <1>3
<1> QED BY <1>2, <1>3, <1>4, <1>5 DEF DroppedOf, KeptOf

LEMMA DroppedNat ==
  ASSUME Series!SeriesConstants, NEW inp \in SeriesInputs
  PROVE  DroppedOf(inp, "nonfinite") \in Nat
<1>0. KeptN(inp) \in Nat /\ Len(inp.series) \in Nat BY SeriesInputFacts
<1>1. PICK k : k = KeptN(inp) OBVIOUS
<1>2. CASE k < Len(inp.series) BY <1>0, <1>1, <1>2, PairsNext DEF DroppedOf
<1>3. CASE k = 0
  <2>1. Pairs(inp, 0, "nonfinite") = {} BY DEF Pairs
  <2> QED BY <1>1, <1>3, <2>1, FS_EmptySet DEF DroppedOf
<1>4. CASE k # 0 /\ ~ (k < Len(inp.series))
  <2>1. Len(inp.series) \in Nat /\ k \in Nat /\ k <= Len(inp.series) /\ k - 1 \in Nat /\ k - 1 < Len(inp.series)
        /\ (k - 1) + 1 = k
    BY <1>1, <1>4, SeriesInputFacts
  <2> DEFINE m == k - 1
  <2>2. m \in Nat /\ m < Len(inp.series) /\ m + 1 = k BY <2>1
  <2> HIDE DEF m
  <2>3. /\ Cardinality(Pairs(inp, m, "nonfinite")) \in Nat
        /\ Cardinality(Pairs(inp, m + 1, "nonfinite"))
             = Cardinality(Pairs(inp, m, "nonfinite")) + Series!Count(inp.series[m + 1], "nonfinite")
    BY <2>2, PairsNext
  <2>4. Series!Count(inp.series[m + 1], "nonfinite") \in Nat
    <3>1. m + 1 \in 1..Len(inp.series) BY <2>1, <2>2
    <3>2. inp.series[m + 1] \in Seq([at : Int, type : STRING, value : Int]) BY <3>1, SeriesInputFacts
    <3>3. IsFiniteSet(OfType(inp.series[m + 1], "nonfinite")) BY <3>2, DecodedFacts
    <3>4. Series!Count(inp.series[m + 1], "nonfinite") = Cardinality(OfType(inp.series[m + 1], "nonfinite"))
      BY SeriesCardinality DEF Series!Count, OfType
    <3> QED BY <3>3, <3>4, FS_CardinalityType
  <2> QED BY <1>1, <2>2, <2>3, <2>4 DEF DroppedOf
<1> QED BY <1>2, <1>3, <1>4

LEMMA SingleStageRun ==
  ASSUME Series!SeriesConstants, SeriesRun, Series!SingleStage
  PROVE  SeriesRun'
<1>1. /\ input \in SeriesInputs /\ input' = input /\ Reading(input, call) /\ call.read = Len(input.series)
      /\ ~ Series!IsTwoStage(call.spec)
      /\ call' = [pc |-> "done", series |-> call.series, warnings |-> call.warnings]
      /\ answer' = [kind |-> "series", result |-> call.series, spec |-> call.spec,
                    request |-> call.request, warnings |-> call'.warnings]
  BY DEF SeriesRun, Series!SingleStage, Series!Reply
<1>2. /\ call'.pc = "done" /\ answer'.kind = "series" /\ answer'.result = call.series /\ answer'.spec = call.spec
      /\ answer'.request = call.request /\ answer'.warnings = call.warnings
  BY <1>1
<1>3. Asked(input, call) BY <1>1 DEF Reading
<1>4. Exact(input, answer') BY <1>1, <1>2, <1>3, ReadDone DEF Exact, Asked
<1> QED BY <1>1, <1>2, <1>4 DEF SeriesRun

LEMMA StartFoldRun ==
  ASSUME Series!SeriesConstants, SeriesRun, Series!StartFold
  PROVE  SeriesRun'
<1> DEFINE f == KeptOf(input)  n == Len(call.series)
           B == UNION {DOMAIN call.series[i] : i \in DOMAIN call.series}
<1>1. /\ input \in SeriesInputs /\ input' = input /\ answer' = answer /\ Reading(input, call) /\ call.read = Len(input.series)
      /\ Series!IsTwoStage(call.spec) /\ (answer.kind = "series" => Exact(input, answer))
  BY DEF SeriesRun, Series!StartFold
<1>2. PICK w : w = [call.warnings EXCEPT !.groupCount = n, !.singleGroup = (n = 1)] OBVIOUS
<1>3. call' = [pc |-> "fold", spec |-> call.spec, request |-> call.request, series |-> call.series,
               warnings |-> w, left |-> B, points |-> <<>>,
               carried |-> [i \in {} |-> 0], streak |-> [i \in 1..n |-> 0], departed |-> {}]
  BY <1>2 DEF Series!StartFold
<1> HIDE DEF B
<1>4. /\ DOMAIN call' = FoldFields /\ call'.pc = "fold" /\ call'.spec = call.spec /\ call'.request = call.request
      /\ call'.series = call.series /\ call'.warnings = w /\ call'.left = B /\ call'.points = <<>>
      /\ call'.carried = [i \in {} |-> 0] /\ call'.streak = [i \in 1..n |-> 0] /\ call'.departed = {}
  BY <1>3 DEF FoldFields
<1>5. /\ DOMAIN call.warnings = WarningFields /\ Asked(input, call)
      /\ \A x \in {"carryForward", "departedBuckets", "departedSeries"} : call.warnings[x] = 0
  BY <1>1 DEF Reading
<1>6. /\ DOMAIN w = WarningFields /\ w.groupCount = n /\ w.singleGroup = (n = 1)
      /\ \A x \in {"unsupported", "nonFinite", "truncated", "carryForward", "departedBuckets", "departedSeries"} :
           w[x] = call.warnings[x]
  BY <1>2, <1>5 DEF WarningFields
<1>7. /\ call.series = f /\ n = KeptN(input)
      /\ call.warnings.truncated = (Len(input.series) > MaxTimeSeries)
      /\ call.warnings.unsupported = DroppedOf(input, "other") /\ call.warnings.nonFinite = DroppedOf(input, "nonfinite")
  BY <1>1, ReadDone
<1>8. Groups(f) /\ DOMAIN f = 1..KeptN(input) BY <1>1, KeptGroups
<1>9. B = Buckets(f) BY <1>7 DEF Buckets, B
<1>10. KeptN(input) \in Nat /\ MaxCarryForwardBuckets \in Nat BY <1>1, SeriesInputFacts
<1> HIDE DEF n, f
<1>11. Buckets(f) \ B = {} BY <1>9
<1>12. Carrying(f, {}, call'.carried, call'.streak)
  <2>1. DOMAIN call'.carried = {} /\ DOMAIN call'.streak = DOMAIN f BY <1>4, <1>7, <1>8
  <2> QED BY <2>1 DEF Carrying
<1>13. DroppedOf(input, "nonfinite") \in Nat BY <1>1, DroppedNat
<1>14. Folding(input, call')
  <2>1. PICK c : c = call' OBVIOUS
  <2>2. PICK done : done = Buckets(f) \ c.left OBVIOUS
  <2>3. PICK across : across = c.spec.across OBVIOUS
  <2>4. done = {} BY <1>4, <1>11, <2>1, <2>2
  <2>5. /\ DOMAIN c = FoldFields /\ DOMAIN c.warnings = WarningFields
        /\ Asked(input, c) /\ Series!IsTwoStage(c.spec)
        /\ c.series = f /\ c.left \subseteq Buckets(f) /\ (\A a \in done, b \in c.left : a < b)
    BY <1>1, <1>4, <1>5, <1>6, <1>7, <1>9, <2>1, <2>4 DEF Asked
  <2>6. Carrying(f, done, c.carried, c.streak) BY <1>12, <2>1, <2>4
  <2>7. c.departed = Gone(f, done) /\ c.departed = {} BY <1>4, <2>1, <2>4 DEF Gone
  <2>8. Cardinality({}) = 0 /\ \A X : Cardinality(done \intersect X) = 0
    <3>1. \A X : done \intersect X = {} BY <2>4
    <3> QED BY <3>1, FS_EmptySet
  <2>9. PointsOf(f, across, done, c.points)
    <3>1. c.points = <<>> /\ Len(c.points) = 0 /\ 1..Len(c.points) = {} BY <1>4, <2>1
    <3>2. c.points \in Seq({Point(f, at, across) : at \in Buckets(f)}) BY <3>1
    <3> QED BY <2>4, <2>8, <3>1, <3>2 DEF PointsOf
  <2>10. /\ c.warnings.truncated = (Len(input.series) > MaxTimeSeries)
         /\ c.warnings.unsupported = DroppedOf(input, "other")
         /\ c.warnings.nonFinite = DroppedOf(input, "nonfinite") + 0
         /\ c.warnings.departedBuckets = 0 /\ c.warnings.carryForward = 0 /\ c.warnings.departedSeries = 0
         /\ c.warnings.groupCount = KeptN(input) /\ c.warnings.singleGroup = (KeptN(input) = 1)
    BY <1>4, <1>5, <1>6, <1>7, <1>13, <2>1
  <2>11. FoldState(input, f, done, across, c)
    BY <2>5, <2>6, <2>7, <2>8, <2>9, <2>10 DEF FoldState
  <2> QED BY <2>1, <2>2, <2>3, <2>11 DEF Folding, f
<1> QED BY <1>1, <1>4, <1>14 DEF SeriesRun

(* A bucket more to count, and a point more in the folded series.          *)
CountIs(done, at, X) ==
  /\ Cardinality(done \intersect X) \in Nat
  /\ Cardinality((done \union {at}) \intersect X)
       = IF at \in X THEN Cardinality(done \intersect X) + 1 ELSE Cardinality(done \intersect X)

LEMMA CountNext ==
  ASSUME NEW done, IsFiniteSet(done), NEW at, at \notin done, NEW X
  PROVE  CountIs(done, at, X)
<1> DEFINE A == done \intersect X
<1>1. IsFiniteSet(A) /\ at \notin A BY FS_Subset
<1>2. (done \union {at}) \intersect X = IF at \in X THEN A \union {at} ELSE A OBVIOUS
<1> HIDE DEF A
<1>3. Cardinality(A) \in Nat BY <1>1, FS_CardinalityType
<1>4. Cardinality(A \union {at}) = Cardinality(A) + 1 BY <1>1, FS_AddElement
<1> QED BY <1>2, <1>3, <1>4 DEF A, CountIs

LEMMA PointsNext ==
  ASSUME NEW f, NEW across, Buckets(f) \subseteq Int, NEW done, done \subseteq Buckets(f), IsFiniteSet(done),
         NEW q, PointsOf(f, across, done, q),
         NEW at \in GoodSet(f, across), \A b \in done : b < at, at \notin done
  PROVE  PointsOf(f, across, done \union {at}, Append(q, Point(f, at, across)))
<1>0. PICK r : r = Append(q, Point(f, at, across)) OBVIOUS
<1>14. /\ q \in Seq({Point(f, a, across) : a \in Buckets(f)}) /\ at \in Buckets(f)
       /\ {q[k] : k \in 1..Len(q)} = {Point(f, a, across) : a \in done \intersect GoodSet(f, across)}
       /\ \A j, k \in 1..Len(q) : j < k => q[j].at < q[k].at
       /\ Len(q) = Cardinality(done \intersect GoodSet(f, across))
  BY DEF PointsOf, GoodSet
<1> DEFINE S == {Point(f, a, across) : a \in Buckets(f)}  p == Point(f, at, across)  G == GoodSet(f, across)
<1>1. p \in S /\ \A a : Point(f, a, across).at = a BY <1>14 DEF Point
<1>2. q \in Seq(S) /\ r = Append(q, p) BY <1>0, <1>14
<1>3. p.at = at BY <1>1
<1>4. \A k \in 1..Len(q) : q[k].at \in done /\ q[k].at < at
  <2>1. \A k \in 1..Len(q) : \E a \in done : q[k] = Point(f, a, across) BY <1>14
  <2> QED BY <1>1, <2>1
<1>5. at \in Int /\ \A b \in done : b \in Int BY <1>14
<1>6. {q[k] : k \in 1..Len(q)} = {Point(f, a, across) : a \in done \intersect G} BY <1>14
<1>7. (done \union {at}) \intersect G = (done \intersect G) \union {at} OBVIOUS
<1> HIDE DEF S, G
<1>8. /\ r \in Seq(S) /\ Len(r) = Len(q) + 1 /\ Len(q) \in Nat
      /\ (\A k \in 1..Len(q) : r[k] = q[k]) /\ r[Len(q) + 1] = p
  <2> HIDE DEF p
  <2> QED BY <1>1, <1>2, AppendProperties
<1>9. 1..Len(r) = 1..Len(q) \union {Len(q) + 1} BY <1>8
<1>10. {r[k] : k \in 1..Len(r)} = {q[k] : k \in 1..Len(q)} \union {p}
  <2>1. ASSUME NEW k \in 1..Len(r) PROVE r[k] \in {q[j] : j \in 1..Len(q)} \union {p}
    <3>1. CASE k \in 1..Len(q) BY <1>8, <3>1
    <3>2. CASE k = Len(q) + 1 BY <1>8, <3>2
    <3> QED BY <1>9, <3>1, <3>2
  <2>2. \A k \in 1..Len(q) : q[k] = r[k] /\ k \in 1..Len(r) BY <1>8, <1>9
  <2>3. p = r[Len(q) + 1] /\ Len(q) + 1 \in 1..Len(r) BY <1>8, <1>9
  <2> HIDE DEF p
  <2> QED BY ONLY Zenon, <2>1, <2>2, <2>3
<1>11. {r[k] : k \in 1..Len(r)} = {Point(f, a, across) : a \in (done \union {at}) \intersect G}
  BY ONLY Zenon, <1>6, <1>7, <1>10
<1>12. ASSUME NEW j \in 1..Len(r), NEW k \in 1..Len(r), j < k PROVE r[j].at < r[k].at
  <2>1. j \in 1..Len(q) BY <1>8, <1>12
  <2>2. CASE k \in 1..Len(q) BY <1>14, <1>8, <1>12, <2>1, <2>2
  <2>3. CASE k = Len(q) + 1 BY <1>3, <1>4, <1>8, <2>1, <2>3
  <2> QED BY <1>9, <2>2, <2>3
<1>13. Len(r) = Cardinality((done \union {at}) \intersect G)
  <2>1. at \in G /\ Len(q) = Cardinality(done \intersect G) BY <1>14 DEF G
  <2>2. CountIs(done, at, G) BY CountNext
  <2> QED BY <1>8, <2>1, <2>2 DEF CountIs
<1> QED BY <1>0, <1>8, <1>11, <1>12, <1>13 DEF S, G, PointsOf

LEMMA FinishFoldRun ==
  ASSUME Series!SeriesConstants, SeriesRun, Series!FinishFold
  PROVE  SeriesRun'
<1> DEFINE f == KeptOf(input)  across == call.spec.across
<1>1. /\ input \in SeriesInputs /\ input' = input /\ Folding(input, call) /\ call.left = {}
      /\ call' = [pc |-> "done", series |-> call.series,
                  warnings |-> [call.warnings EXCEPT !.totalBuckets = Len(call.points)]]
      /\ answer' = [kind |-> "series", result |-> call.points, spec |-> call.spec,
                    request |-> call.request, warnings |-> call'.warnings]
  BY DEF SeriesRun, Series!FinishFold, Series!Reply
<1>2. PICK w : w = [call.warnings EXCEPT !.totalBuckets = Len(call.points)] OBVIOUS
<1>3. /\ call'.pc = "done" /\ answer'.kind = "series" /\ answer'.result = call.points /\ answer'.spec = call.spec
      /\ answer'.request = call.request /\ answer'.warnings = w
  BY <1>1, <1>2
<1>4. PICK done : done = Buckets(f) \ call.left OBVIOUS
<1>5. /\ DOMAIN call.warnings = WarningFields
      /\ Asked(input, call) /\ Series!IsTwoStage(call.spec)
      /\ call.departed = Gone(f, done)
      /\ PointsOf(f, across, done, call.points)
      /\ call.warnings.truncated = (Len(input.series) > MaxTimeSeries)
      /\ call.warnings.unsupported = DroppedOf(input, "other")
      /\ call.warnings.nonFinite = DroppedOf(input, "nonfinite") + Cardinality(done \intersect LostSet(f, across))
      /\ call.warnings.departedBuckets = Cardinality(done \intersect DepartedSet(f, across))
      /\ call.warnings.carryForward = Cardinality(done \intersect CarriedSet(f, across))
      /\ call.warnings.departedSeries = Cardinality(call.departed)
      /\ call.warnings.groupCount = KeptN(input) /\ call.warnings.singleGroup = (KeptN(input) = 1)
  BY <1>1, <1>4 DEF Folding, FoldState
<1>11. /\ call.points \in Seq({Point(f, at, across) : at \in Buckets(f)})
       /\ {call.points[k] : k \in 1..Len(call.points)} = {Point(f, at, across) : at \in done \intersect GoodSet(f, across)}
       /\ \A j, k \in 1..Len(call.points) : j < k => call.points[j].at < call.points[k].at
       /\ Len(call.points) = Cardinality(done \intersect GoodSet(f, across))
  BY <1>5 DEF PointsOf
<1>6. /\ done = Buckets(f)
      /\ done \intersect GoodSet(f, across) = GoodSet(f, across)
      /\ done \intersect LostSet(f, across) = LostSet(f, across)
      /\ done \intersect DepartedSet(f, across) = DepartedSet(f, across)
      /\ done \intersect CarriedSet(f, across) = CarriedSet(f, across)
  BY <1>1, <1>4 DEF GoodSet, LostSet, DepartedSet, CarriedSet
<1>7. /\ w.totalBuckets = Len(call.points)
      /\ \A x \in WarningFields \ {"totalBuckets"} : w[x] = call.warnings[x]
  BY <1>2, <1>5 DEF WarningFields
<1>8. /\ w.truncated = call.warnings.truncated /\ w.unsupported = call.warnings.unsupported
      /\ w.nonFinite = call.warnings.nonFinite /\ w.departedBuckets = call.warnings.departedBuckets
      /\ w.carryForward = call.warnings.carryForward /\ w.departedSeries = call.warnings.departedSeries
      /\ w.groupCount = call.warnings.groupCount /\ w.singleGroup = call.warnings.singleGroup
  BY <1>7 DEF WarningFields
<1>9. DOMAIN call.points = 1..Len(call.points)
  <2> DEFINE S == {Point(f, at, across) : at \in Buckets(f)}
  <2>1. call.points \in Seq(S) BY <1>11
  <2> HIDE DEF S
  <2> QED BY <2>1
<1> HIDE DEF f, across
<1>10. Exact(input, answer')
  <2>1. PICK ans : ans = answer' OBVIOUS
  <2>2. /\ ans.spec.across = across /\ ans.spec = call.spec /\ ans.request = call.request /\ ans.result = call.points
        /\ ans.warnings = w
    BY <1>3, <2>1 DEF across
  <2>3. Series!Valid(ans.spec) /\ ans.request = Series!BuildAggregatedParams(input.metric, ans.spec) /\ Series!IsTwoStage(ans.spec)
    BY <1>5, <2>2 DEF Asked
  <2>4. /\ w.truncated = (Len(input.series) > MaxTimeSeries)
        /\ w.unsupported = DroppedOf(input, "other")
    BY <1>5, <1>8
  <2>5. /\ {ans.result[k] : k \in DOMAIN ans.result} = {Point(f, at, across) : at \in GoodSet(f, across)}
        /\ \A j, k \in DOMAIN ans.result : j < k => ans.result[j].at < ans.result[k].at
    <3>1. {call.points[k] : k \in 1..Len(call.points)} = {Point(f, at, across) : at \in done \intersect GoodSet(f, across)}
      BY ONLY Zenon, <1>11
    <3>2. \A j, k \in 1..Len(call.points) : j < k => call.points[j].at < call.points[k].at
      BY ONLY Zenon, <1>11
    <3>3. ans.result = call.points /\ done \intersect GoodSet(f, across) = GoodSet(f, across) BY <1>6, <2>2
    <3> QED BY ONLY Zenon, <1>9, <3>1, <3>2, <3>3
  <2>6. /\ w.nonFinite = DroppedOf(input, "nonfinite") + Cardinality(LostSet(f, across))
        /\ w.departedBuckets = Cardinality(DepartedSet(f, across))
        /\ w.carryForward = Cardinality(CarriedSet(f, across))
        /\ w.departedSeries = Cardinality(Gone(f, Buckets(f)))
        /\ w.totalBuckets = Cardinality(GoodSet(f, across)) /\ w.groupCount = KeptN(input)
        /\ w.singleGroup = (KeptN(input) = 1)
    BY <1>5, <1>6, <1>7, <1>8, <1>11
  <2>7. Exact(input, ans) BY ONLY Zenon, <2>2, <2>3, <2>4, <2>5, <2>6 DEF Exact, f
  <2> QED BY <2>1, <2>7
<1> QED BY <1>1, <1>3, <1>10 DEF SeriesRun

LEMMA FoldBucketRun ==
  ASSUME Series!SeriesConstants, SeriesRun, Series!FoldBucket
  PROVE  SeriesRun'
<1> DEFINE count(n, counted) == IF counted THEN n + 1 ELSE n
<1>1. PICK f : f = KeptOf(input) OBVIOUS
<1>2. PICK across : across = call.spec.across OBVIOUS
<1>3. /\ input \in SeriesInputs /\ input' = input /\ answer' = answer /\ call.pc = "fold" /\ Folding(input, call)
      /\ (answer.kind = "series" => Exact(input, answer))
  BY DEF SeriesRun, Series!FoldBucket
<1>4. Groups(f) /\ MaxCarryForwardBuckets \in Nat /\ IsFiniteSet(Buckets(f)) /\ Buckets(f) \subseteq Int
  BY <1>1, <1>3, KeptGroups, SeriesInputFacts, BucketsAreFinite
<1>5. PICK done : done = Buckets(f) \ call.left OBVIOUS
<1>6. FoldState(input, f, done, across, call) BY <1>1, <1>2, <1>3, <1>5 DEF Folding
<1>7. /\ DOMAIN call = FoldFields /\ DOMAIN call.warnings = WarningFields
      /\ Asked(input, call) /\ Series!IsTwoStage(call.spec)
      /\ call.series = f /\ call.left \subseteq Buckets(f) /\ (\A a \in done, b \in call.left : a < b)
      /\ Carrying(f, done, call.carried, call.streak)
      /\ call.departed = Gone(f, done) /\ PointsOf(f, across, done, call.points)
  BY <1>6 DEF FoldState
<1>8. /\ call.warnings.truncated = (Len(input.series) > MaxTimeSeries)
      /\ call.warnings.unsupported = DroppedOf(input, "other")
      /\ call.warnings.nonFinite = DroppedOf(input, "nonfinite") + Cardinality(done \intersect LostSet(f, across))
      /\ call.warnings.departedBuckets = Cardinality(done \intersect DepartedSet(f, across))
      /\ call.warnings.carryForward = Cardinality(done \intersect CarriedSet(f, across))
      /\ call.warnings.groupCount = KeptN(input) /\ call.warnings.singleGroup = (KeptN(input) = 1)
  BY <1>6 DEF FoldState
<1> DEFINE Fresh(at) == {i \in DOMAIN call.series : at \in DOMAIN call.series[i]}
           Silent(at) == DOMAIN call.carried \ Fresh(at)
           Leaving(at) == {i \in Silent(at) : call.streak[i] >= MaxCarryForwardBuckets}
           Present(at) == Fresh(at) \union (Silent(at) \ Leaving(at))
           NextOf(at) == [i \in DOMAIN call.carried \union Fresh(at) |->
                            IF i \in Fresh(at) THEN call.series[i][at] ELSE call.carried[i]]
           Value(at) == Series!ApplyReducer([i \in Present(at) |-> NextOf(at)[i]], call.spec.across)
           Kept(at) == Present(at) # {} /\ Series!Finite(Value(at))
           PointsAfter(at) == IF Kept(at) THEN Append(call.points, [at |-> at, value |-> Value(at)]) ELSE call.points
           StreakAfter(at) == Series!Streaks(call.streak, Fresh(at), Present(at))
           DepartedCount(at) == Series!Cardinality(call.departed \union Leaving(at))
           LostNow(at) == Present(at) # {} /\ ~ Kept(at)
           DepartedNow(at) == Kept(at) /\ Leaving(at) # {}
           CarriedNow(at) == Kept(at) /\ Leaving(at) = {} /\ Silent(at) # {}
<1>9. PICK at \in call.left :
        /\ \A b \in call.left : at <= b
        /\ call' = [call EXCEPT
             !.left = @ \ {at}, !.carried = NextOf(at), !.streak = StreakAfter(at),
             !.departed = @ \union Leaving(at), !.points = PointsAfter(at),
             !.warnings.departedSeries = DepartedCount(at),
             !.warnings.nonFinite = count(@, LostNow(at)),
             !.warnings.departedBuckets = count(@, DepartedNow(at)),
             !.warnings.carryForward = count(@, CarriedNow(at))]
  BY ONLY Series!FoldBucket DEF Series!FoldBucket
<1>10. \A b \in call.left : at <= b BY <1>9
<1> DEFINE fresh == Fresh(at)  silent == Silent(at)  gone == Leaving(at)  present == Present(at)  next == NextOf(at)
           value == Value(at)  kept == Kept(at)  q == PointsAfter(at)
<1>11. /\ fresh = {i \in DOMAIN call.series : at \in DOMAIN call.series[i]}
       /\ silent = DOMAIN call.carried \ fresh
       /\ gone = {i \in silent : call.streak[i] >= MaxCarryForwardBuckets}
       /\ present = fresh \union (silent \ gone)
       /\ next = [i \in DOMAIN call.carried \union fresh |-> IF i \in fresh THEN call.series[i][at] ELSE call.carried[i]]
  OBVIOUS
<1>12. /\ value = Series!ApplyReducer([i \in present |-> next[i]], call.spec.across)
       /\ kept = (present # {} /\ Series!Finite(value))
       /\ q = IF kept THEN Append(call.points, [at |-> at, value |-> value]) ELSE call.points
       /\ StreakAfter(at) = Series!Streaks(call.streak, fresh, present)
       /\ DepartedCount(at) = Series!Cardinality(call.departed \union gone)
       /\ LostNow(at) <=> present # {} /\ ~ kept
       /\ DepartedNow(at) <=> kept /\ gone # {}
       /\ CarriedNow(at) <=> kept /\ gone = {} /\ silent # {}
       /\ kept \in BOOLEAN
  BY Zenon
<1> HIDE DEF count, Fresh, Silent, Leaving, Present, NextOf, Value, Kept, PointsAfter, StreakAfter, DepartedCount, LostNow,
             DepartedNow, CarriedNow, fresh, silent, gone, present, next, value, kept, q
<1>20. PICK w : w = [call.warnings EXCEPT
         !.departedSeries = DepartedCount(at), !.nonFinite = count(@, LostNow(at)),
         !.departedBuckets = count(@, DepartedNow(at)), !.carryForward = count(@, CarriedNow(at))]
  OBVIOUS
<1>21. /\ DOMAIN call' = FoldFields /\ call'.pc = call.pc /\ call'.spec = call.spec /\ call'.request = call.request
       /\ call'.series = call.series /\ call'.left = call.left \ {at} /\ call'.carried = next /\ call'.streak = StreakAfter(at)
       /\ call'.departed = call.departed \union gone /\ call'.points = q /\ call'.warnings = w
  <2>1. call'.warnings = w BY <1>7, <1>9, <1>20 DEF FoldFields, WarningFields
  <2>2. call'.points = q /\ call'.carried = next /\ call'.departed = call.departed \union gone
    BY <1>7, <1>9 DEF FoldFields, q, next, gone
  <2> QED BY <1>7, <1>9, <2>1, <2>2 DEF FoldFields
<1>22. /\ DOMAIN w = WarningFields /\ w.departedSeries = Cardinality(call.departed \union gone)
       /\ w.nonFinite = count(call.warnings.nonFinite, LostNow(at))
       /\ w.departedBuckets = count(call.warnings.departedBuckets, DepartedNow(at))
       /\ w.carryForward = count(call.warnings.carryForward, CarriedNow(at))
       /\ \A x \in {"truncated", "unsupported", "groupCount", "singleGroup"} : w[x] = call.warnings[x]
  BY <1>7, <1>12, <1>20, SeriesCardinality DEF WarningFields
<1>23. NextBucket(f, call.left, at) BY <1>4, <1>5, <1>7, <1>10 DEF NextBucket
<1>24. Carrying(f, Buckets(f) \ call.left, call.carried, call.streak) BY <1>5, <1>7
<1>25. /\ DepartedAt(f, at) = gone /\ CountedAt(f, at) = present /\ CarriedAt(f, at) = silent \ gone
       /\ [i \in present |-> next[i]] = [i \in CountedAt(f, at) |-> f[i][LastOf(f, i, at)]]
       /\ Carrying(f, Buckets(f) \ (call.left \ {at}), next, Series!Streaks(call.streak, fresh, present))
  <2>1. PICK g : g = call.series OBVIOUS
  <2>2. g = f BY <1>7, <2>1
  <2>3. /\ Groups(g) /\ NextBucket(g, call.left, at) /\ Carrying(g, Buckets(g) \ call.left, call.carried, call.streak)
    BY <1>4, <1>23, <1>24, <2>2
  <2>4. /\ DepartedAt(g, at) = gone /\ CountedAt(g, at) = present /\ CarriedAt(g, at) = silent \ gone
        /\ [i \in present |-> next[i]] = [i \in CountedAt(g, at) |-> g[i][LastOf(g, i, at)]]
        /\ Carrying(g, Buckets(g) \ (call.left \ {at}), next, Series!Streaks(call.streak, fresh, present))
    <3>1. FoldedGroups(g, call.left, at, call.carried, call.streak) BY <1>4, <2>3, FoldedNext
    <3> QED BY <3>1, <2>1 DEF FoldedGroups, fresh, silent, gone, present, next, Fresh, Silent, Leaving, Present, NextOf
  <2> QED BY ONLY Zenon, <2>2, <2>4
<1>26. PICK more : more = Buckets(f) \ call'.left OBVIOUS
<1>27. /\ more = done \union {at} /\ at \notin done /\ at \in Buckets(f) /\ IsFiniteSet(done) /\ done \subseteq Buckets(f)
       /\ call'.left \subseteq Buckets(f) /\ (\A b \in done : b < at)
  BY <1>4, <1>5, <1>7, <1>10, <1>21, <1>23, <1>26, FS_Subset DEF NextBucket
<1>28. \A a \in more, b \in call'.left : a < b
  <2>1. \A b \in call'.left : at < b BY <1>4, <1>7, <1>10, <1>21
  <2>2. \A a \in done, b \in call'.left : a < b BY <1>7, <1>21
  <2> QED BY <1>27, <2>1, <2>2
<1>29. value = FoldedAt(f, at, across) BY <1>2, <1>12, <1>25 DEF FoldedAt
<1>30. /\ kept <=> at \in GoodSet(f, across)
       /\ LostNow(at) <=> at \in LostSet(f, across)
       /\ DepartedNow(at) <=> at \in DepartedSet(f, across)
       /\ CarriedNow(at) <=> at \in CarriedSet(f, across)
  <2>1. kept \in BOOLEAN /\ (kept <=> present # {} /\ Series!Finite(value)) BY <1>12
  <2>2. kept <=> at \in GoodSet(f, across) BY <1>25, <1>27, <1>29, <2>1 DEF GoodSet, GoodAt
  <2>3. (present # {} /\ ~ kept) <=> at \in LostSet(f, across) BY <1>25, <1>27, <1>29, <2>1 DEF LostSet, LostAt
  <2>4. (kept /\ gone # {}) <=> at \in DepartedSet(f, across) BY <1>25, <2>2 DEF DepartedSet
  <2>5. gone = {} => (silent # {} <=> silent \ gone # {}) OBVIOUS
  <2>6. (kept /\ gone = {} /\ silent # {}) <=> at \in CarriedSet(f, across) BY <1>25, <2>2, <2>5 DEF CarriedSet
  <2> QED BY <1>12, <2>2, <2>3, <2>4, <2>6
<1>31. /\ w.nonFinite = DroppedOf(input, "nonfinite") + Cardinality(more \intersect LostSet(f, across))
       /\ w.departedBuckets = Cardinality(more \intersect DepartedSet(f, across))
       /\ w.carryForward = Cardinality(more \intersect CarriedSet(f, across))
  <2>1. \A X : /\ Cardinality(done \intersect X) \in Nat
               /\ Cardinality(more \intersect X) = IF at \in X THEN Cardinality(done \intersect X) + 1
                                                   ELSE Cardinality(done \intersect X)
    <3>1. \A X : CountIs(done, at, X) BY <1>27, CountNext
    <3> QED BY <1>27, <3>1 DEF CountIs
  <2>2. DroppedOf(input, "nonfinite") \in Nat BY <1>3, DroppedNat
  <2>3. w.nonFinite = DroppedOf(input, "nonfinite") + Cardinality(more \intersect LostSet(f, across))
    <3> DEFINE X == LostSet(f, across)  n == Cardinality(done \intersect X)
    <3>1. n \in Nat /\ Cardinality(more \intersect X) = IF at \in X THEN n + 1 ELSE n BY <2>1
    <3>2. call.warnings.nonFinite = DroppedOf(input, "nonfinite") + n BY <1>8
    <3> HIDE DEF X, n
    <3>3. CASE at \in X BY <1>22, <1>30, <2>2, <3>1, <3>2, <3>3 DEF count, X
    <3>4. CASE at \notin X BY <1>22, <1>30, <2>2, <3>1, <3>2, <3>4 DEF count, X
    <3> QED BY <3>3, <3>4 DEF X
  <2>4. w.departedBuckets = Cardinality(more \intersect DepartedSet(f, across))
    <3> DEFINE X == DepartedSet(f, across)  n == Cardinality(done \intersect X)
    <3>1. n \in Nat /\ Cardinality(more \intersect X) = IF at \in X THEN n + 1 ELSE n BY <2>1
    <3>2. call.warnings.departedBuckets = n BY <1>8
    <3> HIDE DEF X, n
    <3>3. CASE at \in X BY <1>22, <1>30, <3>1, <3>2, <3>3 DEF count, X
    <3>4. CASE at \notin X BY <1>22, <1>30, <3>1, <3>2, <3>4 DEF count, X
    <3> QED BY <3>3, <3>4 DEF X
  <2>5. w.carryForward = Cardinality(more \intersect CarriedSet(f, across))
    <3> DEFINE X == CarriedSet(f, across)  n == Cardinality(done \intersect X)
    <3>1. n \in Nat /\ Cardinality(more \intersect X) = IF at \in X THEN n + 1 ELSE n BY <2>1
    <3>2. call.warnings.carryForward = n BY <1>8
    <3> HIDE DEF X, n
    <3>3. CASE at \in X BY <1>22, <1>30, <3>1, <3>2, <3>3 DEF count, X
    <3>4. CASE at \notin X BY <1>22, <1>30, <3>1, <3>2, <3>4 DEF count, X
    <3> QED BY <3>3, <3>4 DEF X
  <2> QED BY <2>3, <2>4, <2>5
<1>32. call'.departed = Gone(f, more)
  <2>1. Gone(f, done \union {at}) = Gone(f, done) \union DepartedAt(f, at) BY DEF Gone
  <2> QED BY <1>7, <1>21, <1>25, <1>27, <2>1
<1>33. PointsOf(f, across, more, q)
  <2>1. CASE kept
    <3>1. at \in GoodSet(f, across) /\ q = Append(call.points, Point(f, at, across))
      BY <1>12, <1>29, <1>30, <2>1 DEF Point
    <3>2. PointsOf(f, across, done \union {at}, Append(call.points, Point(f, at, across)))
      BY <1>4, <1>7, <1>27, <3>1, PointsNext
    <3> QED BY <1>27, <3>1, <3>2
  <2>2. CASE ~ kept
    <3>1. at \notin GoodSet(f, across) /\ q = call.points BY <1>12, <1>30, <2>2
    <3>2. more \intersect GoodSet(f, across) = done \intersect GoodSet(f, across) BY <1>27, <3>1
    <3>3. PointsOf(f, across, done, call.points) BY <1>7
    <3> QED BY ONLY Zenon, <3>1, <3>2, <3>3 DEF PointsOf
  <2> QED BY <2>1, <2>2
<1>34. Folding(input, call')
  <2>1. PICK c : c = call' OBVIOUS
  <2>2. /\ DOMAIN c = FoldFields /\ DOMAIN c.warnings = WarningFields /\ Asked(input, c) /\ Series!IsTwoStage(c.spec)
        /\ c.series = f /\ c.left \subseteq Buckets(f) /\ (\A a \in more, b \in c.left : a < b)
    BY <1>7, <1>21, <1>22, <1>27, <1>28, <2>1 DEF Asked
  <2>3. Carrying(f, more, c.carried, c.streak) BY <1>12, <1>21, <1>25, <1>26, <2>1
  <2>4. /\ c.departed = Gone(f, more) /\ c.points = q /\ c.warnings = w BY <1>21, <1>32, <2>1
  <2>5. /\ w.truncated = (Len(input.series) > MaxTimeSeries)
        /\ w.unsupported = DroppedOf(input, "other")
        /\ w.groupCount = KeptN(input) /\ w.singleGroup = (KeptN(input) = 1)
    BY <1>8, <1>22
  <2>6. w.departedSeries = Cardinality(c.departed) BY <1>21, <1>22, <2>1
  <2>7. PointsOf(f, across, more, c.points) BY <1>33, <2>4
  <2>8. FoldState(input, f, more, across, c)
    BY ONLY <1>31, <2>2, <2>3, <2>4, <2>5, <2>6, <2>7 DEF FoldState
  <2>9. across = c.spec.across /\ more = Buckets(f) \ c.left BY <1>2, <1>21, <1>26, <2>1
  <2> QED BY ONLY <1>1, <2>1, <2>8, <2>9 DEF Folding
<1> QED BY <1>3, <1>21, <1>34 DEF SeriesRun

LEMMA SeriesStep ==
  ASSUME Series!SeriesConstants, SeriesRun, Series!Next \/ UNCHANGED Series!vars
  PROVE  SeriesRun'
<1>1. CASE Series!Ask BY <1>1, AskRun
<1>2. CASE Series!ReadSeries BY <1>2, ReadSeriesRun
<1>3. CASE Series!ReadFails
  BY <1>3 DEF Series!ReadFails, Series!Idle, SeriesRun
<1>4. CASE Series!SingleStage BY <1>4, SingleStageRun
<1>5. CASE Series!StartFold BY <1>5, StartFoldRun
<1>6. CASE Series!FoldBucket BY <1>6, FoldBucketRun
<1>7. CASE Series!FinishFold BY <1>7, FinishFoldRun
<1>8. CASE Series!Again
  BY <1>8 DEF Series!Again, Series!Idle, Series!NoAnswer, SeriesRun
<1>9. CASE UNCHANGED Series!vars
  BY <1>9 DEF Series!vars, SeriesRun
<1> QED BY <1>1, <1>2, <1>3, <1>4, <1>5, <1>6, <1>7, <1>8, <1>9 DEF Series!Next

-----------------------------------------------------------------------------
(* LogScans.  The operators of the instance are the library's.             *)
LEMMA ScansSame ==
  /\ \A S : Scans!Cardinality(S) = Cardinality(S)
  /\ \A f : Scans!Range(f) = {f[x] : x \in DOMAIN f}
  BY DEF Scans!Cardinality, Cardinality, Scans!Range

(* A sort puts the members of a set in order: ahead[x] come before x.      *)
Sorts(ahead) ==
  /\ IsFiniteSet(DOMAIN ahead)
  /\ \A x \in DOMAIN ahead : ahead[x] \subseteq DOMAIN ahead /\ x \notin ahead[x]
  /\ \A x, y \in DOMAIN ahead :
       /\ x # y => x \in ahead[y] \/ y \in ahead[x]
       /\ x \in ahead[y] => ahead[x] \subseteq ahead[y]

(* How many are ahead tells them apart, so that each place is taken.       *)
LEMMA AheadPlaces ==
  ASSUME NEW ahead, Sorts(ahead)
  PROVE  /\ Cardinality(DOMAIN ahead) \in Nat
         /\ \A x \in DOMAIN ahead : Cardinality(ahead[x]) \in 0..(Cardinality(DOMAIN ahead) - 1)
         /\ \A x, y \in DOMAIN ahead : x \in ahead[y] <=> Cardinality(ahead[x]) < Cardinality(ahead[y])
         /\ \A x, y \in DOMAIN ahead : x # y => Cardinality(ahead[x]) # Cardinality(ahead[y])
         /\ \A k \in 0..(Cardinality(DOMAIN ahead) - 1) : \E x \in DOMAIN ahead : Cardinality(ahead[x]) = k
<1> DEFINE D == DOMAIN ahead  n == Cardinality(D)  place == [x \in D |-> Cardinality(ahead[x])]
<1>1. n \in Nat /\ IsFiniteSet(D) BY FS_CardinalityType DEF Sorts
<1>2. \A x \in D : ahead[x] \subseteq D /\ x \notin ahead[x] BY DEF Sorts
<1>3. \A x, y \in D : (x # y => x \in ahead[y] \/ y \in ahead[x]) /\ (x \in ahead[y] => ahead[x] \subseteq ahead[y])
  BY DEF Sorts
<1>4. ASSUME NEW x \in D PROVE IsFiniteSet(ahead[x]) /\ place[x] \in 0..(n - 1) /\ place[x] \in Nat
  <2>1. IsFiniteSet(ahead[x]) BY <1>1, <1>2, FS_Subset
  <2>2. IsFiniteSet(D \ {x}) /\ Cardinality(D \ {x}) = n - 1 BY <1>1, FS_RemoveElement
  <2>3. ahead[x] \subseteq D \ {x} BY <1>2
  <2>4. Cardinality(ahead[x]) \in Nat /\ Cardinality(ahead[x]) <= n - 1
    BY <2>1, <2>2, <2>3, FS_Subset, FS_CardinalityType
  <2> QED BY <1>1, <2>1, <2>4
<1>5. ASSUME NEW x \in D, NEW y \in D, x \in ahead[y] PROVE place[x] < place[y]
  <2>1. ahead[x] \subseteq ahead[y] /\ ahead[x] # ahead[y] BY <1>2, <1>3, <1>5
  <2> DEFINE A == ahead[x]  B == ahead[y]
  <2>2. /\ IsFiniteSet(A) /\ IsFiniteSet(B) /\ Cardinality(A) \in Nat /\ Cardinality(B) \in Nat
        /\ A \subseteq B /\ A # B
    BY <1>4, <2>1
  <2> HIDE DEF A, B
  <2>3. Cardinality(A) < Cardinality(B) BY <2>2, FS_Subset
  <2> QED BY <2>3 DEF A, B
<1>6. ASSUME NEW x \in D, NEW y \in D PROVE /\ x \in ahead[y] <=> place[x] < place[y]
                                            /\ x # y => place[x] # place[y]
  <2>1. x = y => x \notin ahead[y] BY <1>2
  <2>2. x # y => x \in ahead[y] \/ y \in ahead[x] BY <1>3
  <2>3. place[x] \in Nat /\ place[y] \in Nat BY <1>4
  <2>4. (x \in ahead[y] => place[x] < place[y]) /\ (y \in ahead[x] => place[y] < place[x]) BY <1>5
  <2> HIDE DEF place
  <2> QED BY <2>1, <2>2, <2>3, <2>4
<1>7. ASSUME NEW k \in 0..(n - 1), \A x \in D : place[x] # k PROVE FALSE
  <2> DEFINE S == 0..(n - 1)  T == S \ {k}
  <2>1. place \in [D -> T] BY <1>4, <1>7
  <2>2. IsFiniteSet(S) /\ Cardinality(S) = n BY <1>1, <1>7, FS_Interval
  <2>3. IsFiniteSet(T) /\ Cardinality(T) = n - 1 BY <1>7, <2>2, FS_RemoveElement
  <2>4. \E x, y \in D : x # y /\ place[x] = place[y]
    <3> HIDE DEF D, T, place
    <3>1. Cardinality(T) < Cardinality(D) BY <1>1, <2>3 DEF n
    <3> QED BY <1>1, <2>1, <2>3, <3>1, FS_PigeonHole
  <2> QED BY <1>6, <2>4
<1>8. \A x \in D : place[x] = Cardinality(ahead[x]) OBVIOUS
<1> HIDE DEF place
<1> QED BY <1>1, <1>4, <1>6, <1>7, <1>8

(* So the first ones, in order, are ahead of what a limit leaves out.      *)
FirstOf(ahead, limit, list) ==
  /\ Len(list) \in Nat /\ DOMAIN list = 1..Len(list) /\ Len(list) <= limit
  /\ \A k \in DOMAIN list : list[k] \in DOMAIN ahead
  /\ \A j, k \in DOMAIN list : j < k => list[j] \in ahead[list[k]]
  /\ \A x \in DOMAIN ahead \ Scans!Shown(list) : Len(list) = limit /\ \A k \in DOMAIN list : list[k] \in ahead[x]
  /\ (DOMAIN ahead \ Scans!Shown(list) # {}) = (Cardinality(DOMAIN ahead) > limit)

LEMMA RankedFirst ==
  ASSUME NEW ahead, Sorts(ahead), NEW limit \in Nat
  PROVE  FirstOf(ahead, limit, Scans!Ranked(ahead, limit))
<1> DEFINE D == DOMAIN ahead  n == Cardinality(D)  m == Scans!Least(n, limit)  list == Scans!Ranked(ahead, limit)
           P(x) == Cardinality(ahead[x])  At(k) == CHOOSE x \in D : P(x) = k - 1
<1>1. /\ n \in Nat
      /\ \A x \in D : P(x) \in 0..(n - 1)
      /\ \A x, y \in D : x \in ahead[y] <=> P(x) < P(y)
      /\ \A x, y \in D : x # y => P(x) # P(y)
      /\ \A k \in 0..(n - 1) : \E x \in D : P(x) = k
  <2>1. \A x \in D : P(x) \in 0..(n - 1) BY AheadPlaces
  <2>2. \A x, y \in D : x \in ahead[y] <=> P(x) < P(y) BY AheadPlaces
  <2>3. \A x, y \in D : x # y => P(x) # P(y) BY AheadPlaces
  <2>4. \A k \in 0..(n - 1) : \E x \in D : P(x) = k BY AheadPlaces
  <2>5. n \in Nat BY AheadPlaces
  <2> QED BY <2>1, <2>2, <2>3, <2>4, <2>5
<1>2. m \in Nat /\ m <= n /\ m <= limit /\ (m < n => m = limit) BY <1>1 DEF Scans!Least
<1>3. list = [k \in 1..m |-> At(k)] BY ScansSame DEF Scans!Ranked
<1>4. DOMAIN list = 1..m /\ Len(list) = m BY <1>2, <1>3
<1> HIDE DEF list, P, m
<1>5. ASSUME NEW k \in 1..m PROVE list[k] \in D /\ P(list[k]) = k - 1
  <2>1. k - 1 \in 0..(n - 1) BY <1>1, <1>2
  <2>2. \E x \in D : P(x) = k - 1 BY <1>1, <2>1
  <2>3. At(k) \in D /\ P(At(k)) = k - 1 BY <2>2
  <2> HIDE DEF At, D
  <2> QED BY <1>3, <2>3
<1>6. ASSUME NEW x \in D PROVE x \in Scans!Shown(list) <=> P(x) < m
  <2>1. ASSUME NEW k \in 1..m, list[k] = x PROVE P(x) < m BY <1>2, <1>5, <2>1
  <2>2. ASSUME P(x) < m PROVE \E k \in 1..m : list[k] = x
    <3>1. P(x) \in Nat BY <1>1
    <3>2. P(x) + 1 \in 1..m BY <1>2, <2>2, <3>1
    <3>3. list[P(x) + 1] \in D /\ P(list[P(x) + 1]) = P(x) BY <1>5, <3>1, <3>2
    <3>4. list[P(x) + 1] = x BY <1>1, <3>3
    <3> QED BY <3>2, <3>4
  <2> QED BY <1>4, <2>1, <2>2 DEF Scans!Shown
<1>7. ASSUME NEW j \in 1..m, NEW k \in 1..m, j < k PROVE list[j] \in ahead[list[k]]
  BY <1>1, <1>5, <1>7
<1>8. ASSUME NEW x \in D, x \notin Scans!Shown(list)
      PROVE  m < n /\ \A k \in 1..m : list[k] \in ahead[x]
  <2>1. P(x) \in 0..(n - 1) /\ ~ (P(x) < m) BY <1>1, <1>6, <1>8
  <2>2. ASSUME NEW k \in 1..m PROVE list[k] \in ahead[x]
    BY <1>1, <1>2, <1>5, <2>1
  <2> QED BY <1>1, <1>2, <2>1, <2>2
<1>9. ASSUME m < n PROVE D \ Scans!Shown(list) # {}
  <2>1. m \in 0..(n - 1) BY <1>1, <1>2, <1>9
  <2>2. PICK x \in D : P(x) = m BY <1>1, <2>1
  <2>3. ~ (P(x) < m) BY <1>2, <2>2
  <2> QED BY <1>6, <2>2, <2>3
<1>10. (m < n) <=> (n > limit) BY <1>1, <1>2 DEF m, Scans!Least
<1>11. (D \ Scans!Shown(list) # {}) = (n > limit) BY <1>8, <1>9, <1>10
<1>12. FirstOf(ahead, limit, list) BY <1>2, <1>4, <1>5, <1>7, <1>8, <1>11 DEF FirstOf
<1> QED BY <1>12 DEF list

(* The greatest counts.                                                    *)
LEMMA GreatestFirst ==
  ASSUME NEW counts, IsFiniteSet(DOMAIN counts), DOMAIN counts \subseteq Int,
         \A v \in DOMAIN counts : counts[v] \in Nat, TopServices \in Nat
  PROVE  Scans!IsTop(Scans!Greatest(counts, TopServices), counts)
<1> DEFINE D == DOMAIN counts
           A(a) == {b \in D : counts[b] > counts[a] \/ (counts[b] = counts[a] /\ b < a)}
           ahead == [a \in D |-> A(a)]  list == Scans!Greatest(counts, TopServices)
<1>1. DOMAIN ahead = D /\ \A x \in D : ahead[x] = A(x) OBVIOUS
<1>2. Scans!Greatest(counts, TopServices) = Scans!Ranked(ahead, TopServices) BY DEF Scans!Greatest
<1>3. ASSUME NEW x \in D PROVE A(x) \subseteq D /\ x \notin A(x) OBVIOUS
<1>4. ASSUME NEW x \in D, NEW y \in D
      PROVE  (x # y => x \in A(y) \/ y \in A(x)) /\ (x \in A(y) => A(x) \subseteq A(y))
  <2>1. x \in Int /\ y \in Int /\ counts[x] \in Nat /\ counts[y] \in Nat OBVIOUS
  <2>2. x \in A(y) <=> (counts[x] > counts[y] \/ (counts[x] = counts[y] /\ x < y)) OBVIOUS
  <2>3. y \in A(x) <=> (counts[y] > counts[x] \/ (counts[y] = counts[x] /\ y < x)) OBVIOUS
  <2>4. ASSUME NEW z \in A(x), x \in A(y) PROVE z \in A(y)
    <3>1. z \in D /\ z \in Int /\ counts[z] \in Nat OBVIOUS
    <3>2. counts[z] > counts[x] \/ (counts[z] = counts[x] /\ z < x) OBVIOUS
    <3>3. counts[z] > counts[y] \/ (counts[z] = counts[y] /\ z < y) BY <2>1, <2>2, <2>4, <3>1, <3>2
    <3> QED BY <3>1, <3>3
  <2> HIDE DEF A
  <2> QED BY <2>1, <2>2, <2>3, <2>4
<1>5. Sorts(ahead)
  <2> HIDE DEF A, ahead
  <2> QED BY <1>1, <1>3, <1>4 DEF Sorts
<1>6. FirstOf(ahead, TopServices, list)
  <2> HIDE DEF ahead
  <2> QED BY <1>2, <1>5, RankedFirst
<1>7. \A x, y \in D : y \in ahead[x] => counts[y] >= counts[x] /\ y # x
  <2> SUFFICES ASSUME NEW x \in D, NEW y \in D, y \in A(x) PROVE counts[y] >= counts[x] /\ y # x BY <1>1
  <2>1. counts[x] \in Nat /\ counts[y] \in Nat OBVIOUS
  <2> QED BY <1>3, <2>1
<1> HIDE DEF A, ahead, list
<1>8. \A v \in Scans!Shown(list) : v \in D
  <2>1. \A k \in DOMAIN list : list[k] \in D BY <1>1, <1>6 DEF FirstOf
  <2> QED BY <2>1 DEF Scans!Shown
<1>9. \A j, k \in DOMAIN list : j < k => list[j] # list[k] /\ counts[list[j]] >= counts[list[k]]
  BY <1>1, <1>6, <1>7 DEF FirstOf
<1>10. \A v \in D \ Scans!Shown(list) :
         Len(list) = TopServices /\ \A k \in DOMAIN list : counts[v] <= counts[list[k]]
  <2> SUFFICES ASSUME NEW v \in D \ Scans!Shown(list)
               PROVE  Len(list) = TopServices /\ \A k \in DOMAIN list : counts[v] <= counts[list[k]]
    OBVIOUS
  <2>1. Len(list) = TopServices /\ \A k \in DOMAIN list : list[k] \in ahead[v] /\ list[k] \in D
    BY <1>1, <1>6 DEF FirstOf
  <2>2. ASSUME NEW k \in DOMAIN list PROVE counts[v] <= counts[list[k]]
    <3>1. counts[list[k]] >= counts[v] BY <1>7, <2>1
    <3>2. counts[list[k]] \in Nat /\ counts[v] \in Nat BY <2>1
    <3> QED BY <3>1, <3>2
  <2> QED BY <2>1, <2>2
<1>11. Scans!IsTop(list, counts) BY <1>8, <1>9, <1>10 DEF Scans!IsTop
<1> QED BY <1>11 DEF list

(* One entry more: what a tally counts of its values, and what Bump adds.  *)
Before_(f, n) == [i \in 1..n |-> f[i]]

LEMMA CountedOneMore ==
  ASSUME NEW n \in Nat, NEW S \in SUBSET (1..n)
  PROVE  /\ IsFiniteSet(S) /\ Cardinality(S) \in Nat
         /\ Cardinality(S \union {n + 1}) = Cardinality(S) + 1
<1>1. IsFiniteSet(1..n) BY FS_Interval
<1>2. IsFiniteSet(S) BY <1>1, FS_Subset
<1>3. n + 1 \notin S OBVIOUS
<1> QED BY <1>2, <1>3, FS_AddElement, FS_CardinalityType

LEMMA TallyNext ==
  ASSUME NEW n \in Nat, NEW f, DOMAIN f = 1..(n + 1), NEW ignored
  PROVE  /\ f[n + 1] \notin ignored =>
              Scans!Bump(Scans!Tally(Before_(f, n), ignored), f[n + 1]) = Scans!Tally(f, ignored)
         /\ f[n + 1] \in ignored => Scans!Tally(Before_(f, n), ignored) = Scans!Tally(f, ignored)
<1> DEFINE g == Before_(f, n)  w == f[n + 1]  D(h) == {h[i] : i \in DOMAIN h} \ ignored
           At(h, v) == {i \in DOMAIN h : h[i] = v}
<1>1. DOMAIN g = 1..n /\ \A i \in 1..n : g[i] = f[i] BY DEF Before_
<1>2. \A h : Scans!Tally(h, ignored) = [v \in D(h) |-> Cardinality(At(h, v))] BY ScansSame DEF Scans!Tally
<1>3. 1..(n + 1) = (1..n) \union {n + 1} /\ n + 1 \notin 1..n OBVIOUS
<1>4. D(f) = D(g) \union ({w} \ ignored) BY <1>1, <1>3
<1>5. ASSUME NEW v, v # w PROVE At(f, v) = At(g, v) BY <1>1, <1>3, <1>5
<1>6. At(f, w) = At(g, w) \union {n + 1} BY <1>1, <1>3
<1>7. At(g, w) \in SUBSET (1..n) BY <1>1
<1>8. ASSUME w \notin D(g), w \notin ignored PROVE Cardinality(At(g, w)) = 0
  <2>1. At(g, w) = {} BY <1>8
  <2> QED BY <2>1, FS_EmptySet
<1>9. Cardinality(At(f, w)) = Cardinality(At(g, w)) + 1 /\ Cardinality(At(g, w)) \in Nat
  <2> HIDE DEF At, g
  <2> QED BY <1>6, <1>7, CountedOneMore
<1>10. ASSUME NEW v \in D(g) PROVE Cardinality(At(g, v)) \in Nat
  <2>1. At(g, v) \in SUBSET (1..n) BY <1>1
  <2> QED BY <2>1, CountedOneMore
<1> DEFINE T == Scans!Tally(g, ignored)  B == Scans!Bump(T, w)
<1>a. T = [v \in D(g) |-> Cardinality(At(g, v))] BY <1>2
<1>11. DOMAIN T = D(g) /\ \A v \in D(g) : T[v] = Cardinality(At(g, v))
  <2> HIDE DEF D, At, g, T
  <2> QED BY <1>a
<1>12. Scans!Tally(f, ignored) = [v \in D(f) |-> Cardinality(At(f, v))] BY <1>2
<1> HIDE DEF D, At, g, T
<1>13. B = [v \in DOMAIN T \union {w} |-> (IF v \in DOMAIN T THEN T[v] ELSE 0) + (IF v = w THEN 1 ELSE 0)]
  BY DEF Scans!Bump
<1>14. ASSUME w \notin ignored PROVE B = Scans!Tally(f, ignored)
  <2>1. DOMAIN T \union {w} = D(f) BY <1>4, <1>11, <1>14
  <2>2. ASSUME NEW v \in D(f)
        PROVE (IF v \in DOMAIN T THEN T[v] ELSE 0) + (IF v = w THEN 1 ELSE 0) = Cardinality(At(f, v))
    <3>1. CASE v = w BY <1>8, <1>9, <1>11, <1>14, <3>1
    <3>2. CASE v # w
      <4>1. v \in D(g) BY <1>4, <3>2
      <4> QED BY <1>5, <1>10, <1>11, <3>2, <4>1
    <3> QED BY <3>1, <3>2
  <2> HIDE DEF B, w
  <2> QED BY <1>12, <1>13, <2>1, <2>2
<1>15. ASSUME w \in ignored PROVE T = Scans!Tally(f, ignored)
  <2>1. D(f) = D(g) BY <1>4, <1>15
  <2>2. \A v \in D(g) : v # w BY <1>15 DEF D
  <2>3. \A v \in D(g) : Cardinality(At(f, v)) = Cardinality(At(g, v)) BY <1>5, <2>2
  <2> HIDE DEF w
  <2> QED BY <1>12, <1>a, <2>1, <2>3
<1> QED BY <1>14, <1>15 DEF g, T, w, B

LEMMA TallyFinite ==
  ASSUME NEW n \in Nat, NEW f, DOMAIN f = 1..n, NEW ignored
  PROVE  LET T == Scans!Tally(f, ignored)
         IN /\ DOMAIN T = {f[i] : i \in 1..n} \ ignored /\ IsFiniteSet(DOMAIN T)
            /\ \A v \in DOMAIN T : T[v] \in Nat
<1> DEFINE T == Scans!Tally(f, ignored)  R == {f[i] : i \in 1..n}  g == [i \in 1..n |-> f[i]]
<1>1. T = [v \in R \ ignored |-> Cardinality({i \in 1..n : f[i] = v})] BY ScansSame DEF Scans!Tally
<1>2. IsFiniteSet(1..n) BY FS_Interval
<1>3. g \in Surjection(1..n, R) BY Zenon DEF Surjection
<1>4. IsFiniteSet(R)
  <2> HIDE DEF R, g
  <2> QED BY <1>2, <1>3, FS_Surjection
<1>5. IsFiniteSet(R \ ignored) BY <1>4, FS_Subset
<1>6. ASSUME NEW v PROVE Cardinality({i \in 1..n : f[i] = v}) \in Nat
  <2>1. {i \in 1..n : f[i] = v} \in SUBSET (1..n) OBVIOUS
  <2> QED BY <2>1, CountedOneMore
<1>7. DOMAIN T = R \ ignored /\ \A v \in R \ ignored : T[v] \in Nat
  <2> HIDE DEF T, R
  <2> QED BY <1>1, <1>6
<1> QED BY <1>5, <1>7

-----------------------------------------------------------------------------
(* What a running scan has found in the entries it has read.               *)
RequestsFound(list, n, limit) ==
  /\ Len(list) \in 0..(limit + 1) /\ DOMAIN list = 1..Len(list)
  /\ list \in Seq(Nat) /\ Scans!Increasing(list)
  /\ Scans!Shown(list) = {i \in 1..n : input[i].http}

ServicesFound(found, n) ==
  /\ DOMAIN found = {Scans!ServiceKey(input[i].resource[1]) : i \in {j \in 1..n : Scans!Named(input[j])}}
  /\ \A key \in DOMAIN found : Scans!ServiceKey(found[key]) = key

SummaryFound(counts, n) ==
  /\ counts = [severities |-> counts.severities, services |-> counts.services, errors |-> counts.errors]
  /\ counts.severities = Scans!Tally([i \in 1..n |-> input[i].severity], {})
  /\ counts.services = Scans!Tally([i \in 1..n |-> Scans!ServiceName(input[i])], {Scans!Absent})
  /\ counts.errors = Scans!Tally([i \in 1..n |-> Scans!ErrorMessage(input[i])], {Scans!Absent})

TraceFound(id, t, n) ==
  LET mine == Scans!EntriesOf(id, n)
  IN /\ mine # {} /\ t.count = Cardinality(mine)
     /\ t.severity \in Nat /\ t.first \in Nat /\ t.last \in Nat
     /\ \E i \in mine : t.severity = input[i].severity
     /\ t.last # 0 => \E i \in mine : t.last = input[i].time
     /\ t.first # 0 => \E i \in mine : t.first = input[i].time
     /\ \A i \in mine :
          /\ input[i].severity <= t.severity /\ input[i].time <= t.last
          /\ input[i].time # 0 => t.first # 0 /\ t.first <= input[i].time
TracesFound(traces, n) ==
  /\ DOMAIN traces = {input[i].trace : i \in 1..n} \ {Scans!Absent}
  /\ \A id \in DOMAIN traces : TraceFound(id, traces[id], n)

ScanFound(tool, found, n, limit) ==
  /\ tool = "requests" => RequestsFound(found, n, limit)
  /\ tool = "services" => ServicesFound(found, n)
  /\ tool = "summary" => SummaryFound(found, n)
  /\ tool = "traces" => TracesFound(found, n)

Scan(tool, limit, most, read, found) ==
  [pc |-> "scan", tool |-> tool, limit |-> limit, most |-> most, read |-> read, found |-> found]
ScanRun ==
  /\ call = Scan(call.tool, call.limit, call.most, call.read, call.found)
  /\ call.limit \in Nat /\ call.read \in Nat /\ call.most \in Nat
  /\ call.read <= Len(input) /\ call.read <= call.most /\ call.most <= LogsHardLimit
  /\ call.tool # "traces" => call.most = LogsHardLimit
  /\ ScanFound(call.tool, call.found, call.read, call.limit)

ScansInv ==
  input \in LogInputs /\ (call = Scans!Idle \/ ScanRun) /\ Scans!ScansHonest

-----------------------------------------------------------------------------
LEMMA LogFacts ==
  ASSUME Scans!ScanConstants, input \in LogInputs
  PROVE  /\ Len(input) \in Nat /\ DOMAIN input = 1..Len(input)
         /\ \A i \in 1..Len(input) : input[i] \in Scans!LogEntries
         /\ LogsHardLimit \in Nat /\ LogsHardLimit > 0 /\ TopServices \in Nat
  BY DEF Scans!ScanConstants

LEMMA EntryFacts ==
  ASSUME NEW e \in Scans!LogEntries
  PROVE  /\ e.http \in BOOLEAN /\ e.severity \in Nat /\ e.trace \in Nat /\ e.time \in Nat
         /\ Scans!ServiceName(e) \in Nat /\ Scans!ErrorMessage(e) \in Nat
<1>1. /\ e.http \in BOOLEAN /\ e.severity \in Nat /\ e.trace \in Nat /\ e.time \in Nat /\ e.message \in Nat
      /\ e.resource \in Seq(Scans!Resources)
  BY DEF Scans!LogEntries
<1>2. e.resource # <<>> => e.resource[1] \in Scans!Resources BY <1>1
<1>3. e.resource # <<>> => e.resource[1].label \in Nat /\ e.resource[1].type \in Nat
  BY <1>2 DEF Scans!Resources
<1> QED BY <1>1, <1>3 DEF Scans!ServiceName, Scans!ErrorMessage, Scans!Absent

(* Another entry with its request.                                         *)
LEMMA RequestFound ==
  ASSUME NEW n \in Nat, NEW limit \in Nat, NEW list, RequestsFound(list, n, limit), ~ Scans!Enough(list, limit),
         input[n + 1].http \in BOOLEAN
  PROVE  RequestsFound(IF input[n + 1].http THEN Append(list, n + 1) ELSE list, n + 1, limit)
<1>1. /\ Len(list) \in 0..limit /\ DOMAIN list = 1..Len(list) /\ list \in Seq(Nat) /\ Scans!Increasing(list)
      /\ Scans!Shown(list) = {i \in 1..n : input[i].http}
  BY DEF RequestsFound, Scans!Enough
<1>2. 1..(n + 1) = (1..n) \union {n + 1} OBVIOUS
<1>3. CASE ~ input[n + 1].http
  <2>1. {i \in 1..(n + 1) : input[i].http} = {i \in 1..n : input[i].http} BY <1>2, <1>3
  <2> QED BY <1>1, <1>3, <2>1 DEF RequestsFound
<1>4. CASE input[n + 1].http
  <2> DEFINE l == Append(list, n + 1)  m == Len(list)
  <2>1. /\ l \in Seq(Nat) /\ Len(l) = m + 1 /\ DOMAIN l = 1..(m + 1) /\ l[m + 1] = n + 1
        /\ \A k \in 1..m : l[k] = list[k]
    BY <1>1
  <2>2. \A k \in 1..m : list[k] \in 1..n
    <3>1. \A k \in 1..m : list[k] \in Scans!Shown(list) BY <1>1 DEF Scans!Shown
    <3> QED BY <1>1, <3>1
  <2> HIDE DEF l
  <2>3. m \in Nat /\ 1..(m + 1) = (1..m) \union {m + 1} BY <1>1
  <2>4. Scans!Shown(l) = {i \in 1..(n + 1) : input[i].http}
    <3>1. Scans!Shown(l) = {l[k] : k \in 1..(m + 1)} BY <2>1 DEF Scans!Shown
    <3>2. Scans!Shown(list) = {list[k] : k \in 1..m} BY <1>1 DEF Scans!Shown
    <3>3. {l[k] : k \in 1..(m + 1)} = {list[k] : k \in 1..m} \union {n + 1} BY <2>1, <2>3
    <3>4. {i \in 1..(n + 1) : input[i].http} = {i \in 1..n : input[i].http} \union {n + 1} BY <1>2, <1>4
    <3> QED BY <1>1, <3>1, <3>2, <3>3, <3>4
  <2>5. ASSUME NEW j \in 1..(m + 1), NEW k \in 1..(m + 1), j < k PROVE l[j] < l[k]
    <3>1. j \in 1..m BY <2>3, <2>5
    <3>2. CASE k = m + 1 BY <2>1, <2>2, <3>1, <3>2
    <3>3. CASE k \in 1..m BY <1>1, <2>1, <2>5, <3>1, <3>3 DEF Scans!Increasing
    <3> QED BY <2>3, <3>2, <3>3
  <2>6. Scans!Increasing(l) BY <2>1, <2>5 DEF Scans!Increasing
  <2>7. Len(l) \in 0..(limit + 1) /\ DOMAIN l = 1..Len(l) BY <1>1, <2>1
  <2>8. RequestsFound(l, n + 1, limit) BY <2>1, <2>4, <2>6, <2>7 DEF RequestsFound
  <2> QED BY <1>4, <2>8 DEF l
<1> QED BY <1>3, <1>4

(* Another entry with its service.                                         *)
LEMMA ServiceFound ==
  ASSUME NEW n \in Nat, NEW found, ServicesFound(found, n),
         NEW key, NEW r, key = Scans!ServiceKey(r), r = input[n + 1].resource[1]
  PROVE  LET seen == [k \in DOMAIN found \union {key} |-> IF k \in DOMAIN found THEN found[k] ELSE r]
         IN ServicesFound(IF Scans!Named(input[n + 1]) THEN seen ELSE found, n + 1)
<1> DEFINE seen == [k \in DOMAIN found \union {key} |-> IF k \in DOMAIN found THEN found[k] ELSE r]
           N(m) == {j \in 1..m : Scans!Named(input[j])}
           Keys(m) == {Scans!ServiceKey(input[i].resource[1]) : i \in N(m)}
<1>1. DOMAIN found = Keys(n) /\ \A k \in DOMAIN found : Scans!ServiceKey(found[k]) = k BY DEF ServicesFound
<1>2. 1..(n + 1) = (1..n) \union {n + 1} OBVIOUS
<1>3. CASE Scans!Named(input[n + 1])
  <2>1. N(n + 1) = N(n) \union {n + 1} BY <1>2, <1>3
  <2>2. Keys(n + 1) = Keys(n) \union {key}
    <3> HIDE DEF N
    <3> QED BY <2>1
  <2>3. DOMAIN seen = DOMAIN found \union {key} OBVIOUS
  <2>4. \A k \in DOMAIN seen : Scans!ServiceKey(seen[k]) = k BY <1>1
  <2> HIDE DEF seen
  <2>5. ServicesFound(seen, n + 1) BY <1>1, <2>2, <2>3, <2>4 DEF ServicesFound
  <2> QED BY <1>3, <2>5 DEF seen
<1>4. CASE ~ Scans!Named(input[n + 1])
  <2>1. N(n + 1) = N(n) BY <1>2, <1>4
  <2>2. ServicesFound(found, n + 1) BY <1>1, <2>1 DEF ServicesFound
  <2> QED BY <1>4, <2>2
<1> QED BY <1>3, <1>4

(* Another entry of a summary.                                             *)
LEMMA EntrySummed ==
  ASSUME NEW n \in Nat, NEW counts, SummaryFound(counts, n)
  PROVE  SummaryFound([severities |-> Scans!Bump(counts.severities, input[n + 1].severity),
                       services |-> Scans!BumpNamed(counts.services, Scans!ServiceName(input[n + 1])),
                       errors |-> Scans!BumpNamed(counts.errors, Scans!ErrorMessage(input[n + 1]))], n + 1)
<1> DEFINE e == input[n + 1]
           F(m) == [i \in 1..m |-> input[i].severity]
           G(m) == [i \in 1..m |-> Scans!ServiceName(input[i])]
           H(m) == [i \in 1..m |-> Scans!ErrorMessage(input[i])]
           None0 == {Scans!Absent}
<1>1. /\ counts.severities = Scans!Tally(F(n), {})
      /\ counts.services = Scans!Tally(G(n), None0) /\ counts.errors = Scans!Tally(H(n), None0)
  BY DEF SummaryFound
<1>2. n + 1 \in 1..(n + 1) /\ 1..n \subseteq 1..(n + 1) OBVIOUS
<1>3. /\ DOMAIN F(n + 1) = 1..(n + 1) /\ F(n + 1)[n + 1] = e.severity /\ Before_(F(n + 1), n) = F(n)
      /\ DOMAIN G(n + 1) = 1..(n + 1) /\ G(n + 1)[n + 1] = Scans!ServiceName(e) /\ Before_(G(n + 1), n) = G(n)
      /\ DOMAIN H(n + 1) = 1..(n + 1) /\ H(n + 1)[n + 1] = Scans!ErrorMessage(e) /\ Before_(H(n + 1), n) = H(n)
  BY <1>2 DEF Before_
<1> HIDE DEF F, G, H, e, None0
<1>4. Scans!Bump(Scans!Tally(F(n), {}), e.severity) = Scans!Tally(F(n + 1), {}) BY <1>3, TallyNext
<1>5. ASSUME NEW f, NEW g, NEW v, DOMAIN f = 1..(n + 1), f[n + 1] = v, Before_(f, n) = g
      PROVE  Scans!BumpNamed(Scans!Tally(g, None0), v) = Scans!Tally(f, None0)
  <2>1. v \in None0 <=> v = Scans!Absent BY DEF None0
  <2>2. v \notin None0 => Scans!Bump(Scans!Tally(g, None0), v) = Scans!Tally(f, None0) BY <1>5, TallyNext
  <2>3. v \in None0 => Scans!Tally(g, None0) = Scans!Tally(f, None0) BY <1>5, TallyNext
  <2> QED BY <2>1, <2>2, <2>3 DEF Scans!BumpNamed
<1>6. Scans!BumpNamed(Scans!Tally(G(n), None0), Scans!ServiceName(e)) = Scans!Tally(G(n + 1), None0) BY <1>3, <1>5
<1>7. Scans!BumpNamed(Scans!Tally(H(n), None0), Scans!ErrorMessage(e)) = Scans!Tally(H(n + 1), None0) BY <1>3, <1>5
<1> DEFINE c == [severities |-> Scans!Bump(counts.severities, e.severity),
                 services |-> Scans!BumpNamed(counts.services, Scans!ServiceName(e)),
                 errors |-> Scans!BumpNamed(counts.errors, Scans!ErrorMessage(e))]
<1>8. /\ c = [severities |-> c.severities, services |-> c.services, errors |-> c.errors]
      /\ c.severities = Scans!Tally(F(n + 1), {}) /\ c.services = Scans!Tally(G(n + 1), None0)
      /\ c.errors = Scans!Tally(H(n + 1), None0)
  BY <1>1, <1>4, <1>6, <1>7
<1> HIDE DEF c
<1>9. SummaryFound(c, n + 1) BY <1>8 DEF SummaryFound, F, G, H, None0
<1> QED BY <1>9 DEF c, e

(* Another entry of a trace, which is new or not.                          *)
LEMMA EntriesOfNext ==
  ASSUME NEW n \in Nat, NEW id
  PROVE  /\ input[n + 1].trace = id => Scans!EntriesOf(id, n + 1) = Scans!EntriesOf(id, n) \union {n + 1}
         /\ input[n + 1].trace # id => Scans!EntriesOf(id, n + 1) = Scans!EntriesOf(id, n)
         /\ Cardinality(Scans!EntriesOf(id, n)) \in Nat
         /\ Cardinality(Scans!EntriesOf(id, n) \union {n + 1}) = Cardinality(Scans!EntriesOf(id, n)) + 1
<1>1. 1..(n + 1) = (1..n) \union {n + 1} OBVIOUS
<1>2. Scans!EntriesOf(id, n) \in SUBSET (1..n) BY DEF Scans!EntriesOf
<1>3. /\ Cardinality(Scans!EntriesOf(id, n)) \in Nat
      /\ Cardinality(Scans!EntriesOf(id, n) \union {n + 1}) = Cardinality(Scans!EntriesOf(id, n)) + 1
  BY <1>2, CountedOneMore
<1> QED BY <1>1, <1>3 DEF Scans!EntriesOf

LEMMA TraceKept ==
  ASSUME NEW n \in Nat, NEW id, NEW t, input[n + 1].trace # id, TraceFound(id, t, n)
  PROVE  TraceFound(id, t, n + 1)
<1>1. Scans!EntriesOf(id, n + 1) = Scans!EntriesOf(id, n) BY EntriesOfNext
<1> QED BY <1>1 DEF TraceFound

LEMMA TraceStarted ==
  ASSUME NEW n \in Nat, NEW id, input[n + 1].trace = id, input[n + 1] \in Scans!LogEntries,
         Scans!EntriesOf(id, n) = {}
  PROVE  TraceFound(id, Scans!AddEntry(Scans!NewTrace(input[n + 1]), input[n + 1]), n + 1)
<1> DEFINE e == input[n + 1]  t == Scans!AddEntry(Scans!NewTrace(e), e)
<1>1. Scans!EntriesOf(id, n + 1) = {n + 1} BY EntriesOfNext
<1>2. e.severity \in Nat /\ e.time \in Nat BY EntryFacts
<1>3. t.count = 1 /\ t.first = e.time /\ t.last = e.time /\ t.severity = e.severity
  <2> HIDE DEF e
  <2> QED BY <1>2 DEF t, Scans!AddEntry, Scans!NewTrace, Scans!Absent
<1>4. Cardinality({n + 1}) = 1 BY FS_Singleton
<1> HIDE DEF t
<1>5. TraceFound(id, t, n + 1) BY <1>1, <1>2, <1>3, <1>4 DEF TraceFound
<1> QED BY <1>5 DEF t

LEMMA TraceGrown ==
  ASSUME NEW n \in Nat, NEW id, NEW a, input[n + 1].trace = id, input[n + 1] \in Scans!LogEntries,
         TraceFound(id, a, n), \A i \in 1..n : input[i] \in Scans!LogEntries
  PROVE  TraceFound(id, Scans!AddEntry(a, input[n + 1]), n + 1)
<1> DEFINE e == input[n + 1]  t == Scans!AddEntry(a, e)  mine == Scans!EntriesOf(id, n)
<1>1. Scans!EntriesOf(id, n + 1) = mine \union {n + 1} BY EntriesOfNext
<1>2. e.severity \in Nat /\ e.time \in Nat BY EntryFacts
<1>3. /\ mine # {} /\ a.count = Cardinality(mine)
      /\ a.severity \in Nat /\ a.first \in Nat /\ a.last \in Nat
      /\ \E i \in mine : a.severity = input[i].severity
      /\ a.last # 0 => \E i \in mine : a.last = input[i].time
      /\ a.first # 0 => \E i \in mine : a.first = input[i].time
      /\ \A i \in mine :
           /\ input[i].severity <= a.severity /\ input[i].time <= a.last
           /\ input[i].time # 0 => a.first # 0 /\ a.first <= input[i].time
  BY DEF TraceFound
<1>4. /\ t.count = a.count + 1
      /\ t.first = IF e.time # 0 /\ (a.first = 0 \/ e.time < a.first) THEN e.time ELSE a.first
      /\ t.last = IF e.time > a.last THEN e.time ELSE a.last
      /\ t.severity = IF e.severity > a.severity THEN e.severity ELSE a.severity
  BY DEF Scans!AddEntry, Scans!Absent
<1>5. Cardinality(mine \union {n + 1}) = Cardinality(mine) + 1 BY EntriesOfNext
<1>6. ASSUME NEW i \in mine PROVE input[i].severity \in Nat /\ input[i].time \in Nat
  <2>1. input[i] \in Scans!LogEntries BY DEF Scans!EntriesOf
  <2> QED BY <2>1, EntryFacts
<1>7. e = input[n + 1] OBVIOUS
<1> HIDE DEF t, e, mine
<1>8. t.severity \in Nat /\ t.first \in Nat /\ t.last \in Nat /\ t.count = Cardinality(mine \union {n + 1})
  BY <1>2, <1>3, <1>4, <1>5
<1>9. \E i \in mine \union {n + 1} : t.severity = input[i].severity BY <1>3, <1>4, <1>7
<1>10. t.last # 0 => \E i \in mine \union {n + 1} : t.last = input[i].time BY <1>3, <1>4, <1>7
<1>11. t.first # 0 => \E i \in mine \union {n + 1} : t.first = input[i].time BY <1>3, <1>4, <1>7
<1>12. ASSUME NEW i \in mine \union {n + 1}
       PROVE  /\ input[i].severity <= t.severity /\ input[i].time <= t.last
              /\ input[i].time # 0 => t.first # 0 /\ t.first <= input[i].time
  <2>1. CASE i = n + 1 BY <1>2, <1>3, <1>4, <1>7, <2>1
  <2>2. CASE i \in mine BY <1>2, <1>3, <1>4, <1>6, <2>2
  <2> QED BY <2>1, <2>2
<1>13. TraceFound(id, t, n + 1)
  BY <1>1, <1>3, <1>8, <1>9, <1>10, <1>11, <1>12 DEF TraceFound, mine
<1> QED BY <1>13 DEF t, e

LEMMA TraceNextFound ==
  ASSUME NEW n \in Nat, NEW traces, TracesFound(traces, n), input[n + 1] \in Scans!LogEntries,
         \A i \in 1..n : input[i] \in Scans!LogEntries
  PROVE  TracesFound(Scans!AddToTraces(traces, input[n + 1]), n + 1)
<1> DEFINE e == input[n + 1]  id == e.trace
           seen == IF id \in DOMAIN traces THEN traces[id] ELSE Scans!NewTrace(e)
           u == Scans!AddEntry(seen, e)
           next == [t \in DOMAIN traces \union {id} |-> IF t = id THEN u ELSE traces[t]]
           Ids(m) == {input[i].trace : i \in 1..m} \ {Scans!Absent}
<1>1. DOMAIN traces = Ids(n) /\ \A t \in DOMAIN traces : TraceFound(t, traces[t], n) BY DEF TracesFound
<1>a. Scans!AddToTraces(traces, e) = IF id = Scans!Absent THEN traces ELSE next BY DEF Scans!AddToTraces
<1>2. 1..(n + 1) = (1..n) \union {n + 1} OBVIOUS
<1>3. Ids(n + 1) = Ids(n) \union ({id} \ {Scans!Absent}) BY <1>2
<1>4. CASE id = Scans!Absent
  <2>1. \A t \in DOMAIN traces : t # id BY <1>1, <1>4
  <2>2. \A t \in DOMAIN traces : TraceFound(t, traces[t], n + 1) BY <1>1, <2>1, TraceKept
  <2>3. DOMAIN traces = Ids(n + 1) BY <1>1, <1>3, <1>4
  <2>4. TracesFound(traces, n + 1) BY <2>2, <2>3 DEF TracesFound
  <2> QED BY <1>4, <1>a, <2>4
<1>5. CASE id # Scans!Absent
  <2>1. TraceFound(id, u, n + 1)
    <3>1. CASE id \in DOMAIN traces
      <4>1. TraceFound(id, seen, n) BY <1>1, <3>1
      <4> HIDE DEF Ids
      <4> QED BY <4>1, TraceGrown
    <3>2. CASE id \notin DOMAIN traces
      <4>1. Scans!EntriesOf(id, n) = {} BY <1>1, <1>5, <3>2 DEF Scans!EntriesOf
      <4>2. seen = Scans!NewTrace(e) BY <3>2
      <4> HIDE DEF Ids
      <4> QED BY <4>1, <4>2, TraceStarted
    <3> QED BY <3>1, <3>2
  <2>2. \A t \in DOMAIN traces : t # id => TraceFound(t, traces[t], n + 1) BY <1>1, TraceKept
  <2>3. DOMAIN next = DOMAIN traces \union {id} /\ next[id] = u /\ \A t \in DOMAIN traces : t # id => next[t] = traces[t]
    OBVIOUS
  <2>4. DOMAIN next = Ids(n + 1) BY <1>1, <1>3, <1>5, <2>3
  <2> HIDE DEF next, u, Ids
  <2>5. TracesFound(next, n + 1) BY <2>1, <2>2, <2>3, <2>4 DEF TracesFound, Ids
  <2> QED BY <1>5, <1>a, <2>5 DEF next, u
<1> QED BY <1>4, <1>5

-----------------------------------------------------------------------------
(* Each action.  Without an answer there is nothing to be honest about.    *)
RequestsRight(log, a) ==
  LET requests == {i \in DOMAIN log : log[i].http}
  IN /\ Scans!Increasing(a.result) /\ Scans!Shown(a.result) \subseteq requests
     /\ \A i \in requests, j \in Scans!Shown(a.result) : i < j => i \in Scans!Shown(a.result)
     /\ IF a.truncated THEN Len(a.result) = a.limit \/ a.scanned = LogsHardLimit
        ELSE Scans!Shown(a.result) = requests
ServicesRight(log, a) ==
  /\ DOMAIN a.result = {Scans!ServiceKey(log[i].resource[1]) : i \in {j \in 1..a.scanned : Scans!Named(log[j])}}
  /\ \A key \in DOMAIN a.result : Scans!ServiceKey(a.result[key]) = key
  /\ ~ a.truncated => a.scanned = Len(log)
SummaryRight(log, a) ==
  LET counts == a.result.counts  read == 1..a.scanned
  IN /\ counts.severities = Scans!Tally([i \in read |-> log[i].severity], {})
     /\ counts.services = Scans!Tally([i \in read |-> Scans!ServiceName(log[i])], {Scans!Absent})
     /\ counts.errors = Scans!Tally([i \in read |-> Scans!ErrorMessage(log[i])], {Scans!Absent})
     /\ Scans!IsTop(a.result.services, counts.services) /\ Scans!IsTop(a.result.errors, counts.errors)
     /\ ~ a.truncated => a.scanned = Len(log)
FiguresAre(log, id, t, n) ==
  LET mine == {i \in 1..n : log[i].trace = id}
      times == {log[i].time : i \in mine} \ {Scans!Absent}
  IN /\ t.count = Scans!Cardinality(mine)
     /\ t.severity = Scans!Max({log[i].severity : i \in mine})
     /\ t.last = Scans!Max({Scans!Absent} \union times)
     /\ times # {} => t.first = Scans!Min(times)
TracesRight(log, a) ==
  LET shown == Scans!Shown(a.result.shown)  n == a.scanned
      mine(id) == {i \in 1..n : log[i].trace = id}
      hidden == {log[i].trace : i \in 1..n} \ (shown \union {Scans!Absent})
  IN /\ \A id \in shown : FiguresAre(log, id, a.result.traces[id], n)
     /\ \A h \in hidden, id \in shown : Scans!Cardinality(mine(h)) <= Scans!Cardinality(mine(id))
     /\ a.truncated = (n < Len(log) \/ hidden # {})
AnswerRight(log, a) ==
  /\ a.tool = "requests" => RequestsRight(log, a)
  /\ a.tool = "services" => ServicesRight(log, a)
  /\ a.tool = "summary" => SummaryRight(log, a)
  /\ a.tool = "traces" => TracesRight(log, a)
  /\ a.tool = "entry" => Scans!Size(a.result) <= Scans!MaxBytes

LEMMA HonestIsRight ==
  /\ Scans!ScansHonest = AnswerRight(input, answer)
  /\ Scans!ScansHonest' = AnswerRight(input', answer')
<1>1. Scans!RequestsHonest = (answer.tool = "requests" => RequestsRight(input, answer))
  BY Zenon DEF RequestsRight, Scans!RequestsHonest, Scans!Result
<1>2. Scans!ServicesHonest = (answer.tool = "services" => ServicesRight(input, answer))
  BY Zenon DEF ServicesRight, Scans!ServicesHonest, Scans!Result
<1>3. Scans!SummaryHonest = (answer.tool = "summary" => SummaryRight(input, answer))
  BY Zenon DEF SummaryRight, Scans!SummaryHonest, Scans!Result
<1>4. Scans!TracesHonest = (answer.tool = "traces" => TracesRight(input, answer))
  BY Zenon DEF TracesRight, FiguresAre, Scans!TracesHonest, Scans!FiguresRight, Scans!EntriesOf, Scans!Result
<1>5. Scans!RequestsHonest' = (answer'.tool = "requests" => RequestsRight(input', answer'))
  BY Zenon DEF RequestsRight, Scans!RequestsHonest, Scans!Result
<1>6. Scans!ServicesHonest' = (answer'.tool = "services" => ServicesRight(input', answer'))
  BY Zenon DEF ServicesRight, Scans!ServicesHonest, Scans!Result
<1>7. Scans!SummaryHonest' = (answer'.tool = "summary" => SummaryRight(input', answer'))
  BY Zenon DEF SummaryRight, Scans!SummaryHonest, Scans!Result
<1>8. Scans!TracesHonest' = (answer'.tool = "traces" => TracesRight(input', answer'))
  BY Zenon DEF TracesRight, FiguresAre, Scans!TracesHonest, Scans!FiguresRight, Scans!EntriesOf, Scans!Result
<1>9. /\ Scans!EntryWithinBudget = (answer.tool = "entry" => Scans!Size(answer.result) <= Scans!MaxBytes)
      /\ Scans!EntryWithinBudget' = (answer'.tool = "entry" => Scans!Size(answer'.result) <= Scans!MaxBytes)
  BY DEF Scans!EntryWithinBudget, Scans!Result
<1>10. Scans!ScansHonest = AnswerRight(input, answer)
  BY Zenon, <1>1, <1>2, <1>3, <1>4, <1>9 DEF Scans!ScansHonest, AnswerRight
<1>11. Scans!ScansHonest' = AnswerRight(input', answer')
  BY Zenon, <1>5, <1>6, <1>7, <1>8, <1>9 DEF Scans!ScansHonest, AnswerRight
<1> QED BY <1>10, <1>11

LEMMA ScansHonestKept ==
  ASSUME Scans!ScansHonest, UNCHANGED <<input, answer>> PROVE Scans!ScansHonest'
  BY HonestIsRight

LEMMA ScanFoundKept ==
  ASSUME UNCHANGED input, NEW tool, NEW found, NEW n, NEW limit, ScanFound(tool, found, n, limit)
  PROVE  ScanFound(tool, found, n, limit)'
<1>1. RequestsFound(found, n, limit) => RequestsFound(found, n, limit)' BY Zenon DEF RequestsFound
<1>2. ServicesFound(found, n) => ServicesFound(found, n)' BY Zenon DEF ServicesFound
<1>3. SummaryFound(found, n) => SummaryFound(found, n)' BY Zenon DEF SummaryFound
<1>4. ASSUME NEW id, NEW t, TraceFound(id, t, n) PROVE TraceFound(id, t, n)'
  BY Zenon, <1>4 DEF TraceFound, Scans!EntriesOf
<1>5. TracesFound(found, n) => TracesFound(found, n)'
  <2>1. TracesFound(found, n) => \A id \in DOMAIN found : TraceFound(id, found[id], n)' BY <1>4 DEF TracesFound
  <2>2. TracesFound(found, n) => DOMAIN found = ({input[i].trace : i \in 1..n} \ {Scans!Absent})'
    BY Zenon DEF TracesFound
  <2> QED BY <2>1, <2>2 DEF TracesFound
<1> QED BY <1>1, <1>2, <1>3, <1>5 DEF ScanFound

LEMMA ScansReplied ==
  ASSUME ScansInv, UNCHANGED input, call' = Scans!Idle, AnswerRight(input, answer') PROVE ScansInv'
  BY HonestIsRight DEF ScansInv, Scans!Idle

LEMMA ScansBegin ==
  ASSUME Scans!ScanConstants, ScansInv,
         NEW tool, NEW limit \in Nat, NEW most \in Nat, NEW found, Scans!Begin(tool, limit, most, found),
         most <= LogsHardLimit, tool # "traces" => most = LogsHardLimit, ScanFound(tool, found, 0, limit)
  PROVE  ScansInv'
<1>1. call' = Scan(tool, limit, most, 0, found) /\ UNCHANGED <<input, answer>> BY DEF Scans!Begin, Scan
<1>2. /\ call'.tool = tool /\ call'.limit = limit /\ call'.most = most /\ call'.read = 0 /\ call'.found = found
  BY <1>1 DEF Scan
<1>3. Len(input) \in Nat BY LogFacts DEF ScansInv
<1>4. ScanFound(tool, found, 0, limit)' BY <1>1, ScanFoundKept
<1>5. ScanRun' BY <1>1, <1>2, <1>3, <1>4 DEF ScanRun
<1>6. Scans!ScansHonest' BY <1>1, ScansHonestKept DEF ScansInv
<1> QED BY <1>1, <1>5, <1>6 DEF ScansInv

LEMMA FoundNothing ==
  ASSUME NEW limit \in Nat
  PROVE  /\ RequestsFound(<<>>, 0, limit) /\ ServicesFound(<<>>, 0) /\ TracesFound(<<>>, 0)
         /\ SummaryFound([severities |-> <<>>, services |-> <<>>, errors |-> <<>>], 0)
<1>1. 1..0 = {} OBVIOUS
<1>2. RequestsFound(<<>>, 0, limit) BY <1>1 DEF RequestsFound, Scans!Increasing, Scans!Shown
<1>3. ServicesFound(<<>>, 0) BY <1>1 DEF ServicesFound
<1>4. TracesFound(<<>>, 0) BY <1>1 DEF TracesFound
<1>5. ASSUME NEW f, DOMAIN f = {}, NEW ignored PROVE <<>> = Scans!Tally(f, ignored)
  <2>1. Scans!Range(f) \ ignored = {} BY <1>5, ScansSame
  <2> QED BY <2>1 DEF Scans!Tally
<1>6. SummaryFound([severities |-> <<>>, services |-> <<>>, errors |-> <<>>], 0)
  BY <1>1, <1>5 DEF SummaryFound
<1> QED BY <1>2, <1>3, <1>4, <1>6

LEMMA ScansRead ==
  ASSUME Scans!ScanConstants, ScansInv, call # Scans!Idle, Scans!MoreToRead, NEW found, Scans!Read(found),
         ScanFound(call.tool, found, call.read + 1, call.limit)
  PROVE  ScansInv'
<1>1. ScanRun /\ Len(input) \in Nat /\ LogsHardLimit \in Nat BY LogFacts DEF ScansInv
<1>2. PICK tool, limit, most, read :
        /\ call = Scan(tool, limit, most, read, call.found)
        /\ tool = call.tool /\ limit = call.limit /\ most = call.most /\ read = call.read
  BY <1>1 DEF ScanRun
<1>3. /\ limit \in Nat /\ read \in Nat /\ most \in Nat /\ most <= LogsHardLimit
      /\ tool # "traces" => most = LogsHardLimit
  BY <1>1, <1>2 DEF ScanRun
<1>4. call' = [call EXCEPT !.read = call.read + 1, !.found = found] /\ UNCHANGED <<input, answer>> BY DEF Scans!Read
<1>5. call' = Scan(tool, limit, most, read + 1, found)
  <2>1. [Scan(tool, limit, most, read, call.found) EXCEPT !.read = read + 1]
        = Scan(tool, limit, most, read + 1, call.found)
    BY DEF Scan
  <2>2. [Scan(tool, limit, most, read + 1, call.found) EXCEPT !.found = found]
        = Scan(tool, limit, most, read + 1, found)
    BY DEF Scan
  <2> QED BY <1>2, <1>4, <2>1, <2>2
<1>6. /\ call'.tool = tool /\ call'.limit = limit /\ call'.most = most /\ call'.read = read + 1 /\ call'.found = found
  BY <1>5 DEF Scan
<1>7. read + 1 <= most /\ read + 1 <= Len(input) BY <1>1, <1>2, <1>3 DEF Scans!MoreToRead
<1>8. ScanFound(tool, found, read + 1, limit)' BY <1>2, <1>4, ScanFoundKept
<1>9. ScanRun' BY <1>3, <1>4, <1>5, <1>6, <1>7, <1>8 DEF ScanRun
<1>10. Scans!ScansHonest' BY <1>4, ScansHonestKept DEF ScansInv
<1> QED BY <1>4, <1>9, <1>10 DEF ScansInv

LEMMA ScanningFacts ==
  ASSUME Scans!ScanConstants, ScansInv, NEW tool, Scans!Scanning(tool)
  PROVE  /\ call # Scans!Idle /\ ScanRun /\ call.tool = tool
         /\ call.read \in Nat /\ call.limit \in Nat
         /\ Scans!MoreToRead => call.read + 1 \in 1..Len(input) /\ input[call.read + 1] \in Scans!LogEntries
         /\ \A i \in 1..call.read : input[i] \in Scans!LogEntries
         /\ ScanFound(tool, call.found, call.read, call.limit)
<1>1. call # Scans!Idle BY DEF Scans!Scanning, Scans!Idle
<1>2. ScanRun /\ call.tool = tool BY <1>1 DEF ScansInv, Scans!Scanning
<1>3. call.read \in Nat /\ call.limit \in Nat /\ call.read <= Len(input) BY <1>2 DEF ScanRun
<1>4. Len(input) \in Nat /\ \A i \in 1..Len(input) : input[i] \in Scans!LogEntries BY LogFacts DEF ScansInv
<1>5. Scans!MoreToRead => call.read + 1 \in 1..Len(input) BY <1>3, <1>4 DEF Scans!MoreToRead
<1>6. \A i \in 1..call.read : i \in 1..Len(input) BY <1>3, <1>4
<1> QED BY <1>1, <1>2, <1>3, <1>4, <1>5, <1>6 DEF ScanRun

LEMMA ScansReadRequest == ASSUME Scans!ScanConstants, ScansInv, Scans!ReadRequest PROVE ScansInv'
<1> DEFINE found == IF Scans!Entry.http THEN Append(call.found, call.read + 1) ELSE call.found
<1>1. Scans!Scanning("requests") /\ Scans!MoreToRead /\ ~ Scans!Enough(call.found, call.limit) /\ Scans!Read(found)
  BY DEF Scans!ReadRequest
<1>2. /\ call # Scans!Idle /\ call.tool = "requests" /\ call.read \in Nat /\ call.limit \in Nat
      /\ input[call.read + 1] \in Scans!LogEntries /\ RequestsFound(call.found, call.read, call.limit)
  BY <1>1, ScanningFacts DEF ScanFound
<1>3. input[call.read + 1].http \in BOOLEAN BY <1>2, EntryFacts
<1>4. RequestsFound(IF input[call.read + 1].http THEN Append(call.found, call.read + 1) ELSE call.found,
                    call.read + 1, call.limit)
  BY <1>1, <1>2, <1>3, RequestFound
<1>5. ScanFound(call.tool, found, call.read + 1, call.limit) BY <1>2, <1>4 DEF ScanFound, Scans!Entry
<1> HIDE DEF found
<1> QED BY <1>1, <1>2, <1>5, ScansRead

LEMMA ScansReadService == ASSUME Scans!ScanConstants, ScansInv, Scans!ReadService PROVE ScansInv'
<1> DEFINE r == Scans!Entry.resource[1]  key == Scans!ServiceKey(r)
           seen == [k \in DOMAIN call.found \union {key} |-> IF k \in DOMAIN call.found THEN call.found[k] ELSE r]
           found == IF Scans!Named(Scans!Entry) THEN seen ELSE call.found
<1>1. Scans!Scanning("services") /\ Scans!MoreToRead /\ Scans!Read(found) BY DEF Scans!ReadService
<1>2. /\ call # Scans!Idle /\ call.tool = "services" /\ call.read \in Nat
      /\ ServicesFound(call.found, call.read)
  BY <1>1, ScanningFacts DEF ScanFound
<1>3. Scans!Entry = input[call.read + 1] BY DEF Scans!Entry
<1>4. ServicesFound(found, call.read + 1)
  <2> HIDE DEF key, r
  <2>1. key = Scans!ServiceKey(r) /\ r = input[call.read + 1].resource[1] BY <1>3 DEF key, r
  <2> QED BY <1>2, <1>3, <2>1, ServiceFound
<1> HIDE DEF found
<1>5. ScanFound(call.tool, found, call.read + 1, call.limit) BY <1>2, <1>4 DEF ScanFound
<1> QED BY <1>1, <1>2, <1>5, ScansRead

LEMMA ScansReadForSummary == ASSUME Scans!ScanConstants, ScansInv, Scans!ReadForSummary PROVE ScansInv'
<1> DEFINE e == input[call.read + 1]
           found == [severities |-> Scans!Bump(call.found.severities, e.severity),
                     services |-> Scans!BumpNamed(call.found.services, Scans!ServiceName(e)),
                     errors |-> Scans!BumpNamed(call.found.errors, Scans!ErrorMessage(e))]
<1>1. Scans!Scanning("summary") /\ Scans!MoreToRead /\ Scans!Read(found) BY DEF Scans!ReadForSummary, Scans!Entry
<1>2. /\ call # Scans!Idle /\ call.tool = "summary" /\ call.read \in Nat
      /\ SummaryFound(call.found, call.read)
  BY <1>1, ScanningFacts DEF ScanFound
<1>3. SummaryFound(found, call.read + 1) BY <1>2, EntrySummed
<1> HIDE DEF found
<1>4. ScanFound(call.tool, found, call.read + 1, call.limit) BY <1>2, <1>3 DEF ScanFound
<1> QED BY <1>1, <1>2, <1>4, ScansRead

LEMMA ScansReadForTraces == ASSUME Scans!ScanConstants, ScansInv, Scans!ReadForTraces PROVE ScansInv'
<1> DEFINE found == Scans!AddToTraces(call.found, Scans!Entry)
<1>1. Scans!Scanning("traces") /\ Scans!MoreToRead /\ Scans!Read(found) BY DEF Scans!ReadForTraces
<1>2. /\ call # Scans!Idle /\ call.tool = "traces" /\ call.read \in Nat
      /\ TracesFound(call.found, call.read) /\ input[call.read + 1] \in Scans!LogEntries
      /\ \A i \in 1..call.read : input[i] \in Scans!LogEntries
  BY <1>1, ScanningFacts DEF ScanFound
<1>3. TracesFound(found, call.read + 1) BY <1>2, TraceNextFound DEF Scans!Entry
<1> HIDE DEF found
<1>4. ScanFound(call.tool, found, call.read + 1, call.limit) BY <1>2, <1>3 DEF ScanFound
<1> QED BY <1>1, <1>2, <1>4, ScansRead

-----------------------------------------------------------------------------
(* The answers.                                                            *)
Answer(tool, limit, n, truncated, result) ==
  [tool |-> tool, limit |-> limit, scanned |-> n, truncated |-> truncated, result |-> result]

LEMMA ReadToTheEnd ==
  ASSUME Scans!ScanConstants, ScansInv, call # Scans!Idle
  PROVE  /\ Len(input) \in Nat /\ call.read \in Nat /\ call.read <= Len(input) /\ call.read <= LogsHardLimit
         /\ LogsHardLimit \in Nat /\ DOMAIN input = 1..Len(input)
         /\ ~ Scans!MoreToRead /\ call.tool # "traces" =>
              call.read = Len(input) \/ call.read = LogsHardLimit
<1>1. ScanRun BY DEF ScansInv
<1>2. /\ call.read \in Nat /\ call.most \in Nat /\ call.read <= Len(input) /\ call.read <= call.most
      /\ call.most <= LogsHardLimit /\ (call.tool # "traces" => call.most = LogsHardLimit)
  BY <1>1 DEF ScanRun
<1>3. Len(input) \in Nat /\ LogsHardLimit \in Nat /\ DOMAIN input = 1..Len(input) BY LogFacts DEF ScansInv
<1> QED BY <1>2, <1>3 DEF Scans!MoreToRead

(* Requests are shown up to the limit; the scan ends past it, at the end   *)
(* of the entries or at the bound on them.                                 *)
RequestsRead(list, n, limit) ==
  /\ RequestsFound(list, n, limit) /\ LogsHardLimit \in Nat
  /\ Len(input) \in Nat /\ DOMAIN input = 1..Len(input) /\ n <= Len(input) /\ n <= LogsHardLimit
  /\ Len(list) > limit \/ n = Len(input) \/ n = LogsHardLimit

LEMMA RequestsAnswer ==
  ASSUME NEW n \in Nat, NEW limit \in Nat, NEW list, RequestsRead(list, n, limit)
  PROVE  RequestsRight(input, Answer("requests", limit, n, Len(list) > limit \/ n >= LogsHardLimit,
                                     SubSeq(list, 1, Scans!Least(Len(list), limit))))
<1> DEFINE L == Len(list)  N == Len(input)  m == Scans!Least(L, limit)  r == SubSeq(list, 1, m)  cut == L > limit \/ n >= LogsHardLimit
           R == {i \in DOMAIN input : input[i].http}  a == Answer("requests", limit, n, cut, r)
<1>b. list \in Seq(Nat) /\ Scans!Increasing(list) /\ Scans!Shown(list) = {i \in 1..n : input[i].http}
  BY DEF RequestsFound, RequestsRead
<1>1. L \in 0..(limit + 1) /\ L = Len(list) /\ DOMAIN list = 1..L
  BY DEF RequestsFound, RequestsRead
<1>c. DOMAIN input = 1..N BY DEF RequestsRead
<1>a. /\ LogsHardLimit \in Nat /\ n <= LogsHardLimit /\ N \in Nat /\ n <= N
      /\ L > limit \/ n = N \/ n = LogsHardLimit
  BY DEF RequestsRead
<1> HIDE DEF L, N
<1>2. m \in Nat /\ m <= L /\ m <= limit /\ (L > limit => m = limit) /\ (L <= limit => m = L)
  BY <1>1 DEF Scans!Least
<1> HIDE DEF m
<1>3. DOMAIN r = 1..m /\ Len(r) = m /\ \A k \in 1..m : r[k] = list[k] BY <1>1, <1>2, <1>b
<1>4. a.result = r /\ a.truncated = cut /\ a.limit = limit /\ a.scanned = n BY DEF Answer
<1> HIDE DEF r, cut, a
<1>5. \A k \in 1..m : k \in DOMAIN list BY <1>1, <1>2
<1>6. Scans!Increasing(r) BY <1>1, <1>b, <1>2, <1>3, <1>5 DEF Scans!Increasing
<1>7. Scans!Shown(r) = {list[k] : k \in 1..m} BY <1>3 DEF Scans!Shown
<1>8. ASSUME NEW k \in DOMAIN list PROVE list[k] \in 1..n /\ list[k] \in R /\ list[k] \in Nat
  <2>1. list[k] \in Scans!Shown(list) BY DEF Scans!Shown
  <2>2. list[k] \in 1..n /\ input[list[k]].http BY <1>b, <2>1
  <2>3. list[k] \in DOMAIN input BY <1>a, <1>c, <2>2
  <2> QED BY <2>2, <2>3
<1>9. ASSUME NEW i \in R, i \in 1..n PROVE \E k \in DOMAIN list : list[k] = i
  <2>1. i \in Scans!Shown(list) BY <1>b, <1>9 DEF R
  <2> QED BY <2>1 DEF Scans!Shown
<1>10. Scans!Shown(r) \subseteq R BY <1>5, <1>7, <1>8
<1>11. ASSUME NEW i \in R, NEW q \in 1..m, i < list[q] PROVE i \in Scans!Shown(r)
  <2>0. q \in DOMAIN list /\ i \in DOMAIN input BY <1>5
  <2>a. list[q] \in 1..n /\ i \in 1..N BY <1>8, <1>c, <2>0
  <2>1. i \in 1..n BY <1>11, <1>a, <2>a
  <2>2. PICK p \in DOMAIN list : list[p] = i BY <1>9, <2>1
  <2>3. p < q
    <3>1. q \in DOMAIN list BY <1>5
    <3>2. p \in Nat /\ q \in Nat BY <1>1
    <3>3. CASE q < p BY <1>b, <1>8, <1>11, <2>2, <3>1, <3>2, <3>3 DEF Scans!Increasing
    <3>4. CASE q = p BY <1>8, <1>11, <2>2, <3>1, <3>4
    <3> QED BY <3>2, <3>3, <3>4
  <2>4. p \in 1..m BY <1>1, <1>2, <2>3
  <2> QED BY <1>7, <2>2, <2>4
<1>12. cut => Len(r) = limit \/ n = LogsHardLimit BY <1>a, <1>1, <1>2, <1>3 DEF cut
<1>13. ASSUME ~ cut PROVE Scans!Shown(r) = R
  <2>1. m = L /\ n = N BY <1>a, <1>1, <1>2, <1>13 DEF cut
  <2>2. R \subseteq Scans!Shown(r) BY <1>a, <1>c, <1>1, <1>7, <1>9, <2>1
  <2> QED BY <1>10, <2>2
<1>14. RequestsRight(input, a)
  <2>1. \A i \in R, j \in Scans!Shown(r) : i < j => i \in Scans!Shown(r) BY <1>7, <1>11
  <2> HIDE DEF R
  <2> QED BY <1>4, <1>6, <1>10, <1>12, <1>13, <2>1 DEF RequestsRight, R
<1> QED BY <1>14 DEF a, cut, r, m, L, N

LEMMA ScansReturnRequests == ASSUME Scans!ScanConstants, ScansInv, Scans!ReturnRequests PROVE ScansInv'
<1>1. Scans!Scanning("requests") /\ (~ Scans!MoreToRead \/ Scans!Enough(call.found, call.limit)) BY DEF Scans!ReturnRequests
<1>2. /\ call # Scans!Idle /\ call.tool = "requests" /\ call.read \in Nat /\ call.limit \in Nat
      /\ RequestsFound(call.found, call.read, call.limit)
  BY <1>1, ScanningFacts DEF ScanFound
<1>3. /\ Len(input) \in Nat /\ call.read <= Len(input) /\ call.read <= LogsHardLimit
      /\ LogsHardLimit \in Nat /\ DOMAIN input = 1..Len(input)
      /\ ~ Scans!MoreToRead => call.read = Len(input) \/ call.read = LogsHardLimit
  BY <1>2, ReadToTheEnd
<1>4. Len(call.found) > call.limit \/ call.read = Len(input) \/ call.read = LogsHardLimit
  BY <1>1, <1>3 DEF Scans!Enough
<1>5. /\ UNCHANGED input /\ call' = Scans!Idle
      /\ answer' = Answer("requests", call.limit, call.read, Len(call.found) > call.limit \/ call.read >= LogsHardLimit,
                          SubSeq(call.found, 1, Scans!Least(Len(call.found), call.limit)))
  BY <1>2 DEF Scans!ReturnRequests, Scans!Reply, Answer
<1>a. RequestsRead(call.found, call.read, call.limit) BY <1>2, <1>3, <1>4 DEF RequestsRead
<1>6. RequestsRight(input, answer') BY <1>2, <1>a, <1>5, RequestsAnswer
<1>7. answer'.tool = "requests" BY <1>5 DEF Answer
<1>8. AnswerRight(input, answer') BY <1>6, <1>7 DEF AnswerRight
<1> QED BY <1>5, <1>8, ScansReplied

LEMMA ScansReturnServices == ASSUME Scans!ScanConstants, ScansInv, Scans!ReturnServices PROVE ScansInv'
<1>1. Scans!Scanning("services") /\ ~ Scans!MoreToRead BY DEF Scans!ReturnServices
<1>2. /\ call # Scans!Idle /\ call.tool = "services" /\ call.read \in Nat
      /\ ServicesFound(call.found, call.read)
  BY <1>1, ScanningFacts DEF ScanFound
<1>3. call.read = Len(input) \/ call.read >= LogsHardLimit BY <1>1, <1>2, ReadToTheEnd
<1>4. /\ UNCHANGED input /\ call' = Scans!Idle
      /\ answer' = Answer("services", call.limit, call.read, call.read >= LogsHardLimit, call.found)
  BY <1>2 DEF Scans!ReturnServices, Scans!Reply, Answer
<1>5. /\ answer'.result = call.found /\ answer'.scanned = call.read
      /\ answer'.truncated = (call.read >= LogsHardLimit)
  BY <1>4 DEF Answer
<1>6. ServicesRight(input, answer') BY <1>2, <1>3, <1>5 DEF ServicesRight, ServicesFound
<1>7. answer'.tool = "services" BY <1>4 DEF Answer
<1>8. AnswerRight(input, answer') BY <1>6, <1>7 DEF AnswerRight
<1> QED BY <1>4, <1>8, ScansReplied

(* The counts of a summary have natural keys, so that Greatest sorts them. *)
LEMMA SummaryAnswer ==
  ASSUME NEW n \in Nat, NEW counts, SummaryFound(counts, n), TopServices \in Nat,
         \A i \in 1..n : input[i] \in Scans!LogEntries
  PROVE  /\ Scans!IsTop(Scans!Greatest(counts.services, TopServices), counts.services)
         /\ Scans!IsTop(Scans!Greatest(counts.errors, TopServices), counts.errors)
<1> DEFINE G == [i \in 1..n |-> Scans!ServiceName(input[i])]  H == [i \in 1..n |-> Scans!ErrorMessage(input[i])]
           None0 == {Scans!Absent}
<1>1. counts.services = Scans!Tally(G, None0) /\ counts.errors = Scans!Tally(H, None0) BY DEF SummaryFound
<1>2. DOMAIN G = 1..n /\ DOMAIN H = 1..n OBVIOUS
<1>3. \A i \in 1..n : G[i] \in Nat /\ H[i] \in Nat BY EntryFacts
<1> HIDE DEF G, H, None0
<1>4. ASSUME NEW f, DOMAIN f = 1..n, \A i \in 1..n : f[i] \in Nat
      PROVE  Scans!IsTop(Scans!Greatest(Scans!Tally(f, None0), TopServices), Scans!Tally(f, None0))
  <2> DEFINE T == Scans!Tally(f, None0)
  <2>1. DOMAIN T = {f[i] : i \in 1..n} \ None0 /\ IsFiniteSet(DOMAIN T) /\ \A v \in DOMAIN T : T[v] \in Nat
    BY <1>4, TallyFinite
  <2>2. DOMAIN T \subseteq Int BY <1>4, <2>1
  <2> HIDE DEF T
  <2>3. Scans!IsTop(Scans!Greatest(T, TopServices), T) BY <2>1, <2>2, GreatestFirst
  <2> QED BY <2>3 DEF T
<1> QED BY <1>1, <1>2, <1>3, <1>4

LEMMA ScansReturnSummary == ASSUME Scans!ScanConstants, ScansInv, Scans!ReturnSummary PROVE ScansInv'
<1> DEFINE result == [counts |-> call.found, samples |-> Scans!Least(5, call.read),
                      services |-> Scans!Greatest(call.found.services, TopServices),
                      errors |-> Scans!Greatest(call.found.errors, TopServices)]
<1>1. Scans!Scanning("summary") /\ ~ Scans!MoreToRead BY DEF Scans!ReturnSummary
<1>2. /\ call # Scans!Idle /\ call.tool = "summary" /\ call.read \in Nat
      /\ SummaryFound(call.found, call.read) /\ \A i \in 1..call.read : input[i] \in Scans!LogEntries
  BY <1>1, ScanningFacts DEF ScanFound
<1>3. call.read = Len(input) \/ call.read >= LogsHardLimit BY <1>1, <1>2, ReadToTheEnd
<1>a. TopServices \in Nat BY LogFacts DEF ScansInv
<1>4. /\ UNCHANGED input /\ call' = Scans!Idle
      /\ answer' = Answer("summary", call.limit, call.read, call.read >= LogsHardLimit, result)
  BY <1>2 DEF Scans!ReturnSummary, Scans!Reply, Answer
<1>5. /\ result.counts = call.found /\ result.services = Scans!Greatest(call.found.services, TopServices)
      /\ result.errors = Scans!Greatest(call.found.errors, TopServices)
  OBVIOUS
<1> HIDE DEF result
<1>6. answer'.result = result /\ answer'.scanned = call.read /\ answer'.truncated = (call.read >= LogsHardLimit)
  BY <1>4 DEF Answer
<1>7. /\ Scans!IsTop(result.services, call.found.services) /\ Scans!IsTop(result.errors, call.found.errors)
  BY <1>2, <1>a, <1>5, SummaryAnswer
<1>8. SummaryRight(input, answer') BY <1>2, <1>3, <1>5, <1>6, <1>7 DEF SummaryRight, SummaryFound
<1>9. answer'.tool = "summary" BY <1>4 DEF Answer
<1>10. AnswerRight(input, answer') BY <1>8, <1>9 DEF AnswerRight
<1> QED BY <1>4, <1>10, ScansReplied

(* The figures of a trace, and the order in which traces are shown.        *)
LEMMA GreatestOf ==
  ASSUME NEW S \in SUBSET Nat, NEW m \in S
  PROVE  /\ (\A x \in S : x <= m) => Scans!Max(S) = m
         /\ (\A x \in S : m <= x) => Scans!Min(S) = m
<1> DEFINE Top(x) == \A y \in S : x >= y  Low(x) == \A y \in S : x <= y
<1>1. m \in Nat /\ \A x \in S : x \in Nat OBVIOUS
<1>2. ASSUME \A x \in S : x <= m PROVE Scans!Max(S) = m
  <2>1. Top(m) BY <1>1, <1>2
  <2>2. \A x \in S : Top(x) => x = m BY <1>1, <1>2
  <2>3. Scans!Max(S) = CHOOSE x \in S : Top(x) BY DEF Scans!Max
  <2> HIDE DEF Top
  <2> QED BY <2>1, <2>2, <2>3
<1>3. ASSUME \A x \in S : m <= x PROVE Scans!Min(S) = m
  <2>1. Low(m) BY <1>1, <1>3
  <2>2. \A x \in S : Low(x) => x = m BY <1>1, <1>3
  <2>3. Scans!Min(S) = CHOOSE x \in S : Low(x) BY DEF Scans!Min
  <2> HIDE DEF Low
  <2> QED BY <2>1, <2>2, <2>3
<1> QED BY <1>2, <1>3

LEMMA TraceFigures ==
  ASSUME NEW id, NEW t, NEW n \in Nat, TraceFound(id, t, n), \A i \in 1..n : input[i] \in Scans!LogEntries
  PROVE  FiguresAre(input, id, t, n)
<1> DEFINE mine == {i \in 1..n : input[i].trace = id}
           times == {input[i].time : i \in mine} \ {Scans!Absent}
           ranks == {input[i].severity : i \in mine}
<1>1. mine = Scans!EntriesOf(id, n) BY DEF Scans!EntriesOf
<1>2. \A i \in mine : input[i].severity \in Nat /\ input[i].time \in Nat BY EntryFacts
<1> HIDE DEF mine
<1>3. /\ mine # {} /\ t.count = Cardinality(mine)
      /\ t.severity \in Nat /\ t.first \in Nat /\ t.last \in Nat
      /\ \E i \in mine : t.severity = input[i].severity
      /\ t.last # 0 => \E i \in mine : t.last = input[i].time
      /\ t.first # 0 => \E i \in mine : t.first = input[i].time
      /\ \A i \in mine :
           /\ input[i].severity <= t.severity /\ input[i].time <= t.last
           /\ input[i].time # 0 => t.first # 0 /\ t.first <= input[i].time
  BY <1>1 DEF TraceFound
<1>4. t.count = Scans!Cardinality(mine) BY <1>3, ScansSame
<1>5. t.severity = Scans!Max(ranks)
  <2>1. ranks \in SUBSET Nat /\ t.severity \in ranks /\ \A x \in ranks : x <= t.severity BY <1>2, <1>3
  <2> HIDE DEF ranks
  <2> QED BY <2>1, GreatestOf
<1> DEFINE all == {Scans!Absent} \union times
<1>6. t.last = Scans!Max(all)
  <2>1. all \in SUBSET Nat BY <1>2 DEF Scans!Absent
  <2>2. t.last \in all BY <1>3 DEF Scans!Absent
  <2>3. \A x \in all : x <= t.last BY <1>3 DEF Scans!Absent
  <2> HIDE DEF all
  <2> QED BY <2>1, <2>2, <2>3, GreatestOf
<1>7. ASSUME times # {} PROVE t.first = Scans!Min(times)
  <2>1. times \in SUBSET Nat BY <1>2 DEF Scans!Absent
  <2>2. t.first # 0 BY <1>3, <1>7 DEF Scans!Absent
  <2>3. t.first \in times BY <1>3, <2>2 DEF Scans!Absent
  <2>4. \A x \in times : t.first <= x BY <1>3 DEF Scans!Absent
  <2> HIDE DEF times
  <2> QED BY <2>1, <2>3, <2>4, GreatestOf
<1> QED BY Zenon, <1>4, <1>5, <1>6, <1>7 DEF mine, FiguresAre

LEMMA TracesSorted ==
  ASSUME NEW traces, NEW n \in Nat, TracesFound(traces, n), \A i \in 1..n : input[i] \in Scans!LogEntries
  PROVE  Sorts([a \in DOMAIN traces |-> {b \in DOMAIN traces : Scans!Before(traces, b, a)}])
<1> DEFINE D == DOMAIN traces  A(a) == {b \in D : Scans!Before(traces, b, a)}  ahead == [a \in D |-> A(a)]
           T == {input[i].trace : i \in 1..n}  trace == [i \in 1..n |-> input[i].trace]
<1>1. D = T \ {Scans!Absent} /\ \A id \in D : TraceFound(id, traces[id], n) BY DEF TracesFound
<1>2. IsFiniteSet(D)
  <2>1. trace \in Surjection(1..n, T) BY Zenon DEF Surjection
  <2>2. IsFiniteSet(1..n) BY FS_Interval
  <2>3. IsFiniteSet(T)
    <3> HIDE DEF T, trace
    <3> QED BY <2>1, <2>2, FS_Surjection
  <2> QED BY <1>1, <2>3, FS_Subset
<1>3. D \subseteq Nat BY <1>1, EntryFacts
<1>4. ASSUME NEW id \in D PROVE traces[id].count \in Nat /\ traces[id].last \in Nat /\ id \in Nat
  <2>1. Cardinality(Scans!EntriesOf(id, n)) \in Nat BY EntriesOfNext
  <2> QED BY <1>1, <1>3, <2>1 DEF TraceFound
<1> HIDE DEF D
<1>5. ASSUME NEW x \in D PROVE A(x) \subseteq D /\ x \notin A(x) BY <1>4 DEF Scans!Before
<1>6. ASSUME NEW x \in D, NEW y \in D
      PROVE  (x # y => x \in A(y) \/ y \in A(x)) /\ (x \in A(y) => A(x) \subseteq A(y))
  <2>1. /\ traces[x].count \in Nat /\ traces[x].last \in Nat /\ x \in Nat
        /\ traces[y].count \in Nat /\ traces[y].last \in Nat /\ y \in Nat
    BY <1>4
  <2>2. x # y => x \in A(y) \/ y \in A(x) BY <2>1 DEF Scans!Before
  <2>3. ASSUME x \in A(y), NEW z \in A(x) PROVE z \in A(y)
    <3>1. z \in D /\ traces[z].count \in Nat /\ traces[z].last \in Nat /\ z \in Nat BY <1>4
    <3>2. Scans!Before(traces, z, x) /\ Scans!Before(traces, x, y) BY <2>3
    <3>3. Scans!Before(traces, z, y) BY <2>1, <3>1, <3>2 DEF Scans!Before
    <3> QED BY <3>1, <3>3
  <2> QED BY <2>2, <2>3
<1>7. DOMAIN ahead = D /\ \A x \in D : ahead[x] = A(x) OBVIOUS
<1>8. Sorts(ahead)
  <2> HIDE DEF A, ahead
  <2> QED BY <1>2, <1>5, <1>6, <1>7 DEF Sorts
<1> QED BY <1>8 DEF D

LEMMA TracesAnswer ==
  ASSUME NEW n \in Nat, NEW limit \in Nat, NEW traces, TracesFound(traces, n),
         \A i \in 1..n : input[i] \in Scans!LogEntries, Len(input) \in Nat, n <= Len(input)
  PROVE  LET ids == DOMAIN traces
         IN TracesRight(input, Answer("traces", limit, n, n < Len(input) \/ Scans!Cardinality(ids) > limit,
              [shown |-> Scans!Ranked([a \in ids |-> {b \in ids : Scans!Before(traces, b, a)}], limit),
               traces |-> traces]))
<1> DEFINE ids == DOMAIN traces  B(a) == {b \in ids : Scans!Before(traces, b, a)}
           ahead == [a \in ids |-> B(a)]
           list == Scans!Ranked(ahead, limit)  shown == Scans!Shown(list)  N == Len(input)
           cut == n < N \/ Scans!Cardinality(ids) > limit
           result == [shown |-> list, traces |-> traces]  a == Answer("traces", limit, n, cut, result)
           mine(id) == {i \in 1..n : input[i].trace = id}
           hidden == {input[i].trace : i \in 1..n} \ (shown \union {Scans!Absent})
<1>1. ids = {input[i].trace : i \in 1..n} \ {Scans!Absent} /\ \A id \in ids : TraceFound(id, traces[id], n)
  BY DEF TracesFound
<1>2. DOMAIN ahead = ids /\ \A x \in ids : ahead[x] = B(x) OBVIOUS
<1>3. FirstOf(ahead, limit, list)
  <2>1. Sorts(ahead) BY TracesSorted
  <2> HIDE DEF ahead
  <2> QED BY <2>1, RankedFirst
<1> HIDE DEF ahead
<1>4. shown \subseteq ids
  <2>1. \A k \in DOMAIN list : list[k] \in ids BY <1>2, <1>3 DEF FirstOf
  <2> HIDE DEF list, ids
  <2> QED BY <2>1 DEF Scans!Shown
<1>5. hidden = ids \ shown BY <1>1
<1>6. ASSUME NEW id \in shown PROVE FiguresAre(input, id, traces[id], n)
  <2>1. TraceFound(id, traces[id], n) BY <1>1, <1>4
  <2> HIDE DEF shown, ids
  <2> QED BY <2>1, TraceFigures
<1>7. ASSUME NEW h \in ids PROVE traces[h].count = Scans!Cardinality(mine(h)) /\ traces[h].count \in Nat
  <2>1. TraceFound(h, traces[h], n) BY <1>1
  <2>2. mine(h) = Scans!EntriesOf(h, n) BY DEF Scans!EntriesOf
  <2>3. Cardinality(Scans!EntriesOf(h, n)) \in Nat BY EntriesOfNext
  <2> HIDE DEF mine
  <2> QED BY <2>1, <2>2, <2>3, ScansSame DEF TraceFound
<1>8. ASSUME NEW h \in ids \ shown, NEW id \in shown PROVE Scans!Cardinality(mine(h)) <= Scans!Cardinality(mine(id))
  <2>1. PICK k \in DOMAIN list : list[k] = id BY DEF Scans!Shown
  <2>2. id \in ahead[h]
    <3> HIDE DEF list, ids
    <3> QED BY <1>2, <1>3, <2>1 DEF FirstOf, shown
  <2>3. Scans!Before(traces, id, h) BY <1>2, <2>2
  <2>4. traces[id].count >= traces[h].count
    <3>1. traces[id].count \in Nat /\ traces[h].count \in Nat BY <1>4, <1>7
    <3> QED BY <2>3, <3>1 DEF Scans!Before
  <2> HIDE DEF mine, ids, shown
  <2>5. id \in ids BY <1>4
  <2> QED BY <1>7, <2>4, <2>5
<1>9. (hidden # {}) = (Scans!Cardinality(ids) > limit)
  <2>1. (DOMAIN ahead \ Scans!Shown(list) # {}) = (Cardinality(DOMAIN ahead) > limit) BY <1>3 DEF FirstOf
  <2> HIDE DEF list, ids, hidden
  <2> QED BY Zenon, <1>2, <1>5, <2>1, ScansSame DEF shown
<1>10. cut = (n < N \/ hidden # {})
  <2> HIDE DEF hidden, ids, N
  <2> QED BY Zenon, <1>9
<1>11. /\ a.result = result /\ a.truncated = cut /\ a.scanned = n
       /\ result.shown = list /\ result.traces = traces
  BY DEF Answer
<1>12. \A h \in hidden, id \in shown : Scans!Cardinality(mine(h)) <= Scans!Cardinality(mine(id))
  <2> HIDE DEF hidden, ids, shown, mine
  <2> QED BY <1>5, <1>8
<1>13. TracesRight(input, a)
  <2> HIDE DEF a, cut, result, list, ids
  <2> QED BY Zenon, <1>6, <1>10, <1>11, <1>12 DEF TracesRight
<1> QED BY <1>13 DEF a, ahead

LEMMA ScansReturnTraces == ASSUME Scans!ScanConstants, ScansInv, Scans!ReturnTraces PROVE ScansInv'
<1> DEFINE ids == DOMAIN call.found
           cut == call.read < Len(input) \/ Scans!Cardinality(ids) > call.limit
           result == [shown |-> Scans!Ranked([a \in ids |-> {b \in ids : Scans!Before(call.found, b, a)}], call.limit),
                      traces |-> call.found]
<1>1. Scans!Scanning("traces") BY DEF Scans!ReturnTraces
<1>2. /\ call # Scans!Idle /\ call.tool = "traces" /\ call.read \in Nat /\ call.limit \in Nat
      /\ TracesFound(call.found, call.read) /\ \A i \in 1..call.read : input[i] \in Scans!LogEntries
  BY <1>1, ScanningFacts DEF ScanFound
<1>3. Len(input) \in Nat /\ call.read <= Len(input) BY <1>2, ReadToTheEnd
<1>4. /\ UNCHANGED input /\ call' = Scans!Idle
      /\ answer' = Answer("traces", call.limit, call.read, cut, result)
  BY <1>2 DEF Scans!ReturnTraces, Scans!Reply, Answer
<1>5. TracesRight(input, Answer("traces", call.limit, call.read, cut, result)) BY <1>2, <1>3, TracesAnswer
<1> HIDE DEF result, cut
<1>6. answer'.tool = "traces" BY <1>4 DEF Answer
<1>7. AnswerRight(input, answer') BY <1>4, <1>5, <1>6 DEF AnswerRight
<1> QED BY <1>4, <1>7, ScansReplied

(* An entry that is cut stays an entry, and the last cut is small enough.  *)
LEMMA SizeNat == ASSUME NEW e \in Scans!EntryParts PROVE Scans!Size(e) \in Nat
<1>1. /\ e.json \in Nat /\ e.text \in Nat /\ e.grow \in Nat /\ e.url \in Nat /\ e.agent \in Nat
      /\ e.labels \in Nat /\ e.resource \in Nat /\ e.http \in Nat /\ e.meta \in Nat
  BY DEF Scans!EntryParts
<1> DEFINE sum == e.text + e.url + e.agent + e.labels + e.resource
<1>2. sum \in Nat BY <1>1
<1>3. e.grow * sum \in Nat
  <2> HIDE DEF sum
  <2> QED BY <1>1, <1>2
<1> DEFINE product == e.grow * sum
<1>4. Scans!Size(e) = e.json + product + e.http + e.meta BY DEF Scans!Size
<1> HIDE DEF product
<1>5. product \in Nat BY <1>3 DEF product
<1> QED BY <1>1, <1>4, <1>5

LEMMA CutsAreEntries ==
  ASSUME NEW e \in Scans!EntryParts
  PROVE  /\ Scans!Shorten(e) \in Scans!EntryParts
         /\ [e EXCEPT !.labels = 0] \in Scans!EntryParts
         /\ [e EXCEPT !.resource = 0] \in Scans!EntryParts
<1>1. /\ e.json \in Nat /\ e.text \in Nat /\ e.grow \in 1..6 /\ e.url \in Nat /\ e.agent \in Nat
      /\ e.labels \in Nat /\ e.resource \in Nat /\ e.http \in Nat /\ e.meta \in Nat
  BY DEF Scans!EntryParts
<1>2. /\ Scans!LabelBytes \in Nat
      /\ \A a, b \in Nat : Scans!Least(a, b) \in Nat
  BY DEF Scans!LabelBytes, Scans!Least
<1>3. /\ [e EXCEPT !.labels = 0] \in Scans!EntryParts
      /\ [e EXCEPT !.resource = 0] \in Scans!EntryParts
  BY DEF Scans!EntryParts
<1> DEFINE text == IF e.json > 0 THEN Scans!Least(e.json, 4096) ELSE Scans!Least(e.text, 4096)
           url == Scans!Least(e.url, 512)  agent == Scans!Least(e.agent, 256)
           labels == Scans!Least(e.labels, Scans!LabelBytes)  resource == Scans!Least(e.resource, Scans!LabelBytes)
<1>6. text \in Nat /\ url \in Nat /\ agent \in Nat /\ labels \in Nat /\ resource \in Nat
  BY <1>1, <1>2 DEF Scans!Least
<1>7. Scans!Shorten(e) = [e EXCEPT !.json = 0, !.text = text, !.url = url, !.agent = agent,
                                   !.labels = labels, !.resource = resource]
  BY DEF Scans!Shorten
<1> HIDE DEF text, url, agent, labels, resource
<1>8. [e EXCEPT !.json = 0, !.text = text, !.url = url] \in Scans!EntryParts BY <1>6 DEF Scans!EntryParts
<1>9. \A x \in Scans!EntryParts :
        [x EXCEPT !.agent = agent, !.labels = labels, !.resource = resource] \in Scans!EntryParts
  BY <1>6 DEF Scans!EntryParts
<1>10. Scans!Shorten(e) \in Scans!EntryParts
  <2> DEFINE x == [e EXCEPT !.json = 0, !.text = text, !.url = url]
  <2>1. Scans!Shorten(e) = [x EXCEPT !.agent = agent, !.labels = labels, !.resource = resource] BY <1>7
  <2> HIDE DEF x
  <2> QED BY <1>8, <1>9, <2>1 DEF x
<1> QED BY <1>3, <1>10

(* The last two cuts, by name.                                             *)
WithoutRequest(e) == [e EXCEPT !.url = 0, !.agent = 0, !.http = 0]
ShortText(e) == [e EXCEPT !.text = Scans!Least(@, 1024)]
LEMMA LastCuts ==
  ASSUME NEW e \in Scans!EntryParts
  PROVE  WithoutRequest(e) \in Scans!EntryParts /\ ShortText(e) \in Scans!EntryParts
<1>1. PICK w : w = WithoutRequest(e) OBVIOUS
<1>2. PICK t : t = ShortText(e) OBVIOUS
<1>3. w \in Scans!EntryParts BY <1>1 DEF WithoutRequest, Scans!EntryParts
<1>4. e.text \in Nat /\ Scans!Least(e.text, 1024) \in Nat BY DEF Scans!EntryParts, Scans!Least
<1>5. t = [e EXCEPT !.text = Scans!Least(e.text, 1024)] BY <1>2 DEF ShortText
<1>6. t \in Scans!EntryParts BY <1>4, <1>5 DEF Scans!EntryParts
<1> QED BY <1>1, <1>2, <1>3, <1>6

LEMMA ReducedIsEntry == ASSUME NEW e \in Scans!EntryParts PROVE Scans!Reduce(e) \in Scans!EntryParts
<1> DEFINE a == Scans!Shorten(e)
           b == IF Scans!Size(a) > Scans!MaxBytes THEN [a EXCEPT !.labels = 0] ELSE a
           c == IF Scans!Size(b) > Scans!MaxBytes THEN [b EXCEPT !.resource = 0] ELSE b
           d == IF Scans!Size(c) > Scans!MaxBytes THEN WithoutRequest(c) ELSE c
           r == IF Scans!Size(d) > Scans!MaxBytes THEN ShortText(d) ELSE d
<1>1. Scans!Reduce(e) = r BY Zenon DEF Scans!Reduce, Scans!DropWhile, WithoutRequest, ShortText
<1>2. a \in Scans!EntryParts BY CutsAreEntries
<1> HIDE DEF a
<1>3. b \in Scans!EntryParts BY Zenon, <1>2, CutsAreEntries
<1> HIDE DEF b
<1>4. c \in Scans!EntryParts BY Zenon, <1>3, CutsAreEntries
<1> HIDE DEF c
<1>5. d \in Scans!EntryParts BY Zenon, <1>4, LastCuts
<1> HIDE DEF d
<1>6. r \in Scans!EntryParts BY Zenon, <1>5, LastCuts
<1> QED BY <1>1, <1>6

LEMMA BoundedEntry ==
  ASSUME NEW e \in Scans!EntryParts PROVE Scans!Size(Scans!BoundLogEntry(e)) <= Scans!MaxBytes
<1> DEFINE r == Scans!Reduce(e)  q == Scans!RoutingOnly(r)
<1>1. r \in Scans!EntryParts BY ReducedIsEntry
<1>2. Scans!Size(e) \in Nat /\ Scans!Size(r) \in Nat /\ Scans!MaxBytes = 8192
  BY <1>1, SizeNat DEF Scans!MaxBytes
<1>3. Scans!Size(q) <= Scans!MaxBytes
  <2>1. /\ q.json = 0 /\ q.text = Scans!Least(r.meta, 800) /\ q.url = 0 /\ q.agent = 0 /\ q.labels = 0
        /\ q.resource = 0 /\ q.http = 0 /\ q.meta = 200 /\ q.grow = r.grow
    BY <1>1 DEF Scans!RoutingOnly, Scans!EntryParts
  <2>2. r.grow \in 1..6 /\ r.meta \in Nat BY <1>1 DEF Scans!EntryParts
  <2>3. q.text \in 0..800 /\ q.grow \in 1..6 BY <2>1, <2>2 DEF Scans!Least
  <2> HIDE DEF q, r
  <2>4. Scans!Size(q) = q.grow * q.text + 200
    <3> DEFINE sum == q.text + q.url + q.agent + q.labels + q.resource  product == q.grow * sum
    <3>1. sum = q.text BY <2>1, <2>3
    <3>2. Scans!Size(q) = q.json + product + q.http + q.meta BY Zenon DEF Scans!Size
    <3>3. product = q.grow * q.text BY Zenon, <3>1
    <3>4. product \in Int
      <4>1. \A g, t \in Int : g * t \in Int OBVIOUS
      <4>2. q.grow \in Int /\ q.text \in Int BY <2>3
      <4>3. q.grow * q.text \in Int BY Zenon, <4>1, <4>2
      <4> QED BY Zenon, <3>3, <4>3
    <3> HIDE DEF product
    <3>5. Scans!Size(q) = product + 200 BY <2>1, <3>2, <3>4
    <3> QED BY Zenon, <3>3, <3>5
  <2>5. \A t \in 0..800, g \in 1..6 : g * t + 200 <= 8192
    <3> TAKE t \in 0..800, g \in 1..6
    <3>1. g = 1 \/ g = 2 \/ g = 3 \/ g = 4 \/ g = 5 \/ g = 6 OBVIOUS
    <3> QED BY <3>1
  <2> DEFINE t == q.text  g == q.grow
  <2>6. t \in 0..800 /\ g \in 1..6 /\ Scans!Size(q) = g * t + 200 BY <2>3, <2>4
  <2> HIDE DEF t, g
  <2> DEFINE size == g * t + 200
  <2>7. size <= 8192 BY <2>5, <2>6
  <2>8. Scans!Size(q) = size BY <2>6
  <2> HIDE DEF size
  <2> QED BY <1>2, <2>7, <2>8
<1>4. Scans!BoundLogEntry(e) =
        IF Scans!Size(e) <= Scans!MaxBytes THEN e ELSE IF Scans!Size(r) > Scans!MaxBytes THEN q ELSE r
  BY Zenon DEF Scans!BoundLogEntry, Scans!DropWhile
<1> HIDE DEF q, r
<1> QED BY <1>2, <1>3, <1>4

LEMMA ScansConvertEntry == ASSUME Scans!ScanConstants, ScansInv, Scans!ConvertEntry PROVE ScansInv'
<1>1. PICK e \in EntrySizes : answer' = [tool |-> "entry", result |-> Scans!BoundLogEntry(e)] BY DEF Scans!ConvertEntry
<1>2. call' = Scans!Idle /\ UNCHANGED input BY DEF Scans!ConvertEntry
<1>3. e \in Scans!EntryParts BY DEF Scans!ScanConstants
<1>4. answer'.tool = "entry" /\ answer'.result = Scans!BoundLogEntry(e) BY <1>1
<1>5. AnswerRight(input, answer') BY <1>3, <1>4, BoundedEntry DEF AnswerRight
<1> QED BY <1>2, <1>5, ScansReplied

LEMMA ScansFailed == ASSUME Scans!ScanConstants, ScansInv, Scans!ScanFailed PROVE ScansInv'
<1>1. call' = Scans!Idle /\ UNCHANGED input /\ answer'.tool = "error" BY DEF Scans!ScanFailed
<1>2. AnswerRight(input, answer') BY <1>1 DEF AnswerRight
<1> QED BY <1>1, <1>2, ScansReplied

LEMMA ScansAgain == ASSUME Scans!ScanConstants, ScansInv, Scans!Again PROVE ScansInv'
<1>1. UNCHANGED <<input, call>> /\ answer'.tool = "none" BY DEF Scans!Again, Scans!NoAnswer
<1>2. AnswerRight(input, answer') BY <1>1 DEF AnswerRight
<1>3. Scans!ScansHonest' BY <1>1, <1>2, HonestIsRight
<1>4. ASSUME ScanRun PROVE ScanRun'
  <2>1. PICK tool, limit, most, read, found :
          /\ tool = call.tool /\ limit = call.limit /\ most = call.most /\ read = call.read /\ found = call.found
    OBVIOUS
  <2>2. ScanFound(tool, found, read, limit)' BY <1>1, <1>4, <2>1, ScanFoundKept DEF ScanRun
  <2>3. /\ call'.tool = tool /\ call'.limit = limit /\ call'.most = most /\ call'.read = read /\ call'.found = found
    BY <1>1, <2>1
  <2> QED BY <1>1, <1>4, <2>2, <2>3 DEF ScanRun
<1> QED BY <1>1, <1>3, <1>4 DEF ScansInv, Scans!Idle

LEMMA ScansAsk ==
  ASSUME Scans!ScanConstants, ScansInv,
         \/ \E limit \in ResultLimits :
              \/ Scans!FindRequests(limit)
              \/ \E scanLimit \in ResultLimits : Scans!FindTracesFromLogs(scanLimit, limit)
         \/ Scans!ListServices \/ Scans!SummarizeLogs
  PROVE  ScansInv'
<1>1. LogsHardLimit \in Nat /\ TopServices \in Nat /\ ResultLimits \subseteq Nat BY DEF Scans!ScanConstants
<1>2. \A limit \in Nat : LET least == Scans!Least(limit, LogsHardLimit) IN least \in Nat /\ least <= LogsHardLimit
  BY <1>1 DEF Scans!Least
<1>3. ASSUME NEW limit \in ResultLimits, Scans!FindRequests(limit) PROVE ScansInv'
  <2> DEFINE least == Scans!Least(limit, LogsHardLimit)
  <2>1. least \in Nat BY <1>1, <1>2
  <2>2. Scans!Begin("requests", least, LogsHardLimit, <<>>) BY <1>3 DEF Scans!FindRequests
  <2> HIDE DEF least
  <2>3. ScanFound("requests", <<>>, 0, least) BY <2>1, FoundNothing DEF ScanFound
  <2> QED BY <1>1, <2>1, <2>2, <2>3, ScansBegin
<1>4. ASSUME NEW limit \in ResultLimits, NEW scanLimit \in ResultLimits, Scans!FindTracesFromLogs(scanLimit, limit)
      PROVE  ScansInv'
  <2> DEFINE least == Scans!Least(scanLimit, LogsHardLimit)
  <2>1. least \in Nat /\ least <= LogsHardLimit /\ limit \in Nat BY <1>1, <1>2
  <2>2. Scans!Begin("traces", limit, least, <<>>) BY <1>4 DEF Scans!FindTracesFromLogs
  <2> HIDE DEF least
  <2>3. ScanFound("traces", <<>>, 0, limit) BY <2>1, FoundNothing DEF ScanFound
  <2> QED BY <2>1, <2>2, <2>3, ScansBegin
<1>5. ASSUME Scans!ListServices PROVE ScansInv'
  <2>1. Scans!Begin("services", TopServices, LogsHardLimit, <<>>) BY <1>5 DEF Scans!ListServices
  <2>2. ScanFound("services", <<>>, 0, TopServices) BY <1>1, FoundNothing DEF ScanFound
  <2> QED BY <1>1, <2>1, <2>2, ScansBegin
<1>6. ASSUME Scans!SummarizeLogs PROVE ScansInv'
  <2> DEFINE none == [severities |-> <<>>, services |-> <<>>, errors |-> <<>>]
  <2>1. Scans!Begin("summary", TopServices, LogsHardLimit, none) BY <1>6 DEF Scans!SummarizeLogs
  <2>2. SummaryFound(none, 0) BY <1>1, FoundNothing
  <2> HIDE DEF none
  <2>3. ScanFound("summary", none, 0, TopServices) BY <2>2 DEF ScanFound
  <2> QED BY <1>1, <2>1, <2>3, ScansBegin
<1> QED BY <1>3, <1>4, <1>5, <1>6

LEMMA ScansInit == Scans!Init => ScansInv
<1>1. Scans!Init => AnswerRight(input, answer) BY DEF Scans!Init, Scans!NoAnswer, AnswerRight
<1> QED BY <1>1, HonestIsRight DEF Scans!Init, ScansInv

LEMMA ScansStep == ASSUME Scans!ScanConstants, ScansInv, [Scans!Next]_(Scans!vars) PROVE ScansInv'
<1>1. ASSUME UNCHANGED Scans!vars PROVE ScansInv'
  <2>1. UNCHANGED <<input, call, answer>> BY <1>1 DEF Scans!vars
  <2>2. Scans!ScansHonest' BY <2>1, ScansHonestKept DEF ScansInv
  <2>3. ASSUME ScanRun PROVE ScanRun'
    <3>1. PICK tool, limit, most, read, found :
            /\ tool = call.tool /\ limit = call.limit /\ most = call.most /\ read = call.read /\ found = call.found
      OBVIOUS
    <3>2. ScanFound(tool, found, read, limit)' BY <2>1, <2>3, <3>1, ScanFoundKept DEF ScanRun
    <3>3. /\ call'.tool = tool /\ call'.limit = limit /\ call'.most = most /\ call'.read = read /\ call'.found = found
      BY <2>1, <3>1
    <3> QED BY <2>1, <2>3, <3>2, <3>3 DEF ScanRun
  <2> QED BY <2>1, <2>2, <2>3 DEF ScansInv, Scans!Idle
<1>2. ASSUME Scans!Next PROVE ScansInv'
  BY <1>2, ScansAsk, ScansReadRequest, ScansReadService, ScansReadForSummary, ScansReadForTraces,
     ScansReturnRequests, ScansReturnServices, ScansReturnSummary, ScansReturnTraces,
     ScansFailed, ScansConvertEntry, ScansAgain
  DEF Scans!Next
<1> QED BY <1>1, <1>2

===============================================================================
