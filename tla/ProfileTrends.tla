------------------------------ MODULE ProfileTrends ------------------------------
(***************************************************************************)
(* profiler_trends: CloudProfilerQuerier.ComputeTrends with                *)
(* prefetchProfiles and loadProfile (gcpdata/profiler.go).                 *)
(*                                                                         *)
(* A call lists profiles, fills the cache with their bytes in one scan of  *)
(* the API, and analyses them from the oldest to the newest; a profile the *)
(* cache has not is found by a scan of its own.  Other calls of the user   *)
(* use the same cache, other users the same process budget.                *)
(*                                                                         *)
(* A profile of the API is [id, time, listed, bytes, costs]: whether the   *)
(* listing selects it; whether its bytes are "ok", "bad" (they do not      *)
(* parse), "none" or "other" (they have no value at the index asked for);  *)
(* and what its functions cost (ProfileCosts).  Entries of the cache are   *)
(* of one size (ProfileCache has the sizes).                               *)
(***************************************************************************)
EXTENDS Naturals, FiniteSets, Sequences, FiniteSetsExt, Functions

CONSTANTS
    TrendInputs,   \* [api, filter, maxFunctions]; an empty filter discovers
    MaxProfiles,   \* ComputeTrendsParams.MaxProfiles
    CacheSize,     \* what the cache of the user holds
    Foreign        \* a profile another call caches

VARIABLES
    input,
    call,    \* the local variables of the running call
    answer,  \* its result
    cache,   \* the cached profiles, least recently used first
    live,    \* whether the context of the call is
    lost     \* history: the profiles of the call that other calls evicted

vars == <<input, call, answer, cache, live, lost>>

NoAnswer == [kind |-> "none"]
Fail(why) == [kind |-> "error", why |-> why]

Init ==
    /\ input \in TrendInputs
    /\ call = [pc |-> "list"] /\ answer = NoAnswer
    /\ cache \in {<<>>, <<Foreign>>}
    /\ live = TRUE /\ lost = {}

Api == input.api
ById(id) == Api[CHOOSE i \in DOMAIN Api : Api[i].id = id]

(* Profiles have names of their own and finitely many functions; the       *)
(* cache holds one at least.                                               *)
TrendConstants ==
    /\ CacheSize \in Nat \ {0}
    /\ \A t \in TrendInputs :
         /\ IsFiniteSet(DOMAIN t.api) /\ t.maxFunctions \in Nat \ {0}
         /\ \A i, j \in DOMAIN t.api : t.api[i].id = t.api[j].id => i = j
         /\ \A i \in DOMAIN t.api : t.api[i].time.sec \in Nat /\ IsFiniteSet(DOMAIN t.api[i].costs)

-----------------------------------------------------------------------------
(* The cache, as ProfileCache promises it.                                 *)
Cached(id) == \E i \in DOMAIN cache : cache[i] = id
Without(id) ==
    LET i == CHOOSE i \in DOMAIN cache : cache[i] = id
    IN SubSeq(cache, 1, i - 1) \o SubSeq(cache, i + 1, Len(cache))
Touched(id) == Append(Without(id), id)
Inserted(id) == Append(IF Len(cache) >= CacheSize THEN Tail(cache) ELSE cache, id)
WouldEvict(keep) == Len(cache) >= CacheSize /\ Head(cache) \in keep

(* Another call of the user caches a profile of its own.                   *)
OtherCall ==
    /\ call.pc \in {"prefetch", "load"} /\ ~ Cached(Foreign)
    /\ cache' = Inserted(Foreign)
    /\ lost' = lost \union (Range(cache) \ Range(cache'))
    /\ UNCHANGED <<input, call, answer, live>>

(* The time budget of the call runs out, or its client goes away.          *)
Expire ==
    /\ live /\ call.pc \in {"prefetch", "load"}
    /\ live' = FALSE
    /\ UNCHANGED <<input, call, answer, cache, lost>>

-----------------------------------------------------------------------------
(* Times are compared as text, in which fractions end without zeros: a     *)
(* whole second ("Z") sorts after its fractions (".").                     *)
Earlier(a, b) ==
    \/ a.sec < b.sec
    \/ a.sec = b.sec /\ a.frac > b.frac /\ b.frac = 0

(* The places of the profiles listed, and the orders they may be analysed  *)
(* in: from the oldest, those of one time in any order (sort.Slice).       *)
Listed == {i \in DOMAIN Api : Api[i].listed /\ Cardinality({j \in 1..(i - 1) : Api[j].listed}) < MaxProfiles}
Chronological ==
    {order \in [1..Cardinality(Listed) -> Listed] :
       \A j, k \in DOMAIN order :
         j < k => order[j] # order[k] /\ ~ Earlier(Api[order[k]].time, Api[order[j]].time)}

(* ListProfiles gave its first page, whatever its token; then the scan of  *)
(* the prefetch begins.                                                    *)
List ==
    /\ call.pc = "list" /\ Listed # {}
    /\ \E order \in Chronological :
         call' = [pc |-> "prefetch", profiles |-> [i \in DOMAIN order |-> Api[order[i]].id],
                  at |-> 1, remaining |-> Cardinality(Listed),
                  cached |-> {}, skipped |-> 0, stopped |-> "none",
                  i |-> 1, failed |-> 0, targets |-> {}, timeline |-> <<>>, fetched |-> {}]
    /\ UNCHANGED <<input, answer, cache, live, lost>>

NothingListed ==
    /\ call.pc = "list"
    /\ answer' = Fail(IF Listed = {} THEN "no profiles" ELSE "listing")
    /\ call' = [pc |-> "done"]
    /\ UNCHANGED <<input, cache, live, lost>>

Wanted == Range(call.profiles)

(* One profile of the scan: it is in the cache, is put there, or is not    *)
(* taken; a cache that can take no more ends the scan.                     *)
Prefetch ==
    LET id == Api[call.at].id
        step == [call EXCEPT !.at = @ + 1, !.remaining = @ - 1]
    IN /\ call.pc = "prefetch" /\ call.stopped = "none" /\ live
       /\ call.at <= Len(Api) /\ call.remaining > 0 /\ id \in Wanted
       /\ \/ /\ Cached(id)
             /\ call' = [step EXCEPT !.cached = @ \union {id}] /\ cache' = Touched(id)
          \/ /\ ~ Cached(id) /\ Api[call.at].bytes # "none" /\ ~ WouldEvict(Wanted)
             /\ call' = [step EXCEPT !.cached = @ \union {id}] /\ cache' = Inserted(id)
          \/ /\ ~ Cached(id) /\ Api[call.at].bytes # "none" /\ WouldEvict(Wanted)
             /\ call' = [step EXCEPT !.stopped = "would evict"] /\ UNCHANGED cache
          \/ /\ ~ Cached(id) /\ Api[call.at].bytes # "none" /\ ~ WouldEvict(Wanted)
             /\ call' = [step EXCEPT !.stopped = "process full"] /\ UNCHANGED cache
          \/ /\ ~ Cached(id) /\ Api[call.at].bytes = "none"
             /\ call' = [step EXCEPT !.skipped = @ + 1] /\ UNCHANGED cache
       /\ UNCHANGED <<input, answer, live, lost>>

PrefetchOther ==
    /\ call.pc = "prefetch" /\ call.stopped = "none" /\ live
    /\ call.at <= Len(Api) /\ call.remaining > 0 /\ Api[call.at].id \notin Wanted
    /\ call' = [call EXCEPT !.at = @ + 1]
    /\ UNCHANGED <<input, answer, cache, live, lost>>

PrefetchFailed ==
    /\ call.pc = "prefetch" /\ call.stopped = "none" /\ live
    /\ call.remaining > 0
    /\ call' = [call EXCEPT !.stopped = "list failed"]
    /\ UNCHANGED <<input, answer, cache, live, lost>>

Prefetched ==
    /\ call.pc = "prefetch"
    /\ call.stopped # "none" \/ ~ live \/ call.at > Len(Api) \/ call.remaining = 0
    /\ call' = [call EXCEPT !.pc = "load"]
    /\ UNCHANGED <<input, answer, cache, live, lost>>

-----------------------------------------------------------------------------
Current == call.profiles[call.i]
Analyzing == call.pc = "load" /\ call.i <= Len(call.profiles)

Stop ==
    /\ Analyzing /\ ~ live
    /\ answer' = Fail("stopped")
    /\ call' = [call EXCEPT !.pc = "done"]
    /\ UNCHANGED <<input, cache, live, lost>>

Failed(c) == [c EXCEPT !.i = @ + 1, !.failed = @ + 1]

Discovers == input.filter = {}
(* The first n by cost, equal ones by name.                                *)
Greatest(costs, n) ==
    {f \in DOMAIN costs :
       Cardinality({g \in DOMAIN costs : costs[g] > costs[f] \/ (costs[g] = costs[f] /\ g < f)}) < n}

(* The profile was loaded: the first one with samples says which functions *)
(* are tracked, and each adds a point to the series of its functions.      *)
(* Variant: the functions are discovered anew in each profile.             *)
Analyzed_Rediscover(c, id) ==
    LET costs == ById(id).costs
        targets == IF Discovers THEN Greatest(costs, input.maxFunctions) ELSE {}
        tracked == IF Discovers THEN targets ELSE input.filter
        point == [id |-> id, costs |-> Restrict(costs, DOMAIN costs \intersect tracked)]
    IN [c EXCEPT !.i = @ + 1, !.targets = targets, !.timeline = Append(@, point)]

Analyzed(c, id) ==
    LET costs == ById(id).costs
        targets == IF Discovers /\ c.targets = {}
                   THEN Greatest(costs, input.maxFunctions) ELSE c.targets
        tracked == IF Discovers THEN targets ELSE input.filter
        point == [id |-> id, costs |-> Restrict(costs, DOMAIN costs \intersect tracked)]
    IN [c EXCEPT !.i = @ + 1, !.targets = targets, !.timeline = Append(@, point)]

(* What becomes of the bytes of a profile; without the value asked for the *)
(* whole call fails.                                                       *)
Use(c, id) ==
    CASE ById(id).bytes = "ok" -> call' = Analyzed(c, id) /\ UNCHANGED answer
      [] ById(id).bytes = "other" -> call' = [c EXCEPT !.pc = "done"] /\ answer' = Fail("analyzing")
      [] OTHER -> call' = Failed(c) /\ UNCHANGED answer

(* A prefetched profile is parsed when it is used; bad bytes are dropped.  *)
LoadCached ==
    /\ Analyzing /\ live /\ Cached(Current)
    /\ Use(call, Current)
    /\ cache' = (IF ById(Current).bytes = "bad" THEN Without(Current)
                 ELSE Touched(Current))
    /\ UNCHANGED <<input, live, lost>>

Tried == [call EXCEPT !.fetched = @ \union {Current}]

(* The profile is found by a scan of its own, and not cached.              *)
Download ==
    /\ Analyzing /\ live /\ ~ Cached(Current)
    /\ Use(Tried, Current)
    /\ UNCHANGED <<input, cache, live, lost>>

(* That scan fails, or ends at its limit without the profile.              *)
DownloadFailed ==
    /\ Analyzing /\ live /\ ~ Cached(Current)
    /\ call' = Failed(Tried)
    /\ UNCHANGED <<input, answer, cache, live, lost>>

-----------------------------------------------------------------------------
(* The places in the timeline of the points of a function.                 *)
Series(f) == {i \in DOMAIN call.timeline : f \in DOMAIN call.timeline[i].costs}
Seen == UNION {DOMAIN call.timeline[i].costs : i \in DOMAIN call.timeline}
Peak(f) == Max({call.timeline[i].costs[f] : i \in Series(f)})

(* The functions with the highest peaks are reported; of equal ones any.   *)
Truncates == Cardinality(Seen) > input.maxFunctions
Ranked ==
    {top \in SUBSET Seen :
       /\ IF Truncates THEN Cardinality(top) = input.maxFunctions ELSE top = Seen
       /\ \A f \in top, g \in Seen \ top : Peak(f) >= Peak(g)}

Warnings ==
    {w \in {"no samples", "incomplete", "prefetch"} :
       CASE w = "no samples" -> Discovers /\ call.targets = {}
         [] w = "incomplete" -> call.failed > 0
         [] w = "prefetch" -> call.stopped # "none" \/ call.skipped > 0}

Report ==
    LET n == Len(call.profiles)
    IN /\ call.pc = "load" /\ call.i > n
       /\ IF call.failed = n THEN answer' = Fail("no profile could be analyzed")
          ELSE \E top \in Ranked :
                 answer' = [kind |-> "trends", count |-> n, analyzed |-> n - call.failed,
                            failed |-> call.failed, functions |-> top,
                            series |-> [f \in top |-> Series(f)],
                            truncated |-> Truncates, warnings |-> Warnings]
       /\ call' = [call EXCEPT !.pc = "done"]
       /\ UNCHANGED <<input, cache, live, lost>>

Again ==
    /\ call.pc = "done"
    /\ call' = [pc |-> "list"] /\ answer' = NoAnswer /\ live' = TRUE /\ lost' = {}
    /\ UNCHANGED <<input, cache>>

Next ==
    \/ OtherCall \/ Expire
    \/ List \/ NothingListed \/ Prefetch \/ PrefetchOther \/ PrefetchFailed \/ Prefetched
    \/ Stop \/ LoadCached \/ Download \/ DownloadFailed \/ Report \/ Again

Spec == Init /\ [][Next]_vars

-----------------------------------------------------------------------------
Readable(id) == ById(id).bytes = "ok"

(* Whatever the cache refuses and other calls do to it, trends are         *)
(* computed from all profiles that can be read: each is analysed or        *)
(* reported as failed, in the order of time; a function that is tracked    *)
(* has a point for every analysed profile it is in from the one that       *)
(* discovered it; and what was prefetched is downloaded again only when    *)
(* another call evicted it (profiler.go:824-1114, 302-390).                *)
TrendsComplete ==
    /\ call.pc # "list" /\ "fetched" \in DOMAIN call =>
         call.fetched \intersect call.cached \subseteq lost
    /\ answer.kind = "trends" =>
         LET timeline == call.timeline
             profile(i) == ById(timeline[i].id)
         IN /\ answer.analyzed + answer.failed = answer.count
            /\ Len(timeline) = answer.analyzed
            /\ \A id \in Range(call.profiles) :
                 (\E i \in DOMAIN timeline : timeline[i].id = id) \/ ~ Readable(id) \/ id \in call.fetched
            /\ \A i, j \in DOMAIN timeline : i < j => profile(i).time.sec <= profile(j).time.sec
            /\ \A f \in answer.functions :
                 \A i \in answer.series[f], j \in DOMAIN timeline :
                   i <= j /\ f \in DOMAIN profile(j).costs => j \in answer.series[f]
            /\ Discovers => Cardinality(answer.functions) <= input.maxFunctions
            /\ answer.failed > 0 <=> "incomplete" \in answer.warnings
===============================================================================
