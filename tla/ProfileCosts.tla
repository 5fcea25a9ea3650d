------------------------------- MODULE ProfileCosts -------------------------------
(***************************************************************************)
(* What the profiler tools compute from profiles (gcpdata/profiler.go,     *)
(* profiler_navigation.go): the ranking of functions, the callers and      *)
(* callees of one, the flame graph, the comparison of two profiles, and    *)
(* the difference of two profiles as a profile.                            *)
(*                                                                         *)
(* A profile has the types of its values and its samples.  A sample has a  *)
(* value for each type and a stack, leaf first; a location of a stack is   *)
(* the sequence of its lines, innermost first, each the number of a        *)
(* function, in the order of the names, or 0 when it has none.  A text a   *)
(* name (or a file) contains is the set of the functions it selects.       *)
(* Percentages are in hundredths.  Equal callers, callees and deltas, which*)
(* the code leaves in any order, are in the order of the names.            *)
(***************************************************************************)
EXTENDS Integers, FiniteSets, Sequences, SequencesExt, FiniteSetsExt, Functions

CONSTANTS
    ProfileInputs,  \* pairs of profiles: [current, base]
    Texts,          \* the sets of functions a text may select
    Limits,         \* limits asked for
    Shares,         \* minPct of a flame graph
    NodeBudgets     \* its maxNodes, 1000 in the code

VARIABLES
    input,   \* the profiles asked about
    call,    \* the call being answered, once the profiles are there
    answer   \* its answer

vars == <<input, call, answer>>

SumOver(S, Op(_)) == MapThenSumSet(Op, S)
Samples(p) == DOMAIN p.samples
Value(p, s, index) == p.samples[s].value[index]
Stack(p, s) == p.samples[s].stack
Total(p, index) == SumOver(Samples(p), LAMBDA s : Value(p, s, index))
CountIn(loc, f) == Cardinality({k \in DOMAIN loc : loc[k] = f})
FunctionsIn(loc) == ToSet(loc) \ {0}
AllFrames(p) == UNION {{s} \X DOMAIN Stack(p, s) : s \in Samples(p)}
LocationOf(p, frame) == Stack(p, frame[1])[frame[2]]
FunctionsOf(p) == UNION {FunctionsIn(LocationOf(p, si)) : si \in AllFrames(p)}

AbsInt(v) == IF v < 0 THEN -v ELSE v
SafePercent(value, total) ==
    LET magnitude == (2 * 10000 * AbsInt(value) + AbsInt(total)) \div (2 * AbsInt(total))
    IN IF total = 0 THEN 0
       ELSE IF (value < 0) = (total < 0) THEN magnitude ELSE -magnitude

ValidateValueIndex(p, index) == index \in DOMAIN p.types

(* The keys of a function of costs, the greatest in magnitude first, those *)
(* of equal cost by name.                                                  *)
Ranked(cost, name) ==
    SetToSortSeq(DOMAIN cost, LAMBDA a, b :
      \/ AbsInt(cost[a]) > AbsInt(cost[b])
      \/ AbsInt(cost[a]) = AbsInt(cost[b]) /\ name[a] < name[b])
Names(S) == [f \in S |-> f]
Cut(seq, limit) == IF limit > 0 /\ Len(seq) > limit THEN SubSeq(seq, 1, limit) ELSE seq

-----------------------------------------------------------------------------
(* A function costs itself what the samples cost it is the leaf of, once   *)
(* for each of its lines there; cumulatively, what the samples cost it     *)
(* appears in.                                                             *)
SelfCost(p, f, index) ==
    SumOver({s \in Samples(p) : Stack(p, s) # <<>>},
            LAMBDA s : Value(p, s, index) * CountIn(Head(Stack(p, s)), f))

(* Variant: a recursive function is counted at each of its frames.         *)
CumulativeCost_EachFrame(p, f, index) ==
    SumOver(AllFrames(p), LAMBDA si : Value(p, si[1], index) * CountIn(LocationOf(p, si), f))

CumulativeCost(p, f, index) ==
    SumOver({s \in Samples(p) : \E i \in DOMAIN Stack(p, s) : f \in ToSet(Stack(p, s)[i])},
            LAMBDA s : Value(p, s, index))

(* scanFunctionCosts: the costs of the functions of a profile among        *)
(* targets.                                                                *)
FunctionCosts(p, index, targets) ==
    [f \in FunctionsOf(p) \intersect targets |->
       [self |-> SelfCost(p, f, index), cumulative |-> CumulativeCost(p, f, index)]]

TopFunctions(p, index, limit, sortBy, selected) ==
    LET costs == FunctionCosts(p, index, selected)
        by == [f \in DOMAIN costs |-> IF sortBy = "self" THEN costs[f].self ELSE costs[f].cumulative]
        all == Ranked(by, Names(DOMAIN by))
    IN [functions |-> Cut(all, limit), costs |-> costs, total |-> Total(p, index),
        truncated |-> limit > 0 /\ Len(all) > limit]

-----------------------------------------------------------------------------
(* Where a function is on the stacks: once for each location it is in.     *)
Frames(p, f) == {si \in AllFrames(p) : f \in ToSet(LocationOf(p, si))}

(* The functions next to those frames, d frames towards the root, and what *)
(* they cost.                                                              *)
Neighbours(p, f, index, d) ==
    LET frames == {si \in Frames(p, f) : si[2] + d \in DOMAIN Stack(p, si[1])}
        beside(si) == Stack(p, si[1])[si[2] + d]
    IN [g \in UNION {FunctionsIn(beside(si)) : si \in frames} |->
          SumOver(frames, LAMBDA si : Value(p, si[1], index) * CountIn(beside(si), g))]

(* PeekProfile of the one function the text selects.                       *)
PeekFunction(p, selected, index, limit) ==
    LET f == CHOOSE f \in selected : TRUE
        entries(costs) == Cut(Ranked(costs, Names(DOMAIN costs)), limit)
        callers == Neighbours(p, f, index, 1)
        callees == Neighbours(p, f, index, -1)
    IN [function |-> f,
        self |-> SumOver({si \in Frames(p, f) : si[2] = 1}, LAMBDA si : Value(p, si[1], index)),
        cumulative |-> SumOver(Frames(p, f), LAMBDA si : Value(p, si[1], index)),
        callers |-> entries(callers), callees |-> entries(callees),
        callerCosts |-> callers, calleeCosts |-> callees,
        callersTruncated |-> Len(entries(callers)) >= limit,
        calleesTruncated |-> Len(entries(callees)) >= limit]

-----------------------------------------------------------------------------
(* The call tree: a node is the path of names from the root, which is <<>>.*)
PathOf(stack) == SelectSeq(FlattenSeq(Reverse(stack)), LAMBDA f : f # 0)
Nodes(p) == UNION {{SubSeq(PathOf(Stack(p, s)), 1, n) : n \in 1..Len(PathOf(Stack(p, s)))} : s \in Samples(p)}
NodeCost(p, node, index) ==
    IF node = <<>> THEN 0
    ELSE SumOver({s \in Samples(p) : IsPrefix(node, PathOf(Stack(p, s)))},
                 LAMBDA s : Value(p, s, index))

(* The lines of the leaf location are the last of a path.                  *)
NodeSelf(p, node, index) ==
    SumOver({s \in Samples(p) :
               /\ node # <<>> /\ IsPrefix(node, PathOf(Stack(p, s)))
               /\ Len(node) > Len(PathOf(Tail(Stack(p, s))))},
            LAMBDA s : Value(p, s, index))

Children(p, node) == {c \in Nodes(p) : Len(c) = Len(node) + 1 /\ IsPrefix(node, c)}
SortedChildren(p, node, index) ==
    LET children == Children(p, node)
    IN Ranked([c \in children |-> NodeCost(p, c, index)], [c \in children |-> Last(c)])

FindInTrie(p, selected) == {n \in Nodes(p) : Last(n) \in selected}

(* Depth first, dearest child first, within the depth, the share and the   *)
(* number of nodes asked for.                                              *)
Flamegraph(p, index, root, args) ==
    LET total == Total(p, index)
        left(t, c) == \/ t.remaining <= 0
                      \/ AbsInt(SafePercent(NodeCost(p, c, index), total)) < args.minPct
        Trees == [root : {root}, shown : SUBSET Seq(Nat), remaining : Int, pruned : Nat]
        Convert[node \in Seq(Nat), depth \in Nat, tree \in Trees] ==
          IF depth >= args.maxDepth
          THEN [tree EXCEPT !.pruned = @ + Cardinality(Children(p, node))]
          ELSE FoldLeft(LAMBDA t, c :
                          IF left(t, c) THEN [t EXCEPT !.pruned = @ + 1]
                          ELSE Convert[c, depth + 1,
                                       [t EXCEPT !.shown = @ \union {c}, !.remaining = @ - 1]],
                        tree, SortedChildren(p, node, index))
    IN Convert[root, 0, [root |-> root, shown |-> {root}, remaining |-> args.maxNodes - 1, pruned |-> 0]]

-----------------------------------------------------------------------------
(* buildDiffProfile: the library's Merge of the current profile and the    *)
(* negated base adds up the samples of equal stacks and drops those that   *)
(* cancel out.                                                             *)
DiffProfile(current, base) ==
    LET stacks(p) == {Stack(p, s) : s \in Samples(p)}
        valueOf(p, stack, index) ==
            SumOver({s \in Samples(p) : Stack(p, s) = stack}, LAMBDA s : Value(p, s, index))
        merged == {[stack |-> stack,
                    value |-> [index \in DOMAIN current.types |->
                                 valueOf(current, stack, index) - valueOf(base, stack, index)]] :
                     stack \in stacks(current) \union stacks(base)}
    IN [types |-> current.types,
        samples |-> SetToSeq({s \in merged : \E index \in DOMAIN s.value : s.value[index] # 0})]

(* CompareProfiles; a function only one profile has costs nothing in the   *)
(* other.                                                                  *)
Deltas(current, base, index) ==
    [f \in FunctionsOf(current) \union FunctionsOf(base) |->
       CumulativeCost(current, f, index) - CumulativeCost(base, f, index)]

CompareProfiles(current, base, index, topN) ==
    LET deltas == Deltas(current, base, index)
        worse == {f \in DOMAIN deltas : deltas[f] > 0}
        better == {f \in DOMAIN deltas : deltas[f] < 0}
        ranked(S) == Ranked(Restrict(deltas, S), Names(S))
    IN [regressions |-> Cut(ranked(worse), topN), improvements |-> Cut(ranked(better), topN),
        deltas |-> deltas,
        regressed |-> Cardinality(worse), improved |-> Cardinality(better),
        totalDelta |-> Total(current, index) - Total(base, index),
        truncated |-> topN > 0 /\ (Cardinality(worse) > topN \/ Cardinality(better) > topN)]

-----------------------------------------------------------------------------
NoAnswer == [tool |-> "none"]
Fail(tool) == [tool |-> "error", of |-> tool]

Init ==
    /\ input \in ProfileInputs
    /\ call = [pc |-> "idle"]
    /\ answer = NoAnswer

(* profileOrDiff: the tools analyse a profile, or the difference of two.   *)
Subject == IF call.diff THEN DiffProfile(input.current, input.base) ELSE input.current

Load(diff, index) ==
    /\ call.pc = "idle" /\ answer = NoAnswer
    /\ call' = [pc |-> "loaded", diff |-> diff, index |-> index]
    /\ answer' = (IF diff /\ input.current.types # input.base.types THEN Fail("diff") ELSE NoAnswer)
    /\ UNCHANGED input

(* navigationLimit                                                         *)
NavigationLimit(limit, fallback, maximum) ==
    IF limit <= 0 THEN fallback ELSE IF limit < maximum THEN limit ELSE maximum

CanAnswer == call.pc = "loaded" /\ answer = NoAnswer
Answer(tool, result) ==
    /\ answer' = [tool |-> tool, subject |-> Subject, index |-> call.index, result |-> result]
    /\ UNCHANGED <<input, call>>

TopProfile(limit, sortBy, selected) ==
    /\ CanAnswer /\ ValidateValueIndex(Subject, call.index)
    /\ Answer("top", TopFunctions(Subject, call.index, NavigationLimit(limit, 20, 50), sortBy, selected))

PeekProfile(selected, limit) ==
    LET found == selected \intersect FunctionsOf(Subject)
    IN /\ CanAnswer /\ ValidateValueIndex(Subject, call.index)
       /\ Cardinality(found) = 1
       /\ Answer("peek", PeekFunction(Subject, found, call.index, NavigationLimit(limit, 10, 30)))

FlamegraphProfile(selected, maxDepth, minPct, maxNodes) ==
    LET found == IF selected = {} THEN {<<>>} ELSE FindInTrie(Subject, selected)
    IN /\ CanAnswer /\ ValidateValueIndex(Subject, call.index)
       /\ Cardinality(found) = 1
       /\ Answer("flamegraph",
                 Flamegraph(Subject, call.index, CHOOSE n \in found : TRUE,
                            [maxDepth |-> NavigationLimit(maxDepth, 3, 6),
                             minPct |-> IF minPct <= 0 THEN 100 ELSE minPct,
                             maxNodes |-> maxNodes]))

Compare(topN) ==
    /\ CanAnswer /\ ~ call.diff
    /\ ValidateValueIndex(input.current, call.index) /\ ValidateValueIndex(input.base, call.index)
    /\ input.current.types[call.index] = input.base.types[call.index]
    /\ Answer("compare", CompareProfiles(input.current, input.base, call.index, topN))

(* The index is no value of the profile, the values compared differ, or    *)
(* the name selects none or several functions (or nodes).                  *)
BadRequest(selected) ==
    /\ CanAnswer
    /\ \/ ~ ValidateValueIndex(Subject, call.index)
       \/ ~ call.diff /\ input.current.types # input.base.types
       \/ Cardinality(selected \intersect FunctionsOf(Subject)) # 1
       \/ Cardinality(FindInTrie(Subject, selected)) # 1
    /\ answer' = Fail("request")
    /\ UNCHANGED <<input, call>>

(* The answer was read; the next question is about the same profiles.      *)
Again ==
    /\ answer # NoAnswer
    /\ call' = [pc |-> "idle"] /\ answer' = NoAnswer
    /\ UNCHANGED input

Next ==
    \/ \E diff \in BOOLEAN, index \in 1..2 : Load(diff, index)
    \/ \E selected \in Texts : BadRequest(selected)
    \/ \E limit \in Limits, selected \in Texts :
         \/ \E sortBy \in {"self", "cumulative"} : TopProfile(limit, sortBy, selected)
         \/ PeekProfile(selected, limit)
         \/ \E minPct \in Shares, maxNodes \in NodeBudgets :
              FlamegraphProfile(selected, limit, minPct, maxNodes)
    \/ \E topN \in Limits : Compare(topN)
    \/ Again

Spec == Init /\ [][Next]_vars

-----------------------------------------------------------------------------
(* Every frame is one named function: nothing was inlined into it.         *)
OneLine(p) ==
    \A s \in Samples(p) : \A i \in DOMAIN Stack(p, s) :
      Len(Stack(p, s)[i]) = 1 /\ Stack(p, s)[i] # <<0>>
Recursive(p, f) == \E s \in Samples(p) : CountIn(PathOf(Stack(p, s)), f) > 1
Result == answer.result
CostIn(p, f, index) == IF f \in FunctionsOf(p) THEN CumulativeCost(p, f, index) ELSE 0

(* The costs of a function are those of its nodes in the call tree: its    *)
(* own at each of them, the cumulative one at the first on each path; and  *)
(* what the limit cut off ranks no higher than what is left.               *)
TopAgrees ==
    answer.tool = "top" =>
      LET p == answer.subject  costs == Result.costs
          nodes(f) == {n \in Nodes(p) : Last(n) = f}
      IN /\ \A f \in DOMAIN costs :
              /\ costs[f].self = SumOver(nodes(f), LAMBDA n : NodeSelf(p, n, answer.index))
              /\ costs[f].cumulative = SumOver({n \in nodes(f) : f \notin ToSet(Front(n))},
                                                LAMBDA n : NodeCost(p, n, answer.index))
         /\ Result.truncated <=> ToSet(Result.functions) # DOMAIN costs

(* The callers of a function share what it costs where it has one, and the *)
(* profile tools agree on its cost unless it is recursive.                 *)
PeekAgrees ==
    answer.tool = "peek" /\ OneLine(answer.subject) =>
      LET p == answer.subject  f == Result.function
          atRoot == {s \in Samples(p) : Stack(p, s) # <<>> /\ Last(Stack(p, s)) = <<f>>}
      IN /\ ~ Recursive(p, f) => Result.cumulative = CostIn(p, f, answer.index)
         /\ Result.self = SelfCost(p, f, answer.index)
         /\ Result.cumulative =
              SumOver(DOMAIN Result.callerCosts, LAMBDA g : Result.callerCosts[g])
              + SumOver(atRoot, LAMBDA s : Value(p, s, answer.index))

(* A flame graph is a tree within its budgets that leaves out the cheapest *)
(* children and counts each it leaves out; a node costs what it and its    *)
(* children cost.                                                          *)
FlamegraphAgrees ==
    answer.tool = "flamegraph" =>
      LET p == answer.subject  cost(n) == AbsInt(NodeCost(p, n, answer.index))
      IN /\ Result.remaining >= 0
         /\ \A n \in Result.shown \ {Result.root} :
              /\ IsStrictPrefix(Result.root, n) /\ Front(n) \in Result.shown
              /\ \A c \in Children(p, Front(n)) \ Result.shown : cost(c) <= cost(n)
         /\ Result.pruned = SumOver(Result.shown, LAMBDA n : Cardinality(Children(p, n) \ Result.shown))
         /\ OneLine(p) => \A n \in Result.shown \ {<<>>} :
              NodeCost(p, n, answer.index) =
                NodeSelf(p, n, answer.index)
                + SumOver(Children(p, n), LAMBDA c : NodeCost(p, c, answer.index))

(* Comparing two profiles and ranking their difference tell the same, and  *)
(* comparing them the other way round the opposite.                        *)
CompareAgrees ==
    answer.tool = "compare" =>
      LET diff == DiffProfile(input.current, input.base)
          back == CompareProfiles(input.base, input.current, answer.index, 0)
      IN /\ \A f \in FunctionsOf(input.current) \union FunctionsOf(input.base) :
              /\ f \in DOMAIN Result.deltas
              /\ Result.deltas[f] = CostIn(diff, f, answer.index)
         /\ Result.totalDelta = Total(diff, answer.index)
         /\ Result.regressed = Len(back.improvements) /\ Result.improved = Len(back.regressions)
         /\ IsPrefix(Result.regressions, back.improvements)

(* What the profiler tools say about the same profiles fits together       *)
(* (profiler.go:422-774, 1121-1168; profiler_navigation.go:59-162).        *)
CostsAgree == TopAgrees /\ PeekAgrees /\ FlamegraphAgrees /\ CompareAgrees
===============================================================================
