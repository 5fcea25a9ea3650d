------------------------------ MODULE QueriesProofs ------------------------------
(***************************************************************************)
(* Proofs about Queries: for every input, page size, cache size and set of *)
(* bodies its constants allow,                                             *)
(*   PagesInv    what a client of profiler_list has fetched is what lies   *)
(*               before its cursor, each match at its place;               *)
(*   ListingInv  what a client of logs, traces or events has been told is  *)
(*               what lies before its page token;                          *)
(*   TrendInv    what profiler_trends has listed, loaded and cached;       *)
(* and those of QueryPartProofs.  Each is inductive and implies the        *)
(* property a theorem, at the end, states.                                 *)
(***************************************************************************)
EXTENDS Queries, QueryPartProofs, Integers, FiniteSets, Sequences, SequenceTheorems, FiniteSetTheorems, TLAPS

-----------------------------------------------------------------------------
(* profiler_list.  The matches before a place of the listing, as a cursor  *)
(* or the running scan has it; and a sequence that lists some of them.     *)
Metas == {Pages!MetaAt(p) : p \in Pages!Positions}
Behind(f, token, offset) ==
  {p \in Pages!Matches(f) : \/ p[1] < Pages!PageOf(token)
                            \/ p[1] = Pages!PageOf(token) /\ p[2] <= offset}
ListsAll(seq, f, S) ==
  /\ seq \in Seq(Metas) /\ Len(seq) = Cardinality(S)
  /\ \A p \in S : seq[Pages!Place(f, p)] = Pages!MetaAt(p)

Cursors == [token : 0..Len(input), offset : Nat, fingerprint : Filters]
PageCalls ==
  [pc : {"page", "scan"}, filter : Filters, size : PageSizes,
   pageStart : 0..Len(input), offset : Nat, resume : Cursors, scanned : Nat, i : Nat,
   found : Seq(Metas), excluded : Nat, targetsSeen : SUBSET {m.target : m \in Metas}]
PageAnswers ==
  [got : Seq(Metas), cursor : Cursors, outcome : {"ask", "error", "done"},
   truncated : BOOLEAN, count : Nat, excluded : Nat,
   warning : {"none", "limit", "no such target"}]
PagesType ==
  /\ input \in PageInputs
  /\ answer \in PageAnswers
  /\ call = Pages!NoCall \/ call \in PageCalls

(* The matches the running call is done with.                              *)
SeenSoFar ==
  IF call.pc = "page" THEN Behind(call.filter, call.pageStart, call.offset)
  ELSE Behind(call.filter, call.pageStart, call.i - 1)

(* What the client holds between calls; and, while a call runs, with what  *)
(* it has found: a call that examined something resumes after that.        *)
PagesHeld ==
  LET f == answer.cursor.fingerprint
  IN /\ answer.outcome # "done" =>
          ListsAll(answer.got, f, Behind(f, answer.cursor.token, answer.cursor.offset))
     /\ answer.outcome = "done" => ListsAll(answer.got, f, Pages!Matches(f))
     /\ answer.truncated => answer.warning = "limit" \/ answer.count \in PageSizes
PagesRun ==
  call.pc # "idle" =>
    /\ answer.outcome # "done" /\ call.filter = answer.cursor.fingerprint
    /\ call.resume.fingerprint = call.filter
    /\ ListsAll(answer.got \o call.found, call.filter, SeenSoFar)
    /\ call.scanned > 0 =>
         SeenSoFar = IF Pages!AtEnd(call.resume) THEN Pages!Matches(call.filter)
                     ELSE Behind(call.filter, call.resume.token, call.resume.offset)
    /\ call.pc = "scan" => call.i \in 1..(Len(Pages!Page) + 1)
PagesInv == PagesType /\ PagesHeld /\ PagesRun

(* Cardinality is the same operator in the instances.                      *)
LEMMA PagesCardinality == \A S : Pages!Cardinality(S) = Cardinality(S)
  BY DEF Pages!Cardinality, Cardinality

(* Appending to the second of two sequences.                               *)
LEMMA AppendRight ==
  ASSUME NEW T, NEW s \in Seq(T), NEW t \in Seq(T), NEW e \in T
  PROVE  s \o (t \o <<e>>) = Append(s \o t, e)
<1> DEFINE one == <<e>>
<1>1. one \in Seq(T) /\ s \o t \in Seq(T)
  BY ConcatProperties
<1>2. Append(s \o t, e) = (s \o t) \o one
  BY <1>1, AppendIsConcat
<1> HIDE DEF one
<1>3. (s \o t) \o one = s \o (t \o one)
  BY <1>1, ConcatAssociative
<1> QED
  BY <1>2, <1>3 DEF one

(* The API's listing is finite, and so is what matches in it.              *)
LEMMA ListingFinite ==
  ASSUME Pages!PageConstants, input \in PageInputs
  PROVE  /\ Len(input) \in Nat \ {0} /\ DOMAIN input = 1..Len(input)
         /\ \A k \in 1..Len(input) : Len(input[k]) \in Nat /\ DOMAIN input[k] = 1..Len(input[k])
         /\ IsFiniteSet(Pages!Positions)
         /\ \A p : p \in Pages!Positions <=>
              p = <<p[1], p[2]>> /\ p[1] \in 1..Len(input) /\ p[2] \in 1..Len(input[p[1]])
<1>1. /\ Len(input) \in Nat /\ DOMAIN input = 1..Len(input) /\ input # <<>>
      /\ \A k \in DOMAIN input : Len(input[k]) \in Nat /\ DOMAIN input[k] = 1..Len(input[k])
  BY DEF Pages!PageConstants, Pages!IsSequence
<1>2. Len(input) # 0
  <2>1. SUFFICES ASSUME Len(input) = 0 PROVE FALSE
    OBVIOUS
  <2> QED
    BY <1>1, <2>1
<1>3. IsFiniteSet(Pages!Positions)
  <2> DEFINE In(k) == {k} \X DOMAIN input[k]
             Parts == {In(k) : k \in 1..Len(input)}
  <2>1. IsFiniteSet(1..Len(input))
    BY <1>1, FS_Interval
  <2>2. IsFiniteSet(Parts)
    <3> DEFINE g == [k \in 1..Len(input) |-> In(k)]
    <3>1. g \in Surjection(1..Len(input), Parts)
      BY Zenon DEF Surjection
    <3> QED
      BY <2>1, <3>1, FS_Surjection
  <2>3. ASSUME NEW k \in 1..Len(input) PROVE IsFiniteSet(In(k))
    <3>1. IsFiniteSet({k})
      BY Zenon, FS_Singleton
    <3>2. IsFiniteSet(1..Len(input[k]))
      <4>1. Len(input[k]) \in Int
        BY <1>1
      <4> QED
        BY <4>1, FS_Interval
    <3> QED
      BY <1>1, <3>1, <3>2, FS_Product
  <2>4. IsFiniteSet(UNION Parts)
    BY Zenon, <2>2, <2>3, FS_UNION
  <2>5. Pages!Positions = UNION Parts
    BY <1>1 DEF Pages!Positions
  <2> QED
    BY <2>4, <2>5
<1>4. ASSUME NEW p
      PROVE  p \in Pages!Positions <=>
               p = <<p[1], p[2]>> /\ p[1] \in 1..Len(input) /\ p[2] \in 1..Len(input[p[1]])
  BY <1>1 DEF Pages!Positions
<1> QED
  BY <1>1, <1>2, <1>3, <1>4

LEMMA MatchesFinite ==
  ASSUME Pages!PageConstants, input \in PageInputs, NEW f
  PROVE  /\ IsFiniteSet(Pages!Matches(f))
         /\ \A S \in SUBSET Pages!Matches(f) :
              IsFiniteSet(S) /\ Cardinality(S) \in Nat /\ Cardinality(S) <= Cardinality(Pages!Matches(f))
         /\ \A p \in Pages!Matches(f) : p \in Pages!Positions /\ Pages!MetaAt(p) \in Metas
<1>1. IsFiniteSet(Pages!Matches(f))
  BY ListingFinite, FS_Subset DEF Pages!Matches
<1>2. ASSUME NEW S \in SUBSET Pages!Matches(f)
      PROVE  IsFiniteSet(S) /\ Cardinality(S) \in Nat /\ Cardinality(S) <= Cardinality(Pages!Matches(f))
  BY <1>1, FS_Subset, FS_CardinalityType
<1>3. \A p \in Pages!Matches(f) : p \in Pages!Positions /\ Pages!MetaAt(p) \in Metas
  BY DEF Pages!Matches, Metas
<1> QED
  BY <1>1, <1>2, <1>3

Earlier(f, p) == {q \in Pages!Matches(f) : Pages!UpTo(q, p)}

(* The places of the matches that come no later than one of them number    *)
(* from 1 to how many they are.                                            *)
LEMMA PlaceWithin ==
  ASSUME Pages!PageConstants, input \in PageInputs, NEW f,
         NEW S \in SUBSET Pages!Matches(f), NEW p \in S,
         \A q \in Pages!Matches(f) : Pages!UpTo(q, p) => q \in S
  PROVE  Pages!Place(f, p) \in 1..Cardinality(S)
<1> DEFINE T == {q \in Pages!Matches(f) : Pages!UpTo(q, p)}
<1>1. T \subseteq S /\ IsFiniteSet(S) /\ S \subseteq Pages!Matches(f)
  BY MatchesFinite
<1>2. p \in T
  <2>1. p[1] \in Nat /\ p[2] \in Nat
    BY MatchesFinite, ListingFinite
  <2> QED
    BY <1>1, <2>1 DEF Pages!UpTo
<1>3. IsFiniteSet(T) /\ Cardinality(T) \in Nat /\ Cardinality(T) <= Cardinality(S) /\ Cardinality(S) \in Nat
  BY <1>1, FS_Subset, FS_CardinalityType
<1>4. Cardinality(T) # 0
  BY <1>2, <1>3, FS_EmptySet
<1> QED
  BY <1>3, <1>4, PagesCardinality DEF Pages!Place

(* One more match is listed: the first one that was not.                   *)
LEMMA ListsOneMore ==
  ASSUME Pages!PageConstants, input \in PageInputs, NEW f, NEW seq,
         NEW S \in SUBSET Pages!Matches(f), ListsAll(seq, f, S),
         NEW p \in Pages!Matches(f) \ S,
         S = Earlier(f, p) \ {p}
  PROVE  ListsAll(Append(seq, Pages!MetaAt(p)), f, S \union {p})
<1> DEFINE T == S \union {p}
           m == Pages!MetaAt(p)
           new == Append(seq, m)
<1>1. p[1] \in Nat /\ p[2] \in Nat /\ m \in Metas
  BY MatchesFinite, ListingFinite
<1>2. Pages!UpTo(p, p)
  BY <1>1 DEF Pages!UpTo
<1>3. T = {q \in Pages!Matches(f) : Pages!UpTo(q, p)}
  BY <1>2 DEF Earlier
<1>4. IsFiniteSet(S) /\ Cardinality(S) \in Nat
  BY MatchesFinite
<1>5. Cardinality(T) = Cardinality(S) + 1
  BY <1>4, FS_AddElement
<1>6. Pages!Place(f, p) = Cardinality(S) + 1
  BY <1>3, <1>5, PagesCardinality DEF Pages!Place
<1>7. seq \in Seq(Metas) /\ Len(seq) = Cardinality(S)
  BY DEF ListsAll
<1>8. /\ new \in Seq(Metas) /\ Len(new) = Cardinality(T)
      /\ \A j \in 1..Len(seq) : new[j] = seq[j]
      /\ new[Len(seq) + 1] = m
  <2> HIDE DEF m
  <2>1. /\ new \in Seq(Metas) /\ Len(new) = Len(seq) + 1
        /\ \A j \in 1..Len(seq) : new[j] = seq[j]
        /\ new[Len(seq) + 1] = m
    <3>1. m \in Metas /\ seq \in Seq(Metas)
      BY <1>1, <1>7
    <3> QED
      BY ONLY <3>1, AppendProperties
  <2> QED
    BY <1>5, <1>7, <2>1
<1>9. ASSUME NEW q \in S
      PROVE  Pages!Place(f, q) \in 1..Cardinality(S)
  <2>1. \A r \in Pages!Matches(f) : Pages!UpTo(r, q) => r \in S
    <3> SUFFICES ASSUME NEW r \in Pages!Matches(f), Pages!UpTo(r, q) PROVE r \in S
      OBVIOUS
    <3>1. /\ r[1] \in Nat /\ r[2] \in Nat /\ q[1] \in Nat /\ q[2] \in Nat
          /\ r = <<r[1], r[2]>> /\ q = <<q[1], q[2]>> /\ p = <<p[1], p[2]>>
      BY MatchesFinite, ListingFinite
    <3>2. q[1] < p[1] \/ (q[1] = p[1] /\ q[2] <= p[2])
      BY DEF Pages!UpTo, Earlier
    <3>3. q[1] < p[1] \/ (q[1] = p[1] /\ q[2] < p[2])
      BY <1>1, <3>1, <3>2
    <3>4. r[1] < p[1] \/ (r[1] = p[1] /\ r[2] < p[2])
      BY <1>1, <3>1, <3>3 DEF Pages!UpTo
    <3> QED
      BY <1>1, <3>1, <3>4 DEF Pages!UpTo, Earlier
  <2> QED
    BY <2>1, PlaceWithin
<1>10. ASSUME NEW q \in T PROVE new[Pages!Place(f, q)] = Pages!MetaAt(q)
  <2>1. CASE q = p
    BY <2>1, <1>6, <1>7, <1>8
  <2>2. CASE q \in S
    BY <2>2, <1>7, <1>8, <1>9 DEF ListsAll
  <2> QED
    BY <2>1, <2>2
<1> QED
  BY Zenon, <1>8, <1>10 DEF ListsAll

(* What is behind a place of the listing: nothing at its beginning; the    *)
(* end of a page is the beginning of the next one, the end of the last     *)
(* page that of the listing; and profile by profile in between.            *)
LEMMA BehindStart ==
  ASSUME Pages!PageConstants, input \in PageInputs, NEW f
  PROVE  Behind(f, 0, 0) = {} /\ ListsAll(<<>>, f, Behind(f, 0, 0))
<1>1. Behind(f, 0, 0) = {}
  <2> SUFFICES ASSUME NEW p \in Behind(f, 0, 0) PROVE FALSE
    OBVIOUS
  <2>1. p \in Pages!Matches(f) /\ (p[1] < 1 \/ (p[1] = 1 /\ p[2] <= 0))
    BY DEF Behind, Pages!PageOf
  <2>2. p[1] \in 1..Len(input) /\ p[2] \in 1..Len(input[p[1]])
    BY <2>1, MatchesFinite, ListingFinite
  <2> QED
    BY <2>1, <2>2
<1>2. <<>> \in Seq(Metas) /\ Len(<<>>) = 0 /\ Cardinality({}) = 0
  BY FS_EmptySet
<1> QED
  BY <1>1, <1>2 DEF ListsAll

LEMMA BehindType ==
  ASSUME NEW f, NEW token, NEW offset
  PROVE  Behind(f, token, offset) \subseteq Pages!Matches(f)
BY DEF Behind

LEMMA BehindPage ==
  ASSUME Pages!PageConstants, input \in PageInputs, NEW f,
         NEW token \in 0..Len(input), NEW offset \in Nat,
         offset >= Len(input[Pages!PageOf(token)])
  PROVE  LET next == Pages!NextToken(Pages!PageOf(token))
         IN /\ next \in 0..Len(input)
            /\ Behind(f, token, offset) =
                 IF next = 0 THEN Pages!Matches(f) ELSE Behind(f, next, 0)
<1> DEFINE page == Pages!PageOf(token)
           next == Pages!NextToken(page)
<1>1. page \in 1..Len(input) /\ Len(input) \in Nat
  BY ListingFinite DEF Pages!PageOf
<1>2. next = IF page < Len(input) THEN page + 1 ELSE 0
  BY DEF Pages!NextToken
<1>3. \A p \in Pages!Matches(f) : p[1] \in 1..Len(input) /\ p[2] \in 1..Len(input[p[1]])
  BY MatchesFinite, ListingFinite
<1>4. \A k \in 1..Len(input) : Len(input[k]) \in Nat
  BY ListingFinite
<1>5. Behind(f, token, offset) = {p \in Pages!Matches(f) : p[1] < page \/ (p[1] = page /\ p[2] <= offset)}
  BY DEF Behind
<1>6. CASE page < Len(input)
  <2>1. Pages!PageOf(next) = page + 1 /\ next # 0
    BY <1>1, <1>2, <1>6 DEF Pages!PageOf
  <2>2. Behind(f, next, 0) = {p \in Pages!Matches(f) : p[1] < page + 1 \/ (p[1] = page + 1 /\ p[2] <= 0)}
    BY <2>1 DEF Behind
  <2> HIDE DEF page, next
  <2>3. ASSUME NEW p \in Pages!Matches(f)
        PROVE  (p[1] < page \/ (p[1] = page /\ p[2] <= offset))
               <=> (p[1] < page + 1 \/ (p[1] = page + 1 /\ p[2] <= 0))
    <3>1. p[1] \in Nat /\ p[2] \in Nat /\ p[2] > 0 /\ p[2] <= Len(input[p[1]]) /\ page \in Nat
      BY <1>1, <1>3, <1>4
    <3>2. p[1] = page => p[2] <= offset
      <4>1. Len(input[page]) \in Nat /\ Len(input[page]) <= offset
        BY <1>1, <1>4 DEF page
      <4> QED
        BY <3>1, <4>1
    <3> QED
      BY <3>1, <3>2
  <2>4. Behind(f, token, offset) = Behind(f, next, 0)
    BY <1>5, <2>2, <2>3
  <2> QED
    BY <1>1, <1>2, <1>6, <2>1, <2>4 DEF page, next
<1>7. CASE ~ (page < Len(input))
  <2>1. page = Len(input) /\ next = 0
    BY <1>1, <1>2, <1>7
  <2> HIDE DEF page, next
  <2>2. ASSUME NEW p \in Pages!Matches(f)
        PROVE  p[1] < page \/ (p[1] = page /\ p[2] <= offset)
    <3>1. p[1] \in 1..Len(input) /\ p[2] \in Nat /\ p[2] <= Len(input[p[1]])
      BY <1>3, <1>4
    <3>2. Len(input[page]) \in Nat /\ Len(input[page]) <= offset
      BY <1>1, <1>4 DEF page
    <3> QED
      BY <1>1, <2>1, <3>1, <3>2
  <2>3. Behind(f, token, offset) = Pages!Matches(f)
    BY <1>5, <2>2
  <2> QED
    BY <1>1, <2>1, <2>3 DEF page, next
<1> QED
  BY <1>6, <1>7

(* Profile i of a page is at p of the listing.                             *)
PassedBy(f, token, i, p) ==
  /\ p \in Pages!Positions /\ Pages!MetaAt(p) = input[Pages!PageOf(token)][i]
  /\ p \in Pages!Matches(f) =>
       /\ p \notin Behind(f, token, i - 1)
       /\ Behind(f, token, i - 1) = Earlier(f, p) \ {p}
       /\ Behind(f, token, i) = Behind(f, token, i - 1) \union {p}
  /\ p \notin Pages!Matches(f) => Behind(f, token, i) = Behind(f, token, i - 1)

LEMMA BehindProfile ==
  ASSUME Pages!PageConstants, input \in PageInputs, NEW f,
         NEW token \in 0..Len(input), NEW i \in 1..Len(input[Pages!PageOf(token)]),
         NEW p, p = <<Pages!PageOf(token), i>>
  PROVE  PassedBy(f, token, i, p)
<1> DEFINE page == Pages!PageOf(token)
           before == Behind(f, token, i - 1)
<1>1. page \in 1..Len(input) /\ Len(input) \in Nat /\ Len(input[page]) \in Nat
  BY ListingFinite DEF Pages!PageOf
<1>2. p[1] = page /\ p[2] = i /\ p = <<p[1], p[2]>>
  OBVIOUS
<1>3. p \in Pages!Positions
  BY <1>1, <1>2, ListingFinite
<1>4. Pages!MetaAt(p) = input[page][i]
  BY DEF Pages!MetaAt
<1>5. /\ before = {q \in Pages!Matches(f) : q[1] < page \/ (q[1] = page /\ q[2] <= i - 1)}
      /\ Behind(f, token, i) = {q \in Pages!Matches(f) : q[1] < page \/ (q[1] = page /\ q[2] <= i)}
  BY DEF Behind
<1>6. \A q \in Pages!Matches(f) : q = <<q[1], q[2]>> /\ q[1] \in Nat /\ q[2] \in Nat
  BY MatchesFinite, ListingFinite
<1>7. i \in Nat /\ page \in Nat
  BY <1>1
<1>8. \A q : Pages!UpTo(q, p) <=> (q[1] < page \/ (q[1] = page /\ q[2] <= i))
  BY <1>2 DEF Pages!UpTo
<1> HIDE DEF page, before
<1>9. ASSUME NEW q \in Pages!Matches(f), q # p
      PROVE  (q[1] < page \/ (q[1] = page /\ q[2] <= i)) <=> (q[1] < page \/ (q[1] = page /\ q[2] <= i - 1))
  <2>1. ~ (q[1] = page /\ q[2] = i)
    BY <1>2, <1>6, <1>9
  <2> QED
    BY <1>6, <1>7, <2>1
<1>10. CASE p \in Pages!Matches(f)
  <2>1. p \notin before
    BY <1>2, <1>5, <1>7
  <2>2. Behind(f, token, i) = before \union {p}
    BY <1>2, <1>5, <1>7, <1>9, <1>10
  <2>3. before = Earlier(f, p) \ {p}
    <3>1. ASSUME NEW q PROVE q \in before <=> q \in Earlier(f, p) \ {p}
      BY <1>5, <1>8, <1>9, <2>1 DEF Earlier
    <3> QED
      BY <3>1
  <2> QED
    BY <1>3, <1>4, <1>10, <2>1, <2>2, <2>3 DEF page, before, PassedBy
<1>11. CASE p \notin Pages!Matches(f)
  <2>1. Behind(f, token, i) = before
    <3>1. \A q \in Pages!Matches(f) : q # p
      BY <1>11
    <3> QED
      BY <1>5, <1>9, <3>1
  <2> QED
    BY <1>3, <1>4, <1>11, <2>1 DEF page, before, PassedBy
<1> QED
  BY <1>10, <1>11

(* What a call has after it examined one more profile.                     *)
LEMMA ExaminedRight ==
  ASSUME Pages!PageConstants, PagesInv, Pages!CanExamine
  PROVE  LET e == Pages!Examined
             seen == Behind(call.filter, call.pageStart, call.i)
         IN /\ e \in PageCalls /\ e.pc = "scan" /\ e.filter = call.filter
            /\ e.pageStart = call.pageStart /\ e.i = call.i + 1 /\ e.scanned > 0
            /\ e.resume.fingerprint = call.filter /\ e.size = call.size
            /\ e.i \in 1..(Len(Pages!Page) + 1)
            /\ ListsAll(answer.got \o e.found, call.filter, seen)
            /\ seen = IF Pages!AtEnd(e.resume) THEN Pages!Matches(call.filter)
                      ELSE Behind(call.filter, e.resume.token, e.resume.offset)
            /\ Len(e.found) = Len(call.found)
                                + (IF Pages!Match(call.filter, Pages!Page[call.i]) THEN 1 ELSE 0)
<1> DEFINE e == Pages!Examined
           f == call.filter
           page == Pages!PageOf(call.pageStart)
           meta == Pages!Page[call.i]
           p == <<page, call.i>>
           before == Behind(f, call.pageStart, call.i - 1)
           seen == Behind(f, call.pageStart, call.i)
           more == IF Pages!Match(f, meta) THEN <<meta>> ELSE <<>>
<1>1. /\ input \in PageInputs /\ answer \in PageAnswers /\ call \in PageCalls
      /\ call.pc = "scan" /\ call.resume.fingerprint = f
      /\ ListsAll(answer.got \o call.found, f, before)
  BY DEF PagesInv, PagesRun, PagesType, SeenSoFar, Pages!CanExamine, Pages!NoCall
<1>2. call.i \in 1..Len(input[page]) /\ Pages!Page = input[page] /\ Len(input[page]) \in Nat
  <2>1. call.i \in 1..(Len(Pages!Page) + 1) /\ call.i <= Len(Pages!Page)
    BY <1>1 DEF PagesInv, PagesRun, Pages!CanExamine
  <2>2. Pages!Page = input[page]
    BY DEF Pages!Page
  <2>3. page \in 1..Len(input)
    BY <1>1, ListingFinite DEF Pages!PageOf, PageCalls
  <2>4. Len(input[page]) \in Nat
    BY <1>1, <2>3, ListingFinite
  <2> QED
    BY <2>1, <2>2, <2>4
<1>3. call.pageStart \in 0..Len(input) /\ page \in 1..Len(input) /\ Len(input) \in Nat
  BY <1>1, ListingFinite DEF PageCalls, Pages!PageOf
<1>4. /\ p \in Pages!Positions /\ Pages!MetaAt(p) = meta
      /\ p \in Pages!Matches(f) =>
           /\ p \notin before /\ before = Earlier(f, p) \ {p}
           /\ seen = before \union {p}
      /\ p \notin Pages!Matches(f) => seen = before
  <2> DEFINE token == call.pageStart
             i == call.i
             filter == call.filter
  <2>1. token \in 0..Len(input) /\ i \in 1..Len(input[Pages!PageOf(token)]) /\ input \in PageInputs
    BY <1>1, <1>2, <1>3
  <2>4. p = <<Pages!PageOf(token), i>>
    OBVIOUS
  <2> HIDE DEF token, i, filter, p
  <2>2. PassedBy(filter, token, i, p)
    BY ONLY <2>1, <2>4, Pages!PageConstants, BehindProfile
  <2>3. meta = input[Pages!PageOf(token)][i] /\ page = Pages!PageOf(token)
    BY <1>2 DEF token, i
  <2> QED
    BY <2>2, <2>3 DEF token, i, filter, PassedBy
<1>5. p \in Pages!Matches(f) <=> Pages!Match(f, meta)
  BY <1>4 DEF Pages!Matches
<1>6. meta \in Metas
  BY <1>4 DEF Metas
<1>7. call.found \in Seq(Metas) /\ answer.got \in Seq(Metas) /\ call.i \in Nat /\ call.scanned \in Nat
      /\ call.resume \in Cursors /\ call.excluded \in Nat /\ f \in Filters
  BY Zenon, <1>1 DEF PageCalls, PageAnswers
<1> HIDE DEF meta, page, f, p, before, seen
<1>8. more \in Seq(Metas) /\ Len(more) = IF Pages!Match(f, meta) THEN 1 ELSE 0
  BY <1>6
<1>9. /\ call.found \o more \in Seq(Metas)
      /\ Len(call.found \o more) = Len(call.found) + (IF Pages!Match(f, meta) THEN 1 ELSE 0)
  BY <1>7, <1>8, ConcatProperties
<1>10. ListsAll(answer.got \o (call.found \o more), f, seen)
  <2>1. CASE Pages!Match(f, meta)
    <3>1. p \in Pages!Matches(f) \ before /\ before \in SUBSET Pages!Matches(f)
      BY <1>4, <1>5, <2>1, BehindType DEF before
    <3>2. ListsAll(Append(answer.got \o call.found, Pages!MetaAt(p)), f, before \union {p})
      BY <1>1, <1>4, <1>5, <2>1, <3>1, ListsOneMore
    <3>3. answer.got \o (call.found \o <<meta>>) = Append(answer.got \o call.found, meta)
      <4> DEFINE g == answer.got
                 h == call.found
      <4>1. g \in Seq(Metas) /\ h \in Seq(Metas)
        BY <1>7
      <4> HIDE DEF g, h
      <4>2. g \o (h \o <<meta>>) = Append(g \o h, meta)
        BY <1>6, <4>1, AppendRight
      <4> QED
        BY Zenon, <4>2 DEF g, h
    <3> QED
      BY Zenon, <1>4, <1>5, <2>1, <3>2, <3>3
  <2>2. CASE ~ Pages!Match(f, meta)
    <3>1. more = <<>> /\ call.found \o more = call.found
      BY <1>7, <2>2, ConcatEmptySeq
    <3> QED
      BY <1>1, <1>4, <1>5, <2>2, <3>1
  <2> QED
    BY <2>1, <2>2
<1>11. /\ Pages!After(call.i) \in Cursors /\ Pages!After(call.i).fingerprint = f
       /\ seen = IF Pages!AtEnd(Pages!After(call.i)) THEN Pages!Matches(f)
                 ELSE Behind(f, Pages!After(call.i).token, Pages!After(call.i).offset)
  <2> DEFINE r == Pages!After(call.i)
  <2>1. CASE call.i < Len(input[page])
    <3>1. r = [call.resume EXCEPT !.token = call.pageStart, !.offset = call.i]
      BY <1>2, <2>1 DEF Pages!After
    <3>2. r \in Cursors /\ r.fingerprint = f /\ r.token = call.pageStart /\ r.offset = call.i
      BY Zenon, <1>1, <1>3, <1>7, <3>1 DEF Cursors
    <3>3. ~ Pages!AtEnd(r)
      BY <1>2, <3>2 DEF Pages!AtEnd
    <3> QED
      BY <3>2, <3>3 DEF seen
  <2>2. CASE ~ (call.i < Len(input[page]))
    <3> DEFINE next == Pages!NextToken(page)
    <3>0. call.i >= Len(input[page])
      BY <1>2, <2>2
    <3>1. r = [call.resume EXCEPT !.token = next, !.offset = 0]
      BY <1>2, <2>2 DEF Pages!After, Pages!Following, page
    <3>2. /\ next \in 0..Len(input)
          /\ seen = IF next = 0 THEN Pages!Matches(f) ELSE Behind(f, next, 0)
      BY Zenon, <1>1, <1>3, <1>7, <3>0, BehindPage DEF page, seen
    <3> HIDE DEF r, next
    <3>3. r \in Cursors /\ r.fingerprint = f /\ r.token = next /\ r.offset = 0
      <4>1. call.resume.fingerprint = f /\ call.resume \in Cursors /\ next \in 0..Len(input)
        BY <1>1, <1>7, <3>2
      <4> QED
        BY ONLY Zenon, <3>1, <4>1 DEF Cursors
    <3>4. Pages!AtEnd(r) <=> next = 0
      BY <3>3 DEF Pages!AtEnd
    <3> QED
      BY <3>2, <3>3, <3>4 DEF r
  <2> QED
    BY <2>1, <2>2
<1>12. /\ e = [call EXCEPT
             !.scanned = call.scanned + 1, !.i = call.i + 1,
             !.resume = Pages!After(call.i), !.found = call.found \o more,
             !.excluded = call.excluded + (IF Pages!ParseErr(f, meta) THEN 1 ELSE 0),
             !.targetsSeen = call.targetsSeen \union ({meta.target} \ {""})]
  BY DEF Pages!Examined, f, meta
<1> HIDE DEF more
<1>13. /\ e \in PageCalls /\ e.pc = "scan" /\ e.filter = call.filter
       /\ e.pageStart = call.pageStart /\ e.i = call.i + 1 /\ e.scanned = call.scanned + 1
       /\ e.resume = Pages!After(call.i) /\ e.found = call.found \o more /\ e.size = call.size
  <2> DEFINE T == call.targetsSeen \union ({meta.target} \ {""})
             x == call.excluded + (IF Pages!ParseErr(f, meta) THEN 1 ELSE 0)
  <2>1. T \in SUBSET {m.target : m \in Metas}
    BY Zenon, <1>1, <1>6 DEF PageCalls
  <2>2. x \in Nat
    BY <1>7
  <2> HIDE DEF T, x, e
  <2>3. /\ e = [call EXCEPT !.scanned = call.scanned + 1, !.i = call.i + 1,
                 !.resume = Pages!After(call.i), !.found = call.found \o more,
                 !.excluded = x, !.targetsSeen = T]
        /\ call \in PageCalls /\ call.scanned + 1 \in Nat /\ call.i + 1 \in Nat
        /\ Pages!After(call.i) \in Cursors /\ call.found \o more \in Seq(Metas)
        /\ call.pc = "scan"
    BY <1>1, <1>7, <1>9, <1>11, <1>12 DEF T, x
  <2> QED
    BY ONLY Zenon, <2>1, <2>2, <2>3 DEF PageCalls
<1>14. e.scanned > 0 /\ e.i \in 1..(Len(Pages!Page) + 1)
  BY <1>2, <1>7, <1>13
<1>15. Len(e.found) = Len(call.found) + (IF Pages!Match(f, meta) THEN 1 ELSE 0)
  BY <1>9, <1>13
<1>16. ListsAll(answer.got \o e.found, f, seen)
  BY <1>10, <1>13
<1>17. seen = IF Pages!AtEnd(e.resume) THEN Pages!Matches(f)
              ELSE Behind(f, e.resume.token, e.resume.offset)
  BY <1>11, <1>13
<1>18. e.resume.fingerprint = f
  BY <1>11, <1>13
<1> QED
  BY <1>13, <1>14, <1>15, <1>16, <1>17, <1>18 DEF f, seen, meta

(* The operators depend on the state through the listing alone.            *)
LEMMA SameListing ==
  ASSUME input' = input
  PROVE  /\ Metas' = Metas /\ Cursors' = Cursors /\ PageCalls' = PageCalls /\ PageAnswers' = PageAnswers
         /\ \A f : Pages!Matches(f)' = Pages!Matches(f)
         /\ \A f, p : Pages!Place(f, p)' = Pages!Place(f, p)
         /\ \A p : Pages!MetaAt(p)' = Pages!MetaAt(p)
         /\ \A f, t, o : Behind(f, t, o)' = Behind(f, t, o)
         /\ \A seq, f, S : ListsAll(seq, f, S)' = ListsAll(seq, f, S)
<1>1. Pages!Positions' = Pages!Positions
  BY DEF Pages!Positions
<1>2. \A p : Pages!MetaAt(p)' = Pages!MetaAt(p)
  BY DEF Pages!MetaAt
<1>3. Metas' = Metas
  BY <1>1, <1>2 DEF Metas
<1>4. \A f : Pages!Matches(f)' = Pages!Matches(f)
  BY <1>1, <1>2 DEF Pages!Matches
<1>5. Cursors' = Cursors
  BY DEF Cursors
<1>6. PageCalls' = PageCalls /\ PageAnswers' = PageAnswers
  BY <1>3, <1>5 DEF PageCalls, PageAnswers
<1>7. \A f, p : Pages!Place(f, p)' = Pages!Place(f, p)
  BY <1>4 DEF Pages!Place
<1>8. \A f, t, o : Behind(f, t, o)' = Behind(f, t, o)
  BY <1>4 DEF Behind
<1>9. \A seq, f, S : ListsAll(seq, f, S)' = ListsAll(seq, f, S)
  BY <1>2, <1>3, <1>7 DEF ListsAll
<1> QED
  BY <1>2, <1>3, <1>4, <1>5, <1>6, <1>7, <1>8, <1>9

LEMMA SameAnswer ==
  ASSUME input' = input, answer' = answer, PagesHeld
  PROVE  PagesHeld'
BY SameListing DEF PagesHeld

LEMMA PagesInit ==
  ASSUME Pages!PageConstants, Pages!Init
  PROVE  PagesInv
<1>1. /\ input \in PageInputs /\ call = [pc |-> "idle"] /\ Len(input) \in Nat
      /\ \E f \in Filters : answer = Pages!Fresh(f)
  BY ListingFinite DEF Pages!Init, Pages!NoCall
<1>2. PICK f \in Filters : answer = Pages!Fresh(f)
  BY <1>1
<1>3. /\ answer.got = <<>> /\ answer.cursor = [token |-> 0, offset |-> 0, fingerprint |-> f]
      /\ answer.outcome = "ask" /\ answer.truncated = FALSE
  BY <1>2 DEF Pages!Fresh, Pages!Start
<1>4. answer.cursor \in Cursors
  BY <1>1, <1>3 DEF Cursors
<1>5. answer \in PageAnswers
  BY <1>2, <1>3, <1>4 DEF PageAnswers, Pages!Fresh
<1>6. ListsAll(answer.got, f, Behind(f, answer.cursor.token, answer.cursor.offset))
  BY <1>1, <1>3, BehindStart
<1> QED
  BY <1>1, <1>3, <1>5, <1>6 DEF PagesInv, PagesHeld, PagesRun, PagesType, Pages!NoCall

LEMMA PagesAsk ==
  ASSUME Pages!PageConstants, PagesInv, NEW f \in Filters, NEW n \in PageSizes, Pages!ListProfiles(f, n)
  PROVE  PagesInv'
<1>1. /\ input \in PageInputs /\ answer \in PageAnswers /\ call = [pc |-> "idle"]
      /\ answer.outcome \in {"ask", "error"} /\ answer.cursor.fingerprint = f
      /\ ListsAll(answer.got, f, Behind(f, answer.cursor.token, answer.cursor.offset))
  BY DEF PagesInv, PagesHeld, PagesType, Pages!ListProfiles, Pages!NoCall
<1>2. /\ call' = [pc |-> "page", filter |-> f, size |-> n,
                  pageStart |-> answer.cursor.token, offset |-> answer.cursor.offset,
                  resume |-> answer.cursor, scanned |-> 0, i |-> 0,
                  found |-> <<>>, excluded |-> 0, targetsSeen |-> {}]
      /\ input' = input /\ answer' = answer
  BY DEF Pages!ListProfiles
<1>3. answer.cursor \in Cursors /\ answer.cursor.token \in 0..Len(input) /\ answer.cursor.offset \in Nat
      /\ answer.got \in Seq(Metas)
  BY Zenon, <1>1 DEF PageAnswers, Cursors
<1>4. call' \in PageCalls
  BY <1>2, <1>3 DEF PageCalls
<1>5. answer.got \o call'.found = answer.got
  BY <1>2, <1>3, ConcatEmptySeq
<1>6. PagesType'
  BY <1>1, <1>2, <1>4, SameListing DEF PagesType
<1>7. PagesHeld'
  BY <1>2, SameAnswer DEF PagesInv
<1>8. SeenSoFar' = Behind(f, answer.cursor.token, answer.cursor.offset)
  BY <1>2, SameListing DEF SeenSoFar
<1>9. ListsAll(answer.got \o call.found, call.filter, SeenSoFar)'
  BY <1>1, <1>2, <1>5, <1>8, SameListing
<1>10. PagesRun'
  BY <1>1, <1>2, <1>9 DEF PagesRun
<1> QED
  BY <1>6, <1>7, <1>10 DEF PagesInv

LEMMA PagesStartOver ==
  ASSUME Pages!PageConstants, PagesInv, NEW f \in Filters,
         call = Pages!NoCall, answer' = Pages!Fresh(f), UNCHANGED <<input, call>>
  PROVE  PagesInv'
<1>1. /\ input \in PageInputs /\ input' = input /\ call' = [pc |-> "idle"] /\ Len(input) \in Nat
  BY ListingFinite DEF PagesInv, PagesType, Pages!NoCall
<1>2. /\ answer'.got = <<>> /\ answer'.cursor = [token |-> 0, offset |-> 0, fingerprint |-> f]
      /\ answer'.outcome = "ask" /\ answer'.truncated = FALSE
  BY DEF Pages!Fresh, Pages!Start
<1>3. answer' \in PageAnswers
  <2>1. [token |-> 0, offset |-> 0, fingerprint |-> f] \in Cursors
    BY <1>1 DEF Cursors
  <2> QED
    BY <2>1 DEF PageAnswers, Pages!Fresh, Pages!Start
<1>4. ListsAll(<<>>, f, Behind(f, 0, 0))
  BY <1>1, BehindStart
<1>5. PagesHeld'
  BY <1>1, <1>2, <1>4, SameListing DEF PagesHeld
<1>6. PagesType' /\ PagesRun'
  BY <1>1, <1>3, SameListing DEF PagesType, PagesRun, Pages!NoCall
<1> QED
  BY <1>5, <1>6 DEF PagesInv

LEMMA PagesNextPage ==
  ASSUME Pages!PageConstants, PagesInv, Pages!NextPage
  PROVE  PagesInv'
<1>1. /\ input \in PageInputs /\ call \in PageCalls /\ call.pc = "page"
      /\ call.offset \in Nat /\ call.offset <= Len(Pages!Page)
  BY DEF PagesInv, PagesType, Pages!NextPage, Pages!NoCall, PageCalls, Pages!Page
<1>2. /\ call' = [call EXCEPT !.pc = "scan", !.i = call.offset + 1]
      /\ input' = input /\ answer' = answer
  BY DEF Pages!NextPage
<1>3. /\ call' \in PageCalls /\ call'.pc = "scan" /\ call'.i = call.offset + 1
      /\ call'.filter = call.filter /\ call'.pageStart = call.pageStart /\ call'.found = call.found
      /\ call'.resume = call.resume /\ call'.scanned = call.scanned
  <2>1. PICK n : n = call.offset + 1
    OBVIOUS
  <2>2. n \in Nat
    BY <1>1, <2>1
  <2>3. call \in PageCalls /\ call' = [call EXCEPT !.pc = "scan", !.i = n]
    BY <1>1, <1>2, <2>1
  <2> QED
    BY ONLY Zenon, <2>1, <2>2, <2>3 DEF PageCalls
<1>4. SeenSoFar' = SeenSoFar
  <2>1. call'.i - 1 = call.offset
    BY <1>1, <1>3
  <2>2. SeenSoFar = Behind(call.filter, call.pageStart, call.offset)
    BY <1>1 DEF SeenSoFar
  <2>3. SeenSoFar' = Behind(call'.filter, call'.pageStart, call'.i - 1)
    BY <1>2, <1>3, SameListing DEF SeenSoFar
  <2>4. SeenSoFar' = Behind(call.filter, call.pageStart, call'.i - 1)
    BY <1>3, <2>3
  <2> QED
    BY <2>1, <2>2, <2>4
<1>5. Pages!Page' = Pages!Page /\ call'.i \in 1..(Len(Pages!Page) + 1)
  <2>1. Pages!Page' = Pages!Page
    BY <1>2, <1>3 DEF Pages!Page, Pages!PageOf
  <2>2. Pages!PageOf(call.pageStart) \in 1..Len(input)
    BY <1>1, ListingFinite DEF PageCalls, Pages!PageOf
  <2>3. Len(Pages!Page) \in Nat
    BY <1>1, <2>2, ListingFinite DEF Pages!Page
  <2> QED
    BY <1>1, <1>3, <2>1, <2>3
<1>6. PagesType' /\ PagesHeld'
  BY <1>2, <1>3, SameListing, SameAnswer DEF PagesInv, PagesType
<1>7. PagesRun'
  <2>1. /\ answer.outcome # "done" /\ call.filter = answer.cursor.fingerprint
        /\ call.resume.fingerprint = call.filter
        /\ ListsAll(answer.got \o call.found, call.filter, SeenSoFar)
        /\ call.scanned > 0 =>
             SeenSoFar = IF Pages!AtEnd(call.resume) THEN Pages!Matches(call.filter)
                         ELSE Behind(call.filter, call.resume.token, call.resume.offset)
    BY <1>1 DEF PagesInv, PagesRun
  <2>2. ListsAll(answer.got \o call.found, call.filter, SeenSoFar)'
    BY <1>2, <1>3, <1>4, <2>1, SameListing
  <2>3. Pages!AtEnd(call.resume)' = Pages!AtEnd(call.resume)
    BY <1>3 DEF Pages!AtEnd
  <2>4. (call.scanned > 0 =>
             SeenSoFar = IF Pages!AtEnd(call.resume) THEN Pages!Matches(call.filter)
                         ELSE Behind(call.filter, call.resume.token, call.resume.offset))'
    BY <1>2, <1>3, <1>4, <2>1, <2>3, SameListing
  <2> QED
    BY <1>2, <1>3, <1>5, <2>1, <2>2, <2>4 DEF PagesRun
<1> QED
  BY <1>6, <1>7 DEF PagesInv

LEMMA PagesPageFailed ==
  ASSUME Pages!PageConstants, PagesInv, Pages!PageFailed
  PROVE  PagesInv'
<1>1. /\ answer \in PageAnswers /\ call.pc = "page" /\ call \in PageCalls /\ answer.outcome # "done"
      /\ answer' = [answer EXCEPT !.outcome = "error"] /\ input' = input /\ call' = [pc |-> "idle"]
  BY DEF PagesInv, PagesType, PagesRun, Pages!PageFailed, Pages!NoCall
<1>2. /\ answer' \in PageAnswers /\ answer'.got = answer.got /\ answer'.cursor = answer.cursor
      /\ answer'.outcome = "error" /\ answer'.truncated = answer.truncated
      /\ answer'.warning = answer.warning /\ answer'.count = answer.count
  BY Zenon, <1>1 DEF PageAnswers
<1>3. PagesHeld'
  BY <1>1, <1>2, SameListing DEF PagesInv, PagesHeld
<1>4. PagesType' /\ PagesRun'
  BY <1>1, <1>2, SameListing DEF PagesInv, PagesType, PagesRun, Pages!NoCall
<1> QED
  BY <1>3, <1>4 DEF PagesInv

LEMMA PagesEndOfPage ==
  ASSUME Pages!PageConstants, PagesInv, Pages!EndOfPage
  PROVE  PagesInv'
<1> DEFINE next == Pages!Following
<1>1. /\ input \in PageInputs /\ call \in PageCalls /\ call.pc = "scan" /\ next # 0
      /\ ~ Pages!CanExamine /\ call.scanned < MaxScan
      /\ call.i \in 1..(Len(Pages!Page) + 1)
  BY DEF PagesInv, PagesType, PagesRun, Pages!EndOfPage, Pages!NoCall
<1>2. /\ call' = [call EXCEPT !.pc = "page", !.pageStart = next, !.offset = 0]
      /\ input' = input /\ answer' = answer
  BY DEF Pages!EndOfPage
<1>3. /\ call.pageStart \in 0..Len(input) /\ Pages!PageOf(call.pageStart) \in 1..Len(input)
      /\ Len(Pages!Page) \in Nat
  <2>1. Pages!PageOf(call.pageStart) \in 1..Len(input) /\ call.pageStart \in 0..Len(input)
    BY <1>1, ListingFinite DEF PageCalls, Pages!PageOf
  <2> QED
    BY <1>1, <2>1, ListingFinite DEF Pages!Page
<1>4. call.i - 1 \in Nat /\ call.i - 1 >= Len(input[Pages!PageOf(call.pageStart)])
  BY <1>1, <1>3 DEF Pages!CanExamine, Pages!Page
<1>5. next \in 0..Len(input) /\ Behind(call.filter, call.pageStart, call.i - 1) = Behind(call.filter, next, 0)
  <2> DEFINE f == call.filter
             token == call.pageStart
             offset == call.i - 1
  <2>1. token \in 0..Len(input) /\ offset \in Nat /\ offset >= Len(input[Pages!PageOf(token)])
        /\ input \in PageInputs /\ Pages!NextToken(Pages!PageOf(token)) # 0
        /\ next = Pages!NextToken(Pages!PageOf(token))
    BY <1>1, <1>3, <1>4 DEF Pages!Following
  <2> HIDE DEF f, token, offset, next
  <2>2. next \in 0..Len(input) /\ Behind(f, token, offset) = Behind(f, next, 0)
    BY <2>1, BehindPage
  <2> QED
    BY <2>2 DEF f, token, offset
<1> HIDE DEF next
<1>6. /\ call' \in PageCalls /\ call'.pc = "page" /\ call'.pageStart = next /\ call'.offset = 0
      /\ call'.filter = call.filter /\ call'.found = call.found
      /\ call'.resume = call.resume /\ call'.scanned = call.scanned
  BY <1>1, <1>2, <1>5 DEF PageCalls
<1>7. SeenSoFar' = SeenSoFar
  <2>1. SeenSoFar = Behind(call.filter, call.pageStart, call.i - 1)
    BY <1>1 DEF SeenSoFar
  <2>2. SeenSoFar' = Behind(call.filter, next, 0)
    BY <1>2, <1>6, SameListing DEF SeenSoFar
  <2> QED
    BY <1>5, <2>1, <2>2
<1>8. PagesType' /\ PagesHeld'
  BY <1>2, <1>6, SameListing, SameAnswer DEF PagesInv, PagesType
<1>9. PagesRun'
  <2>1. /\ answer.outcome # "done" /\ call.filter = answer.cursor.fingerprint
        /\ call.resume.fingerprint = call.filter
        /\ ListsAll(answer.got \o call.found, call.filter, SeenSoFar)
        /\ call.scanned > 0 =>
             SeenSoFar = IF Pages!AtEnd(call.resume) THEN Pages!Matches(call.filter)
                         ELSE Behind(call.filter, call.resume.token, call.resume.offset)
    BY <1>1 DEF PagesInv, PagesRun
  <2>2. ListsAll(answer.got \o call.found, call.filter, SeenSoFar)'
    BY <1>2, <1>6, <1>7, <2>1, SameListing
  <2>3. Pages!AtEnd(call.resume)' = Pages!AtEnd(call.resume)
    BY <1>6 DEF Pages!AtEnd
  <2>4. (call.scanned > 0 =>
             SeenSoFar = IF Pages!AtEnd(call.resume) THEN Pages!Matches(call.filter)
                         ELSE Behind(call.filter, call.resume.token, call.resume.offset))'
    BY <1>2, <1>6, <1>7, <2>1, <2>3, SameListing
  <2> QED
    BY <1>2, <1>6, <2>1, <2>2, <2>4 DEF PagesRun
<1> QED
  BY <1>8, <1>9 DEF PagesInv

LEMMA PagesExamine ==
  ASSUME Pages!PageConstants, PagesInv, Pages!Examine
  PROVE  PagesInv'
<1>1. /\ Pages!CanExamine /\ call' = Pages!Examined /\ input' = input /\ answer' = answer
      /\ call \in PageCalls
  BY DEF Pages!Examine, Pages!CanExamine, PagesInv, PagesType, Pages!NoCall
<1> DEFINE f == call.filter
           seen == Behind(call.filter, call.pageStart, call.i)
<1>2. /\ call' \in PageCalls /\ call'.pc = "scan" /\ call'.filter = call.filter
      /\ call'.pageStart = call.pageStart /\ call'.i = call.i + 1 /\ call'.scanned > 0
      /\ call'.resume.fingerprint = call.filter
      /\ call'.i \in 1..(Len(Pages!Page) + 1)
      /\ ListsAll(answer.got \o call'.found, call.filter, seen)
      /\ seen = IF Pages!AtEnd(call'.resume) THEN Pages!Matches(call.filter)
                ELSE Behind(call.filter, call'.resume.token, call'.resume.offset)
  BY <1>1, ExaminedRight
<1> HIDE DEF seen
<1>3. Pages!Page' = Pages!Page
  BY <1>1, <1>2 DEF Pages!Page, Pages!PageOf
<1>4. SeenSoFar' = seen
  <2>1. call'.i - 1 = call.i
    BY <1>1, <1>2 DEF PageCalls
  <2>2. SeenSoFar' = Behind(call'.filter, call'.pageStart, call'.i - 1)
    BY <1>1, <1>2, SameListing DEF SeenSoFar
  <2>3. SeenSoFar' = Behind(call.filter, call.pageStart, call'.i - 1)
    BY <1>2, <2>2
  <2> QED
    BY <2>1, <2>3 DEF seen
<1>5. PagesType' /\ PagesHeld'
  BY <1>1, <1>2, SameListing, SameAnswer DEF PagesInv, PagesType
<1>6. answer.outcome # "done" /\ call.filter = answer.cursor.fingerprint
  BY <1>1 DEF PagesInv, PagesRun, Pages!CanExamine
<1>7. Pages!AtEnd(call.resume)' <=> Pages!AtEnd(call'.resume)
  BY DEF Pages!AtEnd
<1>8. PagesRun'
  <2>1. ListsAll(answer.got \o call.found, call.filter, SeenSoFar)'
    BY <1>1, <1>2, <1>4, SameListing
  <2>2. (SeenSoFar = IF Pages!AtEnd(call.resume) THEN Pages!Matches(call.filter)
                     ELSE Behind(call.filter, call.resume.token, call.resume.offset))'
    BY <1>1, <1>2, <1>4, <1>7, SameListing
  <2> QED
    BY <1>1, <1>2, <1>3, <1>6, <2>1, <2>2 DEF PagesRun
<1> QED
  BY <1>5, <1>8 DEF PagesInv

(* What a client holds next, given what its answer is.                     *)
LEMMA HeldNext ==
  ASSUME input' = input, NEW a, answer' = a,
         a.outcome # "done" =>
           ListsAll(a.got, a.cursor.fingerprint, Behind(a.cursor.fingerprint, a.cursor.token, a.cursor.offset)),
         a.outcome = "done" => ListsAll(a.got, a.cursor.fingerprint, Pages!Matches(a.cursor.fingerprint)),
         a.truncated => a.warning = "limit" \/ a.count \in PageSizes
  PROVE  PagesHeld'
BY SameListing DEF PagesHeld

LEMMA StartHeld ==
  ASSUME NEW f \in Filters, Len(input) \in Nat
  PROVE  Pages!Start(f) \in Cursors /\ Pages!Start(f).fingerprint = f
<1>1. [token |-> 0, offset |-> 0, fingerprint |-> f] \in Cursors
  BY DEF Cursors
<1> QED
  BY <1>1 DEF Pages!Start

(* A call that returns: the cursor it hands over says what is left.        *)
LEMMA PagesReturn ==
  ASSUME Pages!PageConstants, PagesInv, call.pc # "idle", input' = input,
         NEW c \in PageCalls, NEW truncated \in BOOLEAN, NEW warning \in {"none", "limit", "no such target"},
         NEW S, Pages!Return(c, truncated, warning),
         c.filter = answer.cursor.fingerprint, c.resume.fingerprint = c.filter,
         ListsAll(answer.got \o c.found, c.filter, S),
         truncated => S = Behind(c.filter, c.resume.token, c.resume.offset),
         ~ truncated => S = Pages!Matches(c.filter),
         truncated => warning = "limit" \/ Len(c.found) \in PageSizes
  PROVE  PagesInv'
<1>1. /\ answer' = [got |-> answer.got \o c.found,
                    cursor |-> (IF truncated THEN c.resume ELSE Pages!Start(c.filter)),
                    outcome |-> (IF truncated THEN "ask" ELSE "done"),
                    truncated |-> truncated, count |-> Len(c.found),
                    excluded |-> c.excluded, warning |-> warning]
      /\ call' = [pc |-> "idle"]
  BY Zenon DEF Pages!Return, Pages!NoCall
<1>2. /\ answer'.got = answer.got \o c.found /\ answer'.truncated = truncated
      /\ answer'.cursor = IF truncated THEN c.resume ELSE Pages!Start(c.filter)
      /\ answer'.outcome = IF truncated THEN "ask" ELSE "done"
      /\ answer'.warning = warning /\ answer'.count = Len(c.found)
  BY ONLY Zenon, <1>1
<1>3. /\ input \in PageInputs /\ Len(input) \in Nat
      /\ c.resume \in Cursors /\ c.filter \in Filters /\ c.found \in Seq(Metas) /\ c.excluded \in Nat
  BY Zenon, ListingFinite DEF PagesInv, PagesType, PageCalls
<1>4. /\ Pages!Start(c.filter) \in Cursors /\ Pages!Start(c.filter).fingerprint = c.filter
  BY Zenon, <1>3, StartHeld
<1>5. answer.got \o c.found \in Seq(Metas) /\ Len(c.found) \in Nat
  BY Zenon, <1>3, LenProperties DEF ListsAll
<1>6. answer' \in PageAnswers /\ answer'.cursor.fingerprint = c.filter
  BY ONLY Zenon, <1>1, <1>3, <1>4, <1>5, c.resume.fingerprint = c.filter, truncated \in BOOLEAN,
     warning \in {"none", "limit", "no such target"} DEF PageAnswers
<1>7. PagesHeld'
  <2>1. PICK a : a = answer'
    BY Zenon
  <2>2. /\ a.outcome # "done" =>
             ListsAll(a.got, a.cursor.fingerprint, Behind(a.cursor.fingerprint, a.cursor.token, a.cursor.offset))
        /\ a.outcome = "done" => ListsAll(a.got, a.cursor.fingerprint, Pages!Matches(a.cursor.fingerprint))
        /\ a.truncated => a.warning = "limit" \/ a.count \in PageSizes
    BY Zenon, <1>2, <1>6, <2>1
  <2> QED
    BY Zenon, <2>1, <2>2, HeldNext
<1>8. PagesType' /\ PagesRun'
  BY Zenon, <1>1, <1>3, <1>6, SameListing DEF PagesType, PagesRun, Pages!NoCall
<1> QED
  BY Zenon, <1>7, <1>8 DEF PagesInv

LEMMA PagesFull ==
  ASSUME Pages!PageConstants, PagesInv, Pages!Full
  PROVE  PagesInv'
<1> DEFINE e == Pages!Examined
           seen == Behind(call.filter, call.pageStart, call.i)
           truncated == ~ Pages!AtEnd(e.resume)
<1>1. /\ Pages!CanExamine /\ input' = input /\ call \in PageCalls /\ call.pc # "idle"
      /\ Pages!Match(call.filter, Pages!Page[call.i]) /\ Len(call.found) + 1 = call.size
      /\ Pages!Return(e, truncated, "none")
      /\ call.filter = answer.cursor.fingerprint
  BY DEF Pages!Full, Pages!CanExamine, PagesInv, PagesType, PagesRun, Pages!NoCall
<1>2. /\ e \in PageCalls /\ e.filter = call.filter
      /\ e.resume.fingerprint = call.filter /\ e.size = call.size
      /\ ListsAll(answer.got \o e.found, call.filter, seen)
      /\ seen = IF Pages!AtEnd(e.resume) THEN Pages!Matches(call.filter)
                ELSE Behind(call.filter, e.resume.token, e.resume.offset)
      /\ Len(e.found) = Len(call.found)
                          + (IF Pages!Match(call.filter, Pages!Page[call.i]) THEN 1 ELSE 0)
  BY <1>1, ExaminedRight
<1>3. Len(e.found) = call.size /\ call.size \in PageSizes
  BY <1>1, <1>2 DEF PageCalls
<1>4. truncated \in BOOLEAN
  BY DEF Pages!AtEnd
<1> HIDE DEF e, seen
<1>5. \A t \in BOOLEAN : t = truncated => PagesInv'
  <2> SUFFICES ASSUME NEW t \in BOOLEAN, t = truncated PROVE PagesInv'
    OBVIOUS
  <2>1. Pages!Return(e, t, "none")
    BY <1>1
  <2>2. /\ t => seen = Behind(e.filter, e.resume.token, e.resume.offset)
        /\ ~ t => seen = Pages!Matches(e.filter)
        /\ t => Len(e.found) \in PageSizes
    BY <1>2, <1>3
  <2>3. e.filter = answer.cursor.fingerprint /\ e.resume.fingerprint = e.filter
        /\ ListsAll(answer.got \o e.found, e.filter, seen)
    BY <1>1, <1>2
  <2> HIDE DEF truncated
  <2> QED
    BY Zenon, <1>1, <1>2, <2>1, <2>2, <2>3, PagesReturn
<1> QED
  BY <1>4, <1>5

LEMMA PagesEndOfScan ==
  ASSUME Pages!PageConstants, PagesInv, Pages!EndOfScan
  PROVE  PagesInv'
<1> DEFINE truncated == call.scanned >= MaxScan /\ ~ Pages!AtEnd(call.resume)
           warning == IF truncated THEN "limit"
                      ELSE IF call.filter.targets # {} /\ call.found = <<>> THEN "no such target"
                      ELSE "none"
<1>1. /\ call.pc = "scan" /\ call.pc # "idle" /\ call \in PageCalls /\ input' = input /\ input \in PageInputs
      /\ ~ Pages!CanExamine /\ (Pages!Following = 0 \/ call.scanned >= MaxScan)
  <2>1. /\ call.pc = "scan" /\ input' = input
        /\ ~ Pages!CanExamine /\ (Pages!Following = 0 \/ call.scanned >= MaxScan)
    BY Zenon DEF Pages!EndOfScan
  <2>2. call = [pc |-> "idle"] \/ call \in PageCalls
    BY DEF PagesInv, PagesType, Pages!NoCall
  <2>3. input \in PageInputs
    BY DEF PagesInv, PagesType
  <2> QED
    BY <2>1, <2>2, <2>3
<1>2. /\ call.filter = answer.cursor.fingerprint /\ call.resume.fingerprint = call.filter
      /\ ListsAll(answer.got \o call.found, call.filter, SeenSoFar)
      /\ call.scanned > 0 =>
           SeenSoFar = IF Pages!AtEnd(call.resume) THEN Pages!Matches(call.filter)
                       ELSE Behind(call.filter, call.resume.token, call.resume.offset)
      /\ call.i \in 1..(Len(Pages!Page) + 1)
  BY <1>1 DEF PagesInv, PagesRun
<1>3. MaxScan \in Nat \ {0} /\ call.scanned \in Nat
  BY <1>1 DEF Pages!PageConstants, PageCalls
<1>4. truncated => SeenSoFar = Behind(call.filter, call.resume.token, call.resume.offset)
  BY <1>2, <1>3
<1>5. ~ truncated => SeenSoFar = Pages!Matches(call.filter)
  <2>1. CASE call.scanned >= MaxScan
    BY <1>2, <1>3, <2>1
  <2>2. CASE ~ (call.scanned >= MaxScan)
    <3> DEFINE f == call.filter
               token == call.pageStart
               offset == call.i - 1
    <3>1. Pages!Following = 0 /\ call.scanned < MaxScan
      BY <1>1, <1>3, <2>2
    <3>2. token \in 0..Len(input) /\ Pages!PageOf(token) \in 1..Len(input)
      BY <1>1, ListingFinite DEF PageCalls, Pages!PageOf
    <3>3. Len(Pages!Page) \in Nat /\ Pages!Page = input[Pages!PageOf(token)]
      BY <1>1, <3>2, ListingFinite DEF Pages!Page
    <3>4. offset \in Nat /\ offset >= Len(input[Pages!PageOf(token)])
      BY <1>1, <1>2, <3>1, <3>3 DEF Pages!CanExamine
    <3>5. Pages!NextToken(Pages!PageOf(token)) = 0
      BY <3>1 DEF Pages!Following
    <3>6. SeenSoFar = Behind(f, token, offset)
      BY <1>1 DEF SeenSoFar
    <3> HIDE DEF f, token, offset
    <3>7. Behind(f, token, offset) = Pages!Matches(f)
      BY <1>1, <3>2, <3>4, <3>5, BehindPage
    <3> QED
      BY <3>6, <3>7 DEF f
  <2> QED
    BY <2>1, <2>2
<1>8. Pages!Return(call, truncated, warning)
  BY Zenon DEF Pages!EndOfScan
<1>6. truncated \in BOOLEAN /\ warning \in {"none", "limit", "no such target"}
      /\ (truncated => warning = "limit")
  BY DEF Pages!AtEnd
<1>7. \A t \in BOOLEAN : \A w \in {"none", "limit", "no such target"} :
        t = truncated /\ w = warning => PagesInv'
  <2> SUFFICES ASSUME NEW t \in BOOLEAN, NEW w \in {"none", "limit", "no such target"},
                      t = truncated, w = warning
               PROVE PagesInv'
    BY Zenon
  <2>1. /\ Pages!Return(call, t, w)
        /\ t => SeenSoFar = Behind(call.filter, call.resume.token, call.resume.offset)
        /\ ~ t => SeenSoFar = Pages!Matches(call.filter)
        /\ t => w = "limit"
    BY Zenon, <1>4, <1>5, <1>6, <1>8
  <2> HIDE DEF truncated, warning
  <2> QED
    BY Zenon, <1>1, <1>2, <2>1, PagesReturn
<1> QED
  BY <1>6, <1>7

LEMMA PagesStep ==
  ASSUME Pages!PageConstants, PagesInv, [Pages!Next]_(Pages!vars)
  PROVE  PagesInv'
<1>1. CASE Pages!Next
  <2>1. ASSUME NEW f \in Filters, Pages!CursorMismatch(f) \/ Pages!NewQuery(f) PROVE PagesInv'
    BY <2>1, PagesStartOver DEF Pages!CursorMismatch, Pages!NewQuery
  <2> QED
    BY <1>1, <2>1, PagesAsk, PagesNextPage, PagesPageFailed, PagesExamine, PagesFull,
       PagesEndOfPage, PagesEndOfScan DEF Pages!Next
<1>2. CASE UNCHANGED Pages!vars
  <2>1. input' = input /\ call' = call /\ answer' = answer
    BY <1>2 DEF Pages!vars
  <2>2. SeenSoFar' = SeenSoFar
    BY <2>1, SameListing DEF SeenSoFar
  <2>3. PagesRun'
    BY <2>1, <2>2, SameListing DEF PagesInv, PagesRun, Pages!AtEnd, Pages!Page, Pages!PageOf
  <2> QED
    BY <2>1, <2>3, SameListing, SameAnswer DEF PagesInv, PagesType
<1> QED
  BY <1>1, <1>2

(* What the client holds is the beginning of the list of matches.          *)
LEMMA PagesAreExact ==
  ASSUME Pages!PageConstants, PagesInv
  PROVE  Pages!PagingExact
<1> DEFINE f == answer.cursor.fingerprint
           token == answer.cursor.token
           offset == answer.cursor.offset
           S == IF answer.outcome = "done" THEN Pages!Matches(f) ELSE Behind(f, token, offset)
<1>1. input \in PageInputs /\ token \in 0..Len(input) /\ offset \in Nat /\ Len(input) \in Nat
  BY Zenon, ListingFinite DEF PagesInv, PagesType, PageAnswers, Cursors
<1>2. S \in SUBSET Pages!Matches(f) /\ ListsAll(answer.got, f, S)
  BY BehindType DEF PagesInv, PagesHeld
<1>3. Len(answer.got) = Cardinality(S) /\ \A p \in S : answer.got[Pages!Place(f, p)] = Pages!MetaAt(p)
  BY <1>2 DEF ListsAll
<1>4. Cardinality(S) \in Nat /\ IsFiniteSet(S) /\ Cardinality(S) <= Cardinality(Pages!Matches(f))
  BY <1>1, <1>2, MatchesFinite
<1>5. ASSUME NEW p \in Pages!Matches(f), Pages!Place(f, p) <= Len(answer.got) PROVE p \in S
  <2>1. SUFFICES ASSUME p \notin S PROVE FALSE
    OBVIOUS
  <2>2. answer.outcome # "done" /\ S = Behind(f, token, offset)
    BY <2>1
  <2>3. S \subseteq {q \in Pages!Matches(f) : Pages!UpTo(q, p)}
    <3> DEFINE page == Pages!PageOf(token)
    <3>1. page \in Nat /\ p[1] \in Nat /\ p[2] \in Nat
      BY <1>1, MatchesFinite, ListingFinite DEF Pages!PageOf
    <3>2. \A q \in Pages!Matches(f) : q[1] \in Nat /\ q[2] \in Nat
      BY <1>1, MatchesFinite, ListingFinite
    <3>3. S = {q \in Pages!Matches(f) : q[1] < page \/ (q[1] = page /\ q[2] <= offset)}
      BY <2>2 DEF Behind
    <3> HIDE DEF page, S, f, token, offset
    <3>4. ~ (p[1] < page \/ (p[1] = page /\ p[2] <= offset))
      BY <2>1, <3>3
    <3>5. ASSUME NEW q \in S PROVE Pages!UpTo(q, p)
      <4>1. q[1] \in Nat /\ q[2] \in Nat /\ (q[1] < page \/ (q[1] = page /\ q[2] <= offset))
        BY <3>2, <3>3
      <4> QED
        BY <1>1, <3>1, <3>4, <4>1 DEF Pages!UpTo
    <3> QED
      BY <3>3, <3>5
  <2>4. p \in {q \in Pages!Matches(f) : Pages!UpTo(q, p)}
    BY <1>1, MatchesFinite, ListingFinite DEF Pages!UpTo
  <2> DEFINE T == {q \in Pages!Matches(f) : Pages!UpTo(q, p)}
  <2>5. T \in SUBSET Pages!Matches(f) /\ S \union {p} \subseteq T
    BY <2>3, <2>4
  <2>6. IsFiniteSet(T) /\ Cardinality(T) \in Nat
    BY <1>1, <2>5, MatchesFinite
  <2> HIDE DEF T, S
  <2>7. Cardinality(S \union {p}) = Cardinality(S) + 1 /\ Cardinality(S \union {p}) <= Cardinality(T)
    BY <1>4, <2>1, <2>5, <2>6, FS_AddElement, FS_Subset
  <2>8. Pages!Place(f, p) = Cardinality(T)
    BY PagesCardinality DEF Pages!Place, T
  <2> QED
    BY <1>3, <1>4, <1>5, <2>6, <2>7, <2>8
<1> HIDE DEF S
<1>6. \A p \in Pages!Matches(f) :
        Pages!Place(f, p) <= Len(answer.got) => answer.got[Pages!Place(f, p)] = Pages!MetaAt(p)
  BY <1>3, <1>5
<1>7. answer.outcome = "done" => Len(answer.got) = Cardinality(Pages!Matches(f))
  BY <1>3 DEF S
<1>8. answer.truncated => answer.warning = "limit" \/ answer.count \in PageSizes
  BY DEF PagesInv, PagesHeld
<1> QED
  BY <1>3, <1>4, <1>6, <1>7, <1>8, PagesCardinality DEF Pages!PagingExact

-----------------------------------------------------------------------------
(* The listings that pass the tokens of the APIs through (LogPages): for   *)
(* any number of entries, any limits, any number and length of short pages *)
(* and any failures, a client that follows the tokens gets no entry twice; *)
(* what it misses was in the buffer of a call that had reached its limit,  *)
(* which takes a short page.                                               *)

(* Runs of consecutive entries.                                            *)

LEMMA EntriesType ==
  ASSUME NEW a \in Nat, NEW k \in Nat
  PROVE  /\ Listing!Entries(a, k) \in Seq(Nat) /\ Len(Listing!Entries(a, k)) = k
         /\ \A i \in 1..k : Listing!Entries(a, k)[i] = a + i
         /\ Listing!Entries(a, k) = <<>> <=> k = 0
<1>1. Listing!Entries(a, k) \in [1..k -> Nat]
  BY DEF Listing!Entries
<1>2. Listing!Entries(a, k) \in Seq(Nat) /\ Len(Listing!Entries(a, k)) = k
  BY <1>1, SeqDef, LenProperties DEF Listing!Entries
<1>3. \A i \in 1..k : Listing!Entries(a, k)[i] = a + i
  BY DEF Listing!Entries
<1>4. Listing!Entries(a, k) = <<>> <=> k = 0
  BY <1>2, EmptySeq
<1> QED
  BY <1>2, <1>3, <1>4

LEMMA EntriesConcat ==
  ASSUME NEW a \in Nat, NEW k \in Nat, NEW m \in Nat
  PROVE  Listing!Entries(a, k) \o Listing!Entries(a + k, m) = Listing!Entries(a, k + m)
<1> DEFINE s == Listing!Entries(a, k)
           t == Listing!Entries(a + k, m)
           r == Listing!Entries(a, k + m)
<1>1. a + k \in Nat /\ k + m \in Nat
  OBVIOUS
<1>2. s \in Seq(Nat) /\ Len(s) = k /\ \A i \in 1..k : s[i] = a + i
  BY EntriesType
<1>3. t \in Seq(Nat) /\ Len(t) = m /\ \A i \in 1..m : t[i] = (a + k) + i
  BY <1>1, EntriesType
<1>4. r \in Seq(Nat) /\ Len(r) = k + m /\ \A i \in 1..(k + m) : r[i] = a + i
  BY <1>1, EntriesType
<1> HIDE DEF s, t, r
<1>5. /\ s \o t \in Seq(Nat) /\ Len(s \o t) = k + m
      /\ \A i \in 1..(k + m) : (s \o t)[i] = IF i <= k THEN s[i] ELSE t[i - k]
  BY <1>2, <1>3, ConcatProperties
<1>6. ASSUME NEW i \in 1..(k + m) PROVE (s \o t)[i] = r[i]
  <2>1. CASE i <= k
    <3>1. i \in 1..k
      BY <2>1
    <3> QED
      BY <1>2, <1>4, <1>5, <2>1, <3>1
  <2>2. CASE ~ (i <= k)
    <3>1. i - k \in 1..m /\ (a + k) + (i - k) = a + i
      BY <2>2
    <3> QED
      BY <1>3, <1>4, <1>5, <2>2, <3>1
  <2> QED
    BY <2>1, <2>2
<1>7. s \o t = r
  BY <1>4, <1>5, <1>6, SeqEqual
<1> QED
  BY <1>7 DEF s, t, r

(* Next of the iterator: the head of the buffer moves to the answer.       *)
LEMMA EntriesMove ==
  ASSUME NEW a \in Nat, NEW k \in Nat, NEW m \in Nat, m # 0
  PROVE  /\ Append(Listing!Entries(a, k), Head(Listing!Entries(a + k, m))) = Listing!Entries(a, k + 1)
         /\ Tail(Listing!Entries(a + k, m)) = Listing!Entries(a + (k + 1), m - 1)
<1> DEFINE s == Listing!Entries(a, k)
           t == Listing!Entries(a + k, m)
<1>1. a + k \in Nat /\ k + 1 \in Nat /\ a + (k + 1) \in Nat /\ m - 1 \in Nat /\ 1 \in 1..m
  OBVIOUS
<1>2. s \in Seq(Nat) /\ Len(s) = k /\ \A i \in 1..k : s[i] = a + i
  BY EntriesType
<1>3. t \in Seq(Nat) /\ Len(t) = m /\ t # <<>> /\ \A i \in 1..m : t[i] = (a + k) + i
  BY <1>1, EntriesType
<1> HIDE DEF s, t
<1>4. Head(t) = a + (k + 1)
  BY <1>1, <1>3
<1>5. Append(s, Head(t)) = Listing!Entries(a, k + 1)
  <2> DEFINE r == Append(s, Head(t))
             q == Listing!Entries(a, k + 1)
  <2>1. Head(t) \in Nat
    BY <1>1, <1>4
  <2>2. /\ r \in Seq(Nat) /\ Len(r) = k + 1
        /\ \A i \in 1..k : r[i] = s[i]
        /\ r[k + 1] = Head(t)
    BY <1>2, <2>1, AppendProperties
  <2>3. q \in Seq(Nat) /\ Len(q) = k + 1 /\ \A i \in 1..(k + 1) : q[i] = a + i
    BY <1>1, EntriesType
  <2> HIDE DEF r, q
  <2>4. ASSUME NEW i \in 1..(k + 1) PROVE r[i] = q[i]
    <3>1. i \in 1..k \/ i = k + 1
      OBVIOUS
    <3> QED
      BY <1>2, <1>4, <2>2, <2>3, <3>1
  <2>5. r = q
    BY <2>2, <2>3, <2>4, SeqEqual
  <2> QED
    BY <2>5 DEF r, q
<1>6. Tail(t) = Listing!Entries(a + (k + 1), m - 1)
  <2> DEFINE r == Tail(t)
             q == Listing!Entries(a + (k + 1), m - 1)
  <2>1. r \in Seq(Nat) /\ Len(r) = m - 1 /\ \A i \in 1..(m - 1) : r[i] = t[i + 1]
    BY <1>3, HeadTailProperties
  <2>2. q \in Seq(Nat) /\ Len(q) = m - 1 /\ \A i \in 1..(m - 1) : q[i] = (a + (k + 1)) + i
    BY <1>1, EntriesType
  <2> HIDE DEF r, q
  <2>3. ASSUME NEW i \in 1..(m - 1) PROVE r[i] = q[i]
    <3>1. i + 1 \in 1..m /\ (a + k) + (i + 1) = (a + (k + 1)) + i
      OBVIOUS
    <3> QED
      BY <1>3, <2>1, <2>2, <3>1
  <2>4. r = q
    BY <2>1, <2>2, <2>3, SeqEqual
  <2> QED
    BY <2>4 DEF r, q
<1> QED
  BY <1>5, <1>6 DEF s, t

-----------------------------------------------------------------------------
(* The listings' invariant.                                                *)

ListingTokens == [after : Nat, empty : Nat]

ListingInput == input \in [listing : Listings, n : Nat, limit : Nat \ {0}]

(* What the client has is in the order of the list and no entry after m.   *)
Rising(got, m) ==
  /\ \A k \in 1..Len(got) : got[k] \in 1..m
  /\ \A j, k \in 1..Len(got) : j < k => got[j] < got[k]

Answers == [got : Seq(Nat), token : ListingTokens, outcome : {"ask", "error", "done", "stopped"},
            page : Seq(Nat), from : Nat, short : BOOLEAN]

(* The token is past what the client has; it is right past it, if all      *)
(* pages were full, and right past the last page, if that is not full.     *)
ListingAnswer ==
  /\ answer \in Answers
  /\ \E m \in 0..input.n :
       /\ Rising(answer.got, m)
       /\ answer.outcome \in {"ask", "error"} => answer.token.after = m
  /\ ~ answer.short =>
       /\ answer.got = Listing!Entries(0, Len(answer.got))
       /\ answer.outcome \in {"ask", "error"} => answer.token.after = Len(answer.got)
       /\ answer.outcome = "done" => Len(answer.got) = input.n
  /\ Len(answer.page) <= input.limit /\ answer.page = Listing!Entries(answer.from, Len(answer.page))
  /\ Len(answer.page) < input.limit =>
       /\ answer.outcome \in {"ask", "error"} => answer.token.after = answer.from + Len(answer.page)
       /\ answer.outcome = "done" => input.n = answer.from + Len(answer.page)

(* A call that started after entry a has taken e entries and buffers       *)
(* another b; the iterator's token is that of the page after them.         *)
WithinPage(a, e, b) ==
  /\ a + e + b <= input.n /\ e <= input.limit
  /\ ~ call.short => e + b = 0 \/ e + b = input.limit \/ (e + b <= input.limit /\ a + e + b = input.n)

Readers == [pc : {"read"}, start : ListingTokens, token : ListingTokens, buf : Seq(Nat),
           atEnd : BOOLEAN, entries : Seq(Nat), short : BOOLEAN]

ReadingAt(a, e, b) ==
  /\ call \in Readers /\ call.start = answer.token /\ call.start.after = a
  /\ ~ call.short => ~ answer.short
  /\ call.entries = Listing!Entries(a, e) /\ call.buf = Listing!Entries(a + e, b)
  /\ WithinPage(a, e, b)
  /\ call.atEnd => call.token = Listing!NoToken /\ a + e + b = input.n
  /\ ~ call.atEnd => /\ call.token.after = a + e + b
                     /\ call.token = Listing!NoToken => e + b = 0

ListingRun ==
  /\ answer.outcome \in {"ask", "error"}
  /\ \E a, e, b \in 0..input.n : ReadingAt(a, e, b)

ListingInv == ListingInput /\ ListingAnswer /\ (call = Listing!NoCall \/ ListingRun)

LEMMA ListingCallKept ==
  ASSUME NEW a \in Nat, NEW e \in Nat, NEW b \in Nat, ListingInput', ReadingAt(a, e, b)',
         answer'.outcome \in {"ask", "error"}
  PROVE  ListingRun'
<1>1. a + e + b <= input'.n
  BY DEF ReadingAt, WithinPage
<1>2. input'.n \in Nat
  BY DEF ListingInput
<1>3. a \in 0..input'.n /\ e \in 0..input'.n /\ b \in 0..input'.n
  BY <1>1, <1>2
<1> QED
  BY <1>3 DEF ListingRun

(* What a running call knows, by name.                                     *)
LEMMA ListingRunning ==
  ASSUME ListingInv, call.pc = "read"
  PROVE  \E a, e, b \in Nat :
           /\ ReadingAt(a, e, b) /\ WithinPage(a, e, b)
           /\ Len(call.entries) = e
           /\ call.buf = <<>> <=> b = 0
           /\ call.entries = <<>> <=> e = 0
<1>1. ListingRun
  BY DEF ListingInv, Listing!NoCall
<1>2. PICK a, e, b \in 0..input.n : ReadingAt(a, e, b)
  BY <1>1 DEF ListingRun
<1>3. a \in Nat /\ e \in Nat /\ b \in Nat /\ a + e \in Nat
  OBVIOUS
<1>4. Len(Listing!Entries(a, e)) = e /\ (Listing!Entries(a, e) = <<>> <=> e = 0)
  BY <1>3, EntriesType
<1>5. Listing!Entries(a + e, b) = <<>> <=> b = 0
  BY <1>3, EntriesType
<1> QED
  BY <1>2, <1>3, <1>4, <1>5 DEF ReadingAt

LEMMA ListingBeginStep == ASSUME ListingInv, Listing!Begin PROVE ListingInv'
<1>1. PICK c : c = [pc |-> "read", start |-> answer.token, token |-> answer.token,
                    buf |-> <<>>, atEnd |-> FALSE, entries |-> <<>>, short |-> answer.short]
  BY Zenon
<1>2. /\ answer.outcome \in {"ask", "error"} /\ call' = c
      /\ input' = input /\ answer' = answer
  BY <1>1 DEF Listing!Begin
<1>3. ListingInput' /\ ListingAnswer'
  BY <1>2 DEF ListingInv, ListingInput, ListingAnswer
<1>4. PICK a : a = answer.token.after
  OBVIOUS
<1>5. /\ a \in Nat /\ answer.token \in ListingTokens /\ a <= input.n
      /\ input.n \in Nat /\ input.limit \in Nat
  <2>1. answer \in Answers /\ \E m \in 0..input.n : answer.token.after = m
    BY <1>2 DEF ListingInv, ListingAnswer
  <2> QED
    BY <1>4, <2>1 DEF ListingInv, ListingInput, Answers, ListingTokens
<1>6. Listing!Entries(a, 0) = <<>> /\ Listing!Entries(a + 0, 0) = <<>>
  BY <1>5, EntriesType
<1>7. /\ c \in Readers /\ c.start = answer.token /\ c.token = answer.token
      /\ c.entries = <<>> /\ c.buf = <<>> /\ c.atEnd = FALSE /\ c.short = answer.short
  <2>1. answer.short \in BOOLEAN
    BY DEF ListingInv, ListingAnswer, Answers
  <2> QED
    BY <1>1, <1>5, <2>1, EmptySeq DEF Readers
<1>8. a + 0 + 0 <= input.n /\ 0 <= input.limit /\ 0 + 0 = 0
  BY <1>5
<1>9. a = a + 0 + 0
  BY <1>5
<1>10. ReadingAt(a, 0, 0)'
  BY <1>2, <1>4, <1>6, <1>7, <1>8, <1>9 DEF ReadingAt, WithinPage
<1>11. 0 \in Nat
  OBVIOUS
<1>12. ListingRun'
  BY <1>2, <1>3, <1>5, <1>10, <1>11, ListingCallKept
<1> QED
  BY <1>3, <1>12 DEF ListingInv

(* If a fetched page is full, the last one, or empty, nothing is left in   *)
(* the buffer when the call has as many entries as it was asked for.       *)
LEMMA ListingFetchStep == ASSUME ListingInv, Listing!Fetch PROVE ListingInv'
<1>1. /\ call.pc = "read" /\ Len(call.entries) < input.limit
      /\ call.buf = <<>> /\ ~ call.atEnd /\ input' = input /\ answer' = answer
  BY DEF Listing!Fetch, Listing!Reading
<1>2. PICK k \in Listing!PageSizesAt(call.token) :
        \E next \in Listing!TokensAfter(call.token, k) :
          call' = [call EXCEPT !.buf = Listing!Entries(call.token.after, k),
                               !.token = next, !.atEnd = (next = Listing!NoToken),
                               !.short = call.short \/ (k # 0 /\ k < Listing!Full(call.token))]
  BY Zenon DEF Listing!Fetch
<1>3. PICK next \in Listing!TokensAfter(call.token, k) :
        call' = [call EXCEPT !.buf = Listing!Entries(call.token.after, k),
                             !.token = next, !.atEnd = (next = Listing!NoToken),
                             !.short = call.short \/ (k # 0 /\ k < Listing!Full(call.token))]
  BY Zenon, <1>2
<1>4. PICK a, e, b \in Nat :
           /\ ReadingAt(a, e, b) /\ WithinPage(a, e, b)
           /\ Len(call.entries) = e
           /\ call.buf = <<>> <=> b = 0
           /\ call.entries = <<>> <=> e = 0
  BY <1>1, ListingRunning
<1>5. /\ call \in Readers /\ call.start = answer.token /\ call.start.after = a
      /\ call.entries = Listing!Entries(a, e)
  BY <1>4 DEF ReadingAt
<1>6. call.token.after = a + e + b
  BY <1>1, <1>4 DEF ReadingAt
<1>7. input.n \in Nat /\ input.limit \in Nat /\ input.limit # 0
  BY DEF ListingInv, ListingInput
<1>8. b = 0 /\ e < input.limit
  BY <1>1, <1>4
<1>9. call.token.after = a + e /\ a + e <= input.n /\ a + e \in Nat
  BY <1>4, <1>6, <1>7, <1>8 DEF WithinPage
<1>10. call.short \/ e = 0 \/ a + e = input.n
  BY <1>4, <1>7, <1>8 DEF WithinPage
<1>11. PICK full : full = Listing!Full(call.token)
  OBVIOUS
<1>12. /\ full \in Nat /\ full <= input.limit /\ a + e + full <= input.n
       /\ full = input.limit \/ a + e + full = input.n
  BY <1>7, <1>9, <1>11 DEF Listing!Full, Listing!Least
<1>13. k = full \/ k = 0 \/ k \in 1..full
  BY <1>9, <1>11 DEF Listing!PageSizesAt
<1>14. k \in Nat /\ a + e + k <= input.n
  BY <1>7, <1>9, <1>12, <1>13
<1>15. \/ call.short \/ (k # 0 /\ k < full)
       \/ e + k = 0 \/ e + k = input.limit \/ (e + k <= input.limit /\ a + e + k = input.n)
  BY <1>7, <1>8, <1>9, <1>10, <1>12, <1>13
<1>16. PICK after : after = [after |-> a + e + k,
                             empty |-> IF k = 0 THEN call.token.empty + 1 ELSE 0]
  OBVIOUS
<1>17. next = after \/ (next = Listing!NoToken /\ a + e + k = input.n)
  <2>1. Listing!TokensAfter(call.token, k)
          = IF a + e + k < input.n THEN {after}
            ELSE {Listing!NoToken} \union (IF after.empty <= MaxEmpty /\ after # Listing!NoToken
                                   THEN {after} ELSE {})
    BY <1>9, <1>16 DEF Listing!TokensAfter
  <2>2. a + e + k < input.n \/ a + e + k = input.n
    BY <1>7, <1>9, <1>14
  <2> QED
    BY <2>1, <2>2
<1>18. call.token.empty \in Nat
  BY <1>5 DEF Readers, ListingTokens
<1>19. after.after = a + e + k /\ (k = 0 => after.empty # 0) /\ after \in ListingTokens
  BY <1>9, <1>14, <1>16, <1>18 DEF ListingTokens
<1>20. after # Listing!NoToken
  BY <1>9, <1>14, <1>19 DEF Listing!NoToken
<1>21. Listing!NoToken \in ListingTokens
  BY DEF Listing!NoToken, ListingTokens
<1>22. Listing!Entries(a + e, k) \in Seq(Nat)
  BY <1>9, <1>14, EntriesType
<1>23. /\ call' \in Readers
       /\ call'.start = call.start /\ call'.entries = call.entries
       /\ call'.buf = Listing!Entries(a + e, k) /\ call'.token = next
       /\ call'.atEnd = (next = Listing!NoToken)
       /\ call'.short = (call.short \/ (k # 0 /\ k < full))
  <2>1. PICK short \in BOOLEAN : short = (call.short \/ (k # 0 /\ k < full))
    OBVIOUS
  <2>2. call' = [call EXCEPT !.buf = Listing!Entries(a + e, k), !.token = next,
                             !.atEnd = (next = Listing!NoToken), !.short = short]
    BY Zenon, <1>3, <1>9, <1>11, <2>1
  <2>3. next \in ListingTokens
    BY Zenon, <1>17, <1>19, <1>21
  <2>4. PICK ended \in BOOLEAN : ended = (next = Listing!NoToken)
    OBVIOUS
  <2>5. call' = [call EXCEPT !.buf = Listing!Entries(a + e, k), !.token = next,
                             !.atEnd = ended, !.short = short]
    BY Zenon, <2>2, <2>4
  <2> DEFINE buf == Listing!Entries(a + e, k)
  <2>6. call' = [call EXCEPT !.buf = buf, !.token = next, !.atEnd = ended, !.short = short] /\ buf \in Seq(Nat)
    BY Zenon, <1>22, <2>5
  <2> HIDE DEF buf
  <2>7. /\ call' \in Readers
        /\ call'.start = call.start /\ call'.entries = call.entries
        /\ call'.buf = buf /\ call'.token = next /\ call'.atEnd = ended /\ call'.short = short
    BY <1>5, <2>1, <2>3, <2>4, <2>6 DEF Readers
  <2> QED
    BY Zenon, <2>1, <2>4, <2>7 DEF buf
<1>24. ListingInput' /\ ListingAnswer'
  BY <1>1 DEF ListingInv, ListingInput, ListingAnswer
<1>25. WithinPage(a, e, k)'
  <2>1. call'.short = (call.short \/ (k # 0 /\ k < full))
    BY <1>23
  <2>2. input'.n = input.n /\ input'.limit = input.limit /\ e <= input.limit
    BY <1>1, <1>7, <1>8
  <2> QED
    BY Zenon, <1>14, <1>15, <2>1, <2>2 DEF WithinPage
<1>26. ReadingAt(a, e, k)'
  <2>1. ~ call'.short => ~ answer'.short
    BY <1>1, <1>4, <1>23 DEF ReadingAt
  <2> QED
    BY Zenon, <1>1, <1>5, <1>17, <1>19, <1>20, <1>23, <1>25, <2>1 DEF ReadingAt
<1>27. answer'.outcome \in {"ask", "error"}
  BY <1>1 DEF ListingInv, ListingRun, Listing!NoCall
<1>28. ListingRun'
  BY <1>4, <1>14, <1>24, <1>26, <1>27, ListingCallKept
<1> QED
  BY <1>24, <1>28 DEF ListingInv

LEMMA ListingTakeStep == ASSUME ListingInv, Listing!Take PROVE ListingInv'
<1>1. /\ call.pc = "read" /\ call.buf # <<>> /\ Len(call.entries) < input.limit
      /\ call' = [call EXCEPT !.entries = Append(call.entries, Head(call.buf)),
                              !.buf = Tail(call.buf)]
      /\ input' = input /\ answer' = answer
  BY DEF Listing!Take, Listing!Reading
<1>2. PICK a, e, b \in Nat :
           /\ ReadingAt(a, e, b) /\ WithinPage(a, e, b)
           /\ Len(call.entries) = e
           /\ call.buf = <<>> <=> b = 0
           /\ call.entries = <<>> <=> e = 0
  BY <1>1, ListingRunning
<1>3. b # 0
  BY <1>1, <1>2
<1>4. /\ e + 1 \in Nat /\ b - 1 \in Nat /\ (e + 1) + (b - 1) = e + b
      /\ e + 1 <= input.limit
      /\ a + (e + 1) + (b - 1) = a + e + b /\ a + (e + 1) \in Nat
  <2>1. e < input.limit /\ input.limit \in Nat
    BY <1>1, <1>2 DEF ListingInv, ListingInput
  <2> QED
    BY <1>3, <2>1
<1>5. call.entries = Listing!Entries(a, e) /\ call.buf = Listing!Entries(a + e, b)
  BY <1>2 DEF ReadingAt
<1>6. /\ Append(Listing!Entries(a, e), Head(Listing!Entries(a + e, b))) = Listing!Entries(a, e + 1)
      /\ Tail(Listing!Entries(a + e, b)) = Listing!Entries(a + (e + 1), b - 1)
  BY <1>3, EntriesMove
<1>7. Listing!Entries(a, e + 1) \in Seq(Nat) /\ Listing!Entries(a + (e + 1), b - 1) \in Seq(Nat)
  BY <1>4, EntriesType
<1>8. call \in Readers
  BY <1>2 DEF ReadingAt
<1>9. /\ call' \in Readers
      /\ call'.start = call.start /\ call'.token = call.token /\ call'.atEnd = call.atEnd
      /\ call'.short = call.short
      /\ call'.entries = Listing!Entries(a, e + 1) /\ call'.buf = Listing!Entries(a + (e + 1), b - 1)
  BY Zenon, <1>1, <1>5, <1>6, <1>7, <1>8 DEF Readers
<1>10. ListingInput' /\ ListingAnswer'
  BY <1>1 DEF ListingInv, ListingInput, ListingAnswer
<1>11. WithinPage(a, e + 1, b - 1)'
  <2>1. call'.short = call.short /\ input'.n = input.n /\ input'.limit = input.limit
    BY <1>1, <1>9
  <2> QED
    BY Zenon, <1>2, <1>4, <2>1 DEF WithinPage
<1>12. ReadingAt(a, e + 1, b - 1)'
  BY Zenon, <1>1, <1>2, <1>4, <1>9, <1>11 DEF ReadingAt
<1>13. answer'.outcome \in {"ask", "error"}
  BY <1>1 DEF ListingInv, ListingRun, Listing!NoCall
<1>14. ListingRun'
  BY <1>4, <1>10, <1>12, <1>13, ListingCallKept
<1> QED
  BY <1>10, <1>14 DEF ListingInv

LEMMA RisingConcat ==
  ASSUME NEW got \in Seq(Nat), NEW a \in Nat, NEW e \in Nat, NEW m \in Nat, a + e <= m, Rising(got, a)
  PROVE  Rising(got \o Listing!Entries(a, e), m)
<1> DEFINE s == Listing!Entries(a, e)
           r == got \o s
           g == Len(got)
<1>1. s \in Seq(Nat) /\ Len(s) = e /\ \A i \in 1..e : s[i] = a + i
  BY EntriesType
<1> HIDE DEF s
<1>2. g \in Nat
  BY LenProperties
<1>3. Len(r) = g + e /\ \A i \in 1..(g + e) : r[i] = IF i <= g THEN got[i] ELSE s[i - g]
  BY <1>1, ConcatProperties
<1>4. (\A k \in 1..g : got[k] \in 1..a) /\ (\A j, k \in 1..g : j < k => got[j] < got[k])
  BY DEF Rising
<1> HIDE DEF r, g
<1>5. ASSUME NEW i \in 1..(g + e), i <= g PROVE r[i] = got[i] /\ i \in 1..g /\ got[i] \in 1..a
  BY <1>2, <1>3, <1>4, <1>5
<1>6. ASSUME NEW i \in 1..(g + e), ~ (i <= g) PROVE r[i] = a + (i - g) /\ i - g \in 1..e
  BY <1>1, <1>2, <1>3, <1>6
<1>7. \A i \in 1..(g + e) : r[i] \in 1..m
  BY <1>2, <1>5, <1>6
<1>8. ASSUME NEW j \in 1..(g + e), NEW k \in 1..(g + e), j < k PROVE r[j] < r[k]
  <2>1. CASE k <= g
    BY <1>2, <1>4, <1>5, <1>8, <2>1
  <2>2. CASE ~ (k <= g) /\ j <= g
    BY <1>2, <1>5, <1>6, <1>8, <2>2
  <2>3. CASE ~ (k <= g) /\ ~ (j <= g)
    BY <1>2, <1>6, <1>8, <2>3
  <2> QED
    BY <2>1, <2>2, <2>3
<1>9. Rising(r, m)
  BY <1>3, <1>7, <1>8 DEF Rising
<1> QED
  BY <1>9 DEF r, s

(* A call that returns hands over what it has taken.  The token goes on    *)
(* after entry m: right after what was taken, unless a short page filled   *)
(* the buffer past the limit.                                              *)
LEMMA ListingReturnStep ==
  ASSUME ListingInv, NEW a \in Nat, NEW e \in Nat, NEW b \in Nat, ReadingAt(a, e, b), NEW m \in Nat,
         NEW token \in ListingTokens, NEW outcome \in {"ask", "done", "stopped"},
         Listing!Return(token, outcome),
         a + e <= m, m <= input.n,
         outcome = "ask" => token.after = m,
         outcome = "done" => m = input.n,
         ~ call.short \/ e < input.limit => m = a + e
  PROVE  ListingInv'
<1>1. /\ answer' = [got |-> answer.got \o call.entries, token |-> token,
                    outcome |-> outcome, page |-> call.entries,
                    from |-> call.start.after, short |-> call.short]
      /\ call' = Listing!NoCall /\ input' = input
  BY DEF Listing!Return
<1>2. /\ call.entries = Listing!Entries(a, e) /\ call.start = answer.token
      /\ call.start.after = a /\ call.pc = "read" /\ call.short \in BOOLEAN
      /\ WithinPage(a, e, b) /\ (~ call.short => ~ answer.short)
  BY DEF ReadingAt, Readers
<1>3. answer.outcome \in {"ask", "error"}
  BY <1>2 DEF ListingInv, ListingRun, Listing!NoCall
<1>4. answer.got \in Seq(Nat) /\ Rising(answer.got, a)
  BY <1>2, <1>3 DEF ListingInv, ListingAnswer, Answers
<1>5. a + e \in Nat /\ 0 + a = a /\ 0 \in Nat
  OBVIOUS
<1>6. Listing!Entries(a, e) \in Seq(Nat) /\ Len(Listing!Entries(a, e)) = e
  BY EntriesType
<1>7. Listing!Entries(0, a + e) \in Seq(Nat) /\ Len(Listing!Entries(0, a + e)) = a + e
  BY <1>5, EntriesType
<1>8. input.n \in Nat /\ input.limit \in Nat /\ e <= input.limit
  BY <1>2 DEF ListingInv, ListingInput, WithinPage
<1>9. PICK got : got = answer.got \o Listing!Entries(a, e)
  OBVIOUS
<1>10. got \in Seq(Nat) /\ Rising(got, m)
  BY <1>4, <1>6, <1>9, ConcatProperties, RisingConcat
<1>11. /\ answer'.got = got /\ answer'.token = token /\ answer'.outcome = outcome
       /\ answer'.page = Listing!Entries(a, e) /\ answer'.from = a /\ answer'.short = call.short
       /\ answer' \in Answers
  BY <1>1, <1>2, <1>6, <1>9, <1>10 DEF Answers
<1>12. ASSUME ~ call.short
       PROVE  got = Listing!Entries(0, a + e) /\ Len(got) = a + e /\ m = a + e
  <2>1. answer.got = Listing!Entries(0, a)
    BY <1>2, <1>3, <1>12 DEF ListingInv, ListingAnswer
  <2>2. Listing!Entries(0, a) \o Listing!Entries(0 + a, e) = Listing!Entries(0, a + e)
    BY <1>5, EntriesConcat
  <2> QED
    BY <1>5, <1>7, <1>9, <1>12, <2>1, <2>2
<1>13. m \in 0..input'.n /\ Rising(answer'.got, m)
       /\ (answer'.outcome \in {"ask", "error"} => answer'.token.after = m)
  <2>1. m \in 0..input.n /\ (outcome \in {"ask", "error"} => token.after = m)
    BY <1>8
  <2> QED
    BY Zenon, <1>1, <1>10, <1>11, <2>1
<1>14. ~ answer'.short =>
         /\ answer'.got = Listing!Entries(0, Len(answer'.got))
         /\ answer'.outcome \in {"ask", "error"} => answer'.token.after = Len(answer'.got)
         /\ answer'.outcome = "done" => Len(answer'.got) = input'.n
  <2>1. ASSUME ~ call.short
        PROVE  /\ got = Listing!Entries(0, Len(got))
               /\ outcome \in {"ask", "error"} => token.after = Len(got)
               /\ outcome = "done" => Len(got) = input.n
    BY <1>12, <2>1
  <2> QED
    BY <1>1, <1>11, <2>1
<1>15. Len(answer'.page) = e /\ e <= input'.limit /\ answer'.page = Listing!Entries(answer'.from, e)
  BY <1>1, <1>6, <1>8, <1>11
<1>16. e < input'.limit =>
         /\ answer'.outcome \in {"ask", "error"} => answer'.token.after = answer'.from + e
         /\ answer'.outcome = "done" => input'.n = answer'.from + e
  BY <1>1, <1>11
<1>17. ListingAnswer'
  BY Zenon, <1>11, <1>13, <1>14, <1>15, <1>16 DEF ListingAnswer
<1>18. ListingInput'
  BY <1>1 DEF ListingInv, ListingInput
<1> QED
  BY <1>1, <1>17, <1>18 DEF ListingInv

LEMMA ListingFinishStep == ASSUME ListingInv, Listing!Finish PROVE ListingInv'
<1>1. /\ call.pc = "read"
      /\ Len(call.entries) >= input.limit \/ (call.buf = <<>> /\ call.atEnd)
      /\ Listing!Return(call.token, IF call.token = Listing!NoToken THEN "done" ELSE "ask")
  BY DEF Listing!Finish
<1>2. PICK a, e, b \in Nat :
           /\ ReadingAt(a, e, b) /\ WithinPage(a, e, b)
           /\ Len(call.entries) = e
           /\ call.buf = <<>> <=> b = 0
           /\ call.entries = <<>> <=> e = 0
  BY <1>1, ListingRunning
<1>3. input.limit \in Nat /\ input.limit # 0 /\ input.n \in Nat
  BY DEF ListingInv, ListingInput
<1>4. a + e <= a + e + b /\ a + e + b <= input.n /\ a + e + b \in Nat
  BY <1>2, <1>3 DEF WithinPage
<1>5. ~ call.short \/ e < input.limit => a + e + b = a + e
  <2>1. CASE e < input.limit
    BY <1>1, <1>2, <1>3, <2>1
  <2>2. CASE ~ (e < input.limit) /\ ~ call.short
    BY <1>2, <1>3, <2>2 DEF WithinPage
  <2> QED
    BY <2>1, <2>2
<1>6. call.token \in ListingTokens
  BY <1>2 DEF ReadingAt, Readers
<1>7. CASE call.token = Listing!NoToken
  <2>1. call.atEnd \/ e + b = 0
    BY <1>2, <1>7 DEF ReadingAt
  <2>2. call.atEnd
    BY <1>1, <1>2, <1>3, <2>1
  <2>3. a + e + b = input.n
    BY <1>2, <2>2 DEF ReadingAt
  <2>4. Listing!Return(call.token, "done")
    BY <1>1, <1>7
  <2> QED
    BY <1>2, <1>4, <1>5, <1>6, <2>3, <2>4, ListingReturnStep
<1>8. CASE call.token # Listing!NoToken
  <2>1. call.token.after = a + e + b
    BY <1>2, <1>8 DEF ReadingAt
  <2>2. Listing!Return(call.token, "ask")
    BY <1>1, <1>8
  <2> QED
    BY <1>2, <1>4, <1>5, <1>6, <2>1, <2>2, ListingReturnStep
<1> QED
  BY <1>7, <1>8

LEMMA ListingScanIncompleteStep == ASSUME ListingInv, Listing!ScanIncomplete PROVE ListingInv'
<1>1. /\ call.pc = "read" /\ call.buf = <<>> /\ ~ call.atEnd
      /\ Listing!Return(call.token, "ask")
  BY DEF Listing!ScanIncomplete, Listing!Failing, Listing!Reading
<1>2. PICK a, e, b \in Nat :
           /\ ReadingAt(a, e, b) /\ WithinPage(a, e, b)
           /\ Len(call.entries) = e
           /\ call.buf = <<>> <=> b = 0
           /\ call.entries = <<>> <=> e = 0
  BY <1>1, ListingRunning
<1>3. b = 0 /\ a + e + b = a + e /\ a + e \in Nat
  BY <1>1, <1>2
<1>4. a + e <= a + e /\ a + e <= input.n
  BY <1>2, <1>3 DEF WithinPage, ListingInv, ListingInput
<1>5. call.token.after = a + e /\ call.token \in ListingTokens
  BY <1>1, <1>2, <1>3 DEF ReadingAt, Readers
<1> QED
  BY <1>1, <1>2, <1>3, <1>4, <1>5, ListingReturnStep

LEMMA ListingStoppedOnErrorStep == ASSUME ListingInv, Listing!StoppedOnError PROVE ListingInv'
<1>1. call.pc = "read" /\ Listing!Return(Listing!NoToken, "stopped")
  BY DEF Listing!StoppedOnError, Listing!Failing, Listing!Reading
<1>2. PICK a, e, b \in Nat :
           /\ ReadingAt(a, e, b) /\ WithinPage(a, e, b)
           /\ Len(call.entries) = e
           /\ call.buf = <<>> <=> b = 0
           /\ call.entries = <<>> <=> e = 0
  BY <1>1, ListingRunning
<1>3. Listing!NoToken \in ListingTokens
  BY DEF Listing!NoToken, ListingTokens
<1>4. a + e \in Nat /\ a + e <= a + e /\ a + e <= input.n
  BY <1>2 DEF WithinPage, ListingInv, ListingInput
<1> QED
  BY <1>1, <1>2, <1>3, <1>4, ListingReturnStep

LEMMA ListingNoEventsStep == ASSUME ListingInv, Listing!NoEvents PROVE ListingInv'
<1>1. /\ call.pc = "read" /\ call.entries = <<>> /\ call.buf = <<>> /\ call.atEnd
      /\ answer' = [answer EXCEPT !.outcome = "done", !.page = <<>>, !.from = call.start.after]
      /\ call' = Listing!NoCall /\ input' = input
  BY DEF Listing!NoEvents
<1>2. PICK a, e, b \in Nat :
           /\ ReadingAt(a, e, b) /\ WithinPage(a, e, b)
           /\ Len(call.entries) = e
           /\ call.buf = <<>> <=> b = 0
           /\ call.entries = <<>> <=> e = 0
  BY <1>1, ListingRunning
<1>3. e = 0 /\ b = 0 /\ a + e + b = a
  BY <1>1, <1>2
<1>4. a = input.n /\ call.start.after = a /\ answer.token.after = a
  BY <1>1, <1>2, <1>3 DEF ReadingAt
<1>5. ListingAnswer /\ ListingInput /\ answer \in Answers /\ answer.outcome \in {"ask", "error"}
  BY <1>1 DEF ListingInv, ListingAnswer, ListingRun, Listing!NoCall
<1>6. /\ answer' \in Answers
      /\ answer'.got = answer.got /\ answer'.outcome = "done" /\ answer'.page = <<>>
      /\ answer'.from = a /\ answer'.short = answer.short
  <2>1. PICK from : from = call.start.after
    OBVIOUS
  <2>2. from \in Nat /\ <<>> \in Seq(Nat) /\ from = a
    BY <1>4, <2>1, EmptySeq
  <2>3. answer' = [answer EXCEPT !.outcome = "done", !.page = <<>>, !.from = from]
    BY Zenon, <1>1, <2>1
  <2> QED
    BY <1>5, <2>2, <2>3 DEF Answers
<1>7. /\ Len(<<>>) = 0 /\ 0 <= input.limit /\ input.n = a + 0 /\ input.n \in Nat
      /\ Listing!Entries(a, 0) = <<>>
  BY <1>4, <1>5, EmptySeq, EntriesType DEF ListingInput
<1>8. ~ answer.short => answer.got = Listing!Entries(0, Len(answer.got)) /\ Len(answer.got) = input.n
  BY <1>4, <1>5 DEF ListingAnswer
<1>9. \E m \in 0..input.n : Rising(answer.got, m)
  BY <1>5 DEF ListingAnswer
<1>10. ListingAnswer'
  BY <1>1, <1>6, <1>7, <1>8, <1>9 DEF ListingAnswer
<1> QED
  BY <1>1, <1>5, <1>10 DEF ListingInv, ListingInput

LEMMA ListingFailStep == ASSUME ListingInv, Listing!FetchFailed PROVE ListingInv'
<1>1. /\ call.pc = "read" /\ answer' = [answer EXCEPT !.outcome = "error"]
      /\ call' = Listing!NoCall /\ input' = input
  BY DEF Listing!FetchFailed, Listing!Failing, Listing!Reading, Listing!Fail
<1>2. ListingAnswer /\ ListingInput /\ answer.outcome \in {"ask", "error"} /\ answer \in Answers
  BY <1>1 DEF ListingInv, ListingAnswer, ListingRun, Listing!NoCall
<1>3. /\ answer' \in Answers
      /\ answer'.got = answer.got /\ answer'.outcome = "error" /\ answer'.page = answer.page
      /\ answer'.token = answer.token /\ answer'.from = answer.from /\ answer'.short = answer.short
  BY <1>1, <1>2 DEF Answers
<1>4. ListingAnswer'
  BY <1>1, <1>2, <1>3 DEF ListingAnswer
<1> QED
  BY <1>1, <1>2, <1>4 DEF ListingInv, ListingInput

LEMMA ListingFresh ==
  ASSUME ListingInput
  PROVE  /\ Listing!Fresh \in Answers
         /\ Listing!Fresh.got = <<>> /\ Listing!Fresh.outcome = "ask" /\ Listing!Fresh.token.after = 0
         /\ Listing!Fresh.page = <<>> /\ Listing!Fresh.from = 0
         /\ Len(<<>>) = 0 /\ Listing!Entries(0, 0) = <<>> /\ Rising(<<>>, 0)
         /\ 0 \in 0..input.n /\ 0 <= input.limit /\ 0 = 0 + 0
<1>1. Listing!NoToken \in ListingTokens /\ Listing!NoToken.after = 0
  BY DEF Listing!NoToken, ListingTokens
<1>2. Listing!Entries(0, 0) = <<>>
  BY EntriesType
<1>3. Len(<<>>) = 0 /\ 1..0 = {} /\ <<>> \in Seq(Nat)
  BY EmptySeq
<1>4. Rising(<<>>, 0)
  BY Zenon, <1>3 DEF Rising
<1> QED
  BY <1>1, <1>2, <1>3, <1>4 DEF Listing!Fresh, ListingInput, Answers

LEMMA ListingAgainStep == ASSUME ListingInv, Listing!Again PROVE ListingInv'
<1>1. call = Listing!NoCall /\ call' = call /\ answer' = Listing!Fresh /\ input' = input
  BY DEF Listing!Again
<1>2. ListingInput
  BY DEF ListingInv
<1>3. ListingAnswer'
  BY <1>1, <1>2, ListingFresh DEF ListingAnswer
<1> QED
  BY <1>1, <1>2, <1>3 DEF ListingInv, ListingInput


LEMMA ListingStep ==
  ASSUME ListingInv, [Listing!Next]_(Listing!vars)
  PROVE  ListingInv'
<1>1. CASE Listing!Next
  BY <1>1, ListingBeginStep, ListingFetchStep, ListingTakeStep, ListingFinishStep, ListingNoEventsStep,
     ListingScanIncompleteStep, ListingStoppedOnErrorStep, ListingFailStep, ListingAgainStep DEF Listing!Next
<1>2. CASE UNCHANGED Listing!vars
  BY <1>2 DEF Listing!vars, ListingInv, ListingInput, ListingAnswer, ListingRun, ReadingAt, WithinPage
<1> QED
  BY <1>1, <1>2

LEMMA ListingInit ==
  ASSUME Listing!ListingConstants, Listing!Init
  PROVE  ListingInv
<1>1. ListingInput /\ call = Listing!NoCall /\ answer = Listing!Fresh
  BY DEF Listing!Init, ListingInput, Listing!ListingConstants
<1>2. ListingAnswer
  BY <1>1, ListingFresh DEF ListingAnswer
<1> QED
  BY <1>1, <1>2 DEF ListingInv

LEMMA ListingIsSound ==
  ASSUME ListingInv
  PROVE  Listing!ListingSound
<1>1. answer \in Answers /\ input.n \in Nat /\ input.limit \in Nat
  BY DEF ListingInv, ListingAnswer, ListingInput
<1>2. DOMAIN answer.got = 1..Len(answer.got)
  BY <1>1, LenProperties DEF Answers
<1>3. Listing!NoEntryRepeated
  <2>1. PICK m \in 0..input.n : Rising(answer.got, m)
    BY DEF ListingInv, ListingAnswer
  <2>2. \A i \in 1..m : i \in 1..input.n
    BY <1>1, <2>1
  <2> QED
    BY <1>2, <2>1, <2>2 DEF Rising, Listing!NoEntryRepeated
<1>4. Listing!PageConsecutive
  BY <1>1 DEF ListingInv, ListingAnswer, Answers, Listing!PageConsecutive, Listing!Reached
<1>5. Listing!WholeIfFull
  BY DEF ListingInv, ListingAnswer, Listing!WholeIfFull
<1> QED
  BY <1>3, <1>4, <1>5 DEF Listing!ListingSound

-----------------------------------------------------------------------------
(* profiler_trends.  The profiles of an input, and the points a timeline   *)
(* may have of them.                                                       *)
TrendIds(t) == {t.api[m].id : m \in DOMAIN t.api}
TrendProfile(t, id) == t.api[CHOOSE m \in DOMAIN t.api : t.api[m].id = id]
TrendFunctions(t) == UNION {DOMAIN t.api[m].costs : m \in DOMAIN t.api}
TrendPoints(t) ==
  UNION {[id : {id}, costs : {Trends!Restrict(TrendProfile(t, id).costs, D) : D \in SUBSET DOMAIN TrendProfile(t, id).costs}] :
           id \in TrendIds(t)}
TrendNames == {"pc", "profiles", "at", "remaining", "cached", "skipped", "stopped",
               "i", "failed", "targets", "timeline", "fetched"}
TrendTyped(t, c) ==
  /\ DOMAIN c = TrendNames /\ c.pc \in {"prefetch", "load"}
  /\ c.profiles \in Seq(TrendIds(t)) /\ c.at \in Nat \ {0} /\ c.cached \subseteq TrendIds(t)
  /\ c.i \in Nat /\ c.failed \in Nat /\ c.targets \subseteq TrendFunctions(t)
  /\ c.timeline \in Seq(TrendPoints(t)) /\ c.fetched \subseteq TrendIds(t)

(* The profiles are in the order of time, each once; what has been made of *)
(* those before the current one; and where the prefetched ones are.        *)
TrendSec(t, id) == TrendProfile(t, id).time.sec
TrendOrdered(t, c) ==
  \A j, k \in DOMAIN c.profiles :
    j < k => c.profiles[j] # c.profiles[k] /\ TrendSec(t, c.profiles[j]) <= TrendSec(t, c.profiles[k])
TrendAccounted(t, c, k) ==
  \/ \E j \in DOMAIN c.timeline : c.timeline[j].id = c.profiles[k]
  \/ TrendProfile(t, c.profiles[k]).bytes # "ok"
  \/ c.profiles[k] \in c.fetched
TrendFound(t, c) ==
  /\ c.i \in 1..(Len(c.profiles) + 1) /\ Len(c.timeline) + c.failed = c.i - 1
  /\ \A j \in DOMAIN c.timeline : \E k \in 1..(c.i - 1) : c.timeline[j].id = c.profiles[k]
  /\ \A k \in 1..(c.i - 1) : TrendAccounted(t, c, k)
  /\ \A j, m \in DOMAIN c.timeline : j < m => TrendSec(t, c.timeline[j].id) <= TrendSec(t, c.timeline[m].id)
TrendTracked(t, c) ==
  /\ \A j \in DOMAIN c.timeline : DOMAIN c.timeline[j].costs \subseteq (IF t.filter = {} THEN c.targets ELSE t.filter)
  /\ \A j, m \in DOMAIN c.timeline :
       j <= m => DOMAIN c.timeline[j].costs \intersect DOMAIN TrendProfile(t, c.timeline[m].id).costs
                 \subseteq DOMAIN c.timeline[m].costs
Entries(s) == {s[k] : k \in DOMAIN s}
TrendCached(c, entries, gone) ==
  /\ c.cached \subseteq Entries(c.profiles)
  /\ c.cached \subseteq Entries(entries) \union gone \union {c.profiles[k] : k \in 1..(c.i - 1)}
  /\ c.fetched \intersect c.cached \subseteq gone
TrendRun(t, c, entries, gone) ==
  /\ TrendTyped(t, c) /\ (c.pc = "prefetch" => c.fetched = {})
  /\ TrendOrdered(t, c) /\ TrendFound(t, c) /\ TrendTracked(t, c) /\ TrendCached(c, entries, gone)
TrendInv ==
  /\ input \in TrendInputs /\ cache \in Seq(TrendIds(input) \union {Foreign})
  /\ \/ call = [pc |-> "list"] /\ answer = Trends!NoAnswer
     \/ call.pc = "done" /\ Trends!TrendsComplete
     \/ TrendRun(input, call, cache, lost) /\ answer = Trends!NoAnswer

-----------------------------------------------------------------------------
(* What the operations of the cache keep.                                  *)
LEMMA TrendsCardinality == \A S : Trends!Cardinality(S) = Cardinality(S)
  BY DEF Trends!Cardinality, Cardinality

LEMMA TrendSame ==
  /\ \A id : Trends!ById(id) = TrendProfile(input, id)
  /\ \A s : Trends!Range(s) = Entries(s)
  BY DEF Trends!ById, Trends!Api, TrendProfile, Trends!Range, Entries

LEMMA TrendNamed ==
  ASSUME Trends!TrendConstants, NEW t \in TrendInputs, NEW m \in DOMAIN t.api
  PROVE  TrendProfile(t, t.api[m].id) = t.api[m]
<1>1. \A j \in DOMAIN t.api : t.api[j].id = t.api[m].id => j = m BY DEF Trends!TrendConstants
<1>2. (CHOOSE j \in DOMAIN t.api : t.api[j].id = t.api[m].id) = m BY <1>1
<1> QED BY Zenon, <1>2 DEF TrendProfile

Removed(s, k) == SubSeq(s, 1, k - 1) \o SubSeq(s, k + 1, Len(s))
LEMMA RemoveKeeps ==
  ASSUME NEW S, NEW s \in Seq(S), NEW k \in 1..Len(s)
  PROVE  /\ Removed(s, k) \in Seq(S)
         /\ Entries(s) \ {s[k]} \subseteq Entries(Removed(s, k))
<1> DEFINE n == Len(s)  a == SubSeq(s, 1, k - 1)  b == SubSeq(s, k + 1, n)  r == a \o b
<1>1. Removed(s, k) = r BY DEF Removed
<1>2. n \in Nat /\ DOMAIN s = 1..n /\ k \in Int /\ 1 <= k /\ k <= n OBVIOUS
<1>3. a \in Seq(S) /\ Len(a) = k - 1 /\ \A j \in 1..(k - 1) : a[j] = s[j]
  BY <1>2, SubSeqProperties
<1>4. b \in Seq(S) /\ Len(b) = n - k /\ \A j \in 1..(n - k) : b[j] = s[k + j]
  <2> DEFINE p == k + 1
  <2>0. n \in Int /\ k \in Int /\ k <= n BY <1>2
  <2>1. /\ p \in Int /\ (p <= n => n - p + 1 = n - k) /\ (~ (p <= n) => n - k = 0)
        /\ \A j \in 1..(n - k) : p <= n /\ p + j - 1 = k + j
    <3> HIDE DEF n
    <3> QED BY <2>0
  <2>2. \A j \in p..n : s[j] \in S BY <1>2
  <2>3. b = SubSeq(s, p, n) OBVIOUS
  <2> HIDE DEF b, p, n
  <2>4. /\ b \in Seq(S) /\ Len(b) = IF p <= n THEN n - p + 1 ELSE 0
        /\ \A j \in 1..(n - p + 1) : b[j] = s[p + j - 1]
    BY <1>2, <2>1, <2>2, <2>3, SubSeqProperties
  <2> QED BY <1>2, <2>1, <2>4
<1> HIDE DEF a, b
<1>5. /\ r \in Seq(S) /\ DOMAIN r = 1..(n - 1)
      /\ \A j \in 1..(n - 1) : r[j] = IF j <= k - 1 THEN a[j] ELSE b[j - (k - 1)]
  <2>1. Len(a) + Len(b) = n - 1 BY <1>2, <1>3, <1>4
  <2>2. /\ r \in Seq(S) /\ Len(r) = Len(a) + Len(b)
        /\ \A j \in 1..(Len(a) + Len(b)) : r[j] = IF j <= Len(a) THEN a[j] ELSE b[j - Len(a)]
    BY Zenon, <1>3, <1>4, ConcatProperties
  <2> HIDE DEF r, n
  <2> QED BY <1>3, <2>1, <2>2
<1> HIDE DEF r, n
<1>6. ASSUME NEW j \in 1..n, j # k PROVE \E m \in DOMAIN r : r[m] = s[j]
  <2>1. CASE j < k
    <3>1. j \in 1..(n - 1) /\ j \in 1..(k - 1) BY <1>2, <2>1
    <3>2. r[j] = s[j] BY <1>3, <1>5, <3>1
    <3> QED BY <1>5, <3>1, <3>2
  <2>2. CASE j > k
    <3>1. j - 1 \in 1..(n - 1) /\ j - k \in 1..(n - k) /\ (j - 1) - (k - 1) = j - k /\ k + (j - k) = j
          /\ ~ (j - 1 <= k - 1)
      BY <1>2, <2>2
    <3>2. r[j - 1] = s[j] BY <1>4, <1>5, <3>1
    <3> QED BY <1>5, <3>1, <3>2
  <2> QED BY <1>2, <1>6, <2>1, <2>2
<1>7. Entries(s) \ {s[k]} \subseteq Entries(r) BY <1>2, <1>6 DEF Entries
<1> QED BY <1>1, <1>5, <1>7

LEMMA AppendKeeps ==
  ASSUME NEW S, NEW s \in Seq(S), NEW e \in S
  PROVE  Append(s, e) \in Seq(S) /\ Entries(Append(s, e)) = Entries(s) \union {e}
<1> DEFINE n == Len(s)  r == Append(s, e)
<1>1. /\ r \in Seq(S) /\ n \in Nat /\ DOMAIN s = 1..n /\ DOMAIN r = 1..(n + 1)
      /\ r[n + 1] = e /\ \A j \in 1..n : r[j] = s[j]
  BY AppendProperties
<1> HIDE DEF n, r
<1>2. \A j \in 1..(n + 1) : j = n + 1 \/ j \in 1..n BY <1>1
<1>3. \A j \in 1..n : j \in 1..(n + 1) BY <1>1
<1>4. n + 1 \in 1..(n + 1) BY <1>1
<1> QED BY <1>1, <1>2, <1>3, <1>4 DEF Entries, r

LEMMA TrendDropped ==
  ASSUME NEW S, cache \in Seq(S), NEW id, Trends!Cached(id)
  PROVE  Trends!Without(id) \in Seq(S) /\ Entries(cache) \ {id} \subseteq Entries(Trends!Without(id))
<1> DEFINE k == CHOOSE k \in DOMAIN cache : cache[k] = id
<1>1. k \in DOMAIN cache /\ cache[k] = id BY DEF Trends!Cached
<1> HIDE DEF k
<1>2. k \in 1..Len(cache) BY <1>1
<1>3. Trends!Without(id) = Removed(cache, k) BY DEF Trends!Without, Removed, k
<1> QED BY <1>1, <1>2, <1>3, RemoveKeeps

LEMMA TrendTouched ==
  ASSUME NEW S, cache \in Seq(S), NEW id \in S, Trends!Cached(id)
  PROVE  Trends!Touched(id) \in Seq(S) /\ Entries(cache) \subseteq Entries(Trends!Touched(id))
<1> DEFINE w == Trends!Without(id)
<1>1. w \in Seq(S) /\ Entries(cache) \ {id} \subseteq Entries(w) BY TrendDropped
<1> HIDE DEF w
<1>2. Append(w, id) \in Seq(S) /\ Entries(Append(w, id)) = Entries(w) \union {id} BY <1>1, AppendKeeps
<1> QED BY <1>1, <1>2 DEF Trends!Touched, w

(* An entry put in a full cache pushes the oldest one out.                 *)
LEMMA TrendInserted ==
  ASSUME NEW S, cache \in Seq(S), NEW id \in S, CacheSize \in Nat \ {0}
  PROVE  /\ Trends!Inserted(id) \in Seq(S) /\ id \in Entries(Trends!Inserted(id))
         /\ \A e \in Entries(cache) :
              e \in Entries(Trends!Inserted(id)) \/ (Len(cache) >= CacheSize /\ e = Head(cache))
<1>1. CASE Len(cache) >= CacheSize
  <2> DEFINE tail == Tail(cache)  n == Len(cache)
  <2>1. n \in Nat /\ n >= 1 /\ DOMAIN cache = 1..n /\ cache # <<>> BY <1>1
  <2>2. /\ tail \in Seq(S) /\ Len(tail) = n - 1 /\ DOMAIN tail = 1..(n - 1)
        /\ \A j \in 1..(n - 1) : tail[j] = cache[j + 1]
        /\ Head(cache) = cache[1]
    BY <2>1, HeadTailProperties
  <2> HIDE DEF tail
  <2>3. \A e \in Entries(cache) : e \in Entries(tail) \/ e = Head(cache)
    <3> SUFFICES ASSUME NEW j \in 1..n PROVE cache[j] \in Entries(tail) \/ cache[j] = Head(cache)
      BY <2>1 DEF Entries
    <3>1. CASE j = 1 BY <2>2, <3>1
    <3>2. CASE j # 1
      <4>1. j - 1 \in 1..(n - 1) /\ (j - 1) + 1 = j BY <2>1, <3>2
      <4> QED BY <2>2, <4>1 DEF Entries
    <3> QED BY <3>1, <3>2
  <2>4. Append(tail, id) \in Seq(S) /\ Entries(Append(tail, id)) = Entries(tail) \union {id}
    BY <2>2, AppendKeeps
  <2>5. Trends!Inserted(id) = Append(tail, id) BY <1>1 DEF Trends!Inserted, tail
  <2> QED BY <1>1, <2>3, <2>4, <2>5
<1>2. CASE ~ (Len(cache) >= CacheSize)
  BY <1>2, AppendKeeps DEF Trends!Inserted
<1> QED BY <1>1, <1>2


-----------------------------------------------------------------------------
(* The steps of profiler_trends.  A call that is running has not answered; *)
(* a step of the scan leaves what has been found.                          *)
LEMMA TrendRunning ==
  ASSUME TrendInv, call.pc \in {"prefetch", "load"}
  PROVE  /\ TrendRun(input, call, cache, lost) /\ answer = Trends!NoAnswer /\ TrendTyped(input, call)
         /\ input \in TrendInputs /\ cache \in Seq(TrendIds(input) \union {Foreign})
<1>1. ~ (call.pc = "done" /\ Trends!TrendsComplete) OBVIOUS
<1>2. call # [pc |-> "list"] OBVIOUS
<1> QED BY <1>1, <1>2 DEF TrendInv, TrendRun

LEMMA TrendRunKept ==
  ASSUME NEW t, NEW c, NEW d, NEW e, NEW f, NEW g, NEW h, TrendRun(t, c, e, g), TrendTyped(t, d),
         d.profiles = c.profiles, d.i = c.i, d.failed = c.failed, d.timeline = c.timeline,
         d.targets = c.targets, d.fetched = c.fetched, d.pc = "prefetch" => c.pc = "prefetch",
         TrendCached(d, f, h)
  PROVE  TrendRun(t, d, f, h)
  BY DEF TrendRun, TrendOrdered, TrendFound, TrendAccounted, TrendTracked

LEMMA TrendList ==
  ASSUME Trends!TrendConstants, TrendInv, Trends!List PROVE TrendInv'
<1> DEFINE t == input  listed == Trends!Listed  n == Cardinality(listed)
<1>1. /\ t \in TrendInputs /\ cache \in Seq(TrendIds(t) \union {Foreign}) /\ answer = Trends!NoAnswer
      /\ UNCHANGED <<input, answer, cache, live, lost>>
  BY DEF TrendInv, TrendRun, TrendTyped, Trends!List
<1>2. PICK order \in Trends!Chronological :
        call' = [pc |-> "prefetch", profiles |-> [i \in DOMAIN order |-> t.api[order[i]].id],
                 at |-> 1, remaining |-> Cardinality(listed),
                 cached |-> {}, skipped |-> 0, stopped |-> "none",
                 i |-> 1, failed |-> 0, targets |-> {}, timeline |-> <<>>, fetched |-> {}]
  BY Zenon, TrendsCardinality DEF Trends!List, Trends!Api
<1>3. listed \subseteq DOMAIN t.api BY DEF Trends!Listed, Trends!Api
<1>4. n \in Nat
  <2>1. IsFiniteSet(DOMAIN t.api) BY <1>1 DEF Trends!TrendConstants, Trends!IsFiniteSet, IsFiniteSet
  <2> HIDE DEF listed
  <2>2. IsFiniteSet(listed) BY <1>3, <2>1, FS_Subset
  <2> QED BY <2>2, FS_CardinalityType
<1>5. /\ order \in [1..n -> listed]
      /\ \A j, k \in 1..n : j < k =>
           order[j] # order[k] /\ ~ Trends!Earlier(t.api[order[k]].time, t.api[order[j]].time)
  BY TrendsCardinality DEF Trends!Chronological, Trends!Api
<1> DEFINE names == [i \in DOMAIN order |-> t.api[order[i]].id]
<1> HIDE DEF listed, n, t
<1>6. names \in Seq(TrendIds(t)) /\ DOMAIN names = 1..n /\ Len(names) = n
      /\ \A k \in 1..n : names[k] = t.api[order[k]].id /\ order[k] \in DOMAIN t.api
  BY <1>3, <1>4, <1>5 DEF TrendIds
<1> HIDE DEF names
<1>7. PICK c : c = [pc |-> "prefetch", profiles |-> names, at |-> 1, remaining |-> n,
                    cached |-> {}, skipped |-> 0, stopped |-> "none",
                    i |-> 1, failed |-> 0, targets |-> {}, timeline |-> <<>>, fetched |-> {}]
  BY Zenon
<1>8. call' = c BY <1>2, <1>7 DEF names, n
<1>9. TrendTyped(t, c)
  BY <1>4, <1>6, <1>7 DEF TrendTyped, TrendNames
<1>10. TrendOrdered(t, c)
  <2> SUFFICES ASSUME NEW j \in 1..n, NEW k \in 1..n, j < k
               PROVE  names[j] # names[k] /\ TrendSec(t, names[j]) <= TrendSec(t, names[k])
    BY <1>6, <1>7 DEF TrendOrdered
  <2> DEFINE a == t.api[order[j]]  b == t.api[order[k]]
  <2>1. order[j] \in DOMAIN t.api /\ order[k] \in DOMAIN t.api /\ names[j] = a.id /\ names[k] = b.id BY <1>6
  <2>2. t \in TrendInputs BY <1>1 DEF t
  <2>3. TrendProfile(t, a.id) = a /\ TrendProfile(t, b.id) = b BY <2>1, <2>2, TrendNamed
  <2>4. a.time.sec \in Nat /\ b.time.sec \in Nat /\ a.id # b.id
    BY <1>5, <2>1, <2>2 DEF Trends!TrendConstants
  <2>5. ~ Trends!Earlier(b.time, a.time) BY <1>5
  <2> HIDE DEF a, b
  <2>6. a.time.sec <= b.time.sec BY <2>4, <2>5 DEF Trends!Earlier
  <2> QED BY <2>1, <2>3, <2>4, <2>6 DEF TrendSec
<1>11. TrendFound(t, c) /\ TrendTracked(t, c) /\ TrendCached(c, cache, lost)
  BY <1>4, <1>6, <1>7 DEF TrendFound, TrendTracked, TrendCached
<1>12. TrendRun(t, c, cache, lost) BY <1>7, <1>9, <1>10, <1>11 DEF TrendRun
<1> QED BY <1>1, <1>8, <1>12 DEF TrendInv, t

LEMMA TrendNothingListed == ASSUME TrendInv, Trends!NothingListed PROVE TrendInv'
<1>1. /\ call' = [pc |-> "done"] /\ answer'.kind = "error" /\ UNCHANGED <<input, cache>>
  BY Zenon DEF Trends!NothingListed, Trends!Fail
<1>2. "fetched" \notin DOMAIN call' BY <1>1
<1>3. Trends!TrendsComplete' BY <1>1, <1>2 DEF Trends!TrendsComplete
<1> QED BY <1>1, <1>3 DEF TrendInv

LEMMA TrendOtherCall ==
  ASSUME CacheSize \in Nat \ {0}, TrendInv, Trends!OtherCall PROVE TrendInv'
<1>1. /\ TrendRun(input, call, cache, lost) /\ answer = Trends!NoAnswer
      /\ input \in TrendInputs /\ cache \in Seq(TrendIds(input) \union {Foreign})
      /\ cache' = Trends!Inserted(Foreign) /\ UNCHANGED <<input, call, answer>>
      /\ lost' = lost \union (Entries(cache) \ Entries(cache'))
  <2>1. call.pc \in {"prefetch", "load"} BY DEF Trends!OtherCall
  <2>2. lost' = lost \union (Trends!Range(cache) \ Trends!Range(cache)') BY DEF Trends!OtherCall
  <2>3. lost' = lost \union (Entries(cache) \ Entries(cache')) BY <2>2 DEF Trends!Range, Entries
  <2> QED BY <2>1, <2>3, TrendRunning DEF Trends!OtherCall
<1>2. cache' \in Seq(TrendIds(input) \union {Foreign}) BY <1>1, TrendInserted
<1>3. TrendCached(call, cache', lost') BY <1>1 DEF TrendRun, TrendCached
<1>4. TrendRun(input, call, cache', lost') BY <1>1, <1>3 DEF TrendRun
<1> QED BY <1>1, <1>2, <1>4 DEF TrendInv

LEMMA TrendExpire == ASSUME TrendInv, Trends!Expire PROVE TrendInv'
<1>1. call.pc \in {"prefetch", "load"} /\ UNCHANGED <<input, call, answer, cache, lost>> BY DEF Trends!Expire
<1> QED BY <1>1, TrendRunning DEF TrendInv

LEMMA TrendSteps ==
  ASSUME TrendInv, call.pc \in {"prefetch", "load"}, NEW d,
         DOMAIN d = TrendNames, d.pc \in {"prefetch", "load"}, d.at \in Nat \ {0}, d.cached \subseteq TrendIds(input),
         call' = d, UNCHANGED <<input, answer, lost>>, cache' \in Seq(TrendIds(input) \union {Foreign}),
         d.profiles = call.profiles, d.i = call.i, d.failed = call.failed, d.timeline = call.timeline,
         d.targets = call.targets, d.fetched = call.fetched, d.pc = "prefetch" => call.pc = "prefetch",
         TrendCached(d, cache', lost)
  PROVE  TrendInv'
<1>1. TrendRun(input, call, cache, lost) /\ answer = Trends!NoAnswer /\ input \in TrendInputs BY TrendRunning
<1>4. TrendTyped(input, d) BY <1>1 DEF TrendRun, TrendTyped
<1>2. TrendRun(input, d, cache', lost) BY <1>1, <1>4, TrendRunKept
<1>3. TrendRun(input, call, cache, lost)' BY <1>2
<1> QED BY <1>1, <1>3 DEF TrendInv

LEMMA TrendPrefetch ==
  ASSUME CacheSize \in Nat \ {0}, TrendInv, Trends!Prefetch PROVE TrendInv'
<1> DEFINE id == input.api[call.at].id
           step == [call EXCEPT !.at = @ + 1, !.remaining = @ - 1]
           S == TrendIds(input) \union {Foreign}
<1>1. /\ call.pc = "prefetch" /\ call.at <= Len(input.api) /\ call.remaining > 0
      /\ id \in Entries(call.profiles) /\ UNCHANGED <<input, answer, lost>>
  BY TrendSame DEF Trends!Prefetch, Trends!Api, Trends!Wanted
<1>2. /\ TrendRun(input, call, cache, lost) /\ TrendTyped(input, call) /\ cache \in Seq(S)
  BY <1>1, TrendRunning
<1>3. id \in TrendIds(input) BY <1>1, <1>2 DEF TrendTyped, Entries
<1>4. TrendCached(call, cache, lost) /\ call.fetched = {} BY <1>1, <1>2 DEF TrendRun
<1>5. TrendTyped(input, step) BY <1>2 DEF TrendTyped, TrendNames
<1> HIDE DEF id
<1>6. CASE /\ Trends!Cached(id) /\ call' = [step EXCEPT !.cached = @ \union {id}]
           /\ cache' = Trends!Touched(id)
  <2>1. cache' \in Seq(S) /\ Entries(cache) \subseteq Entries(cache')
    BY <1>2, <1>3, <1>6, TrendTouched
  <2>2. id \in Entries(cache) BY <1>6 DEF Trends!Cached, Entries
  <2>3. PICK d : d = [step EXCEPT !.cached = @ \union {id}] OBVIOUS
  <2>4. /\ DOMAIN d = TrendNames /\ d.at \in Nat \ {0} /\ d.profiles = call.profiles /\ d.i = call.i /\ d.failed = call.failed
        /\ d.timeline = call.timeline /\ d.targets = call.targets /\ d.fetched = call.fetched
        /\ d.pc = call.pc /\ d.cached = call.cached \union {id} /\ d.cached \subseteq TrendIds(input)
    BY <1>2, <1>3, <1>5, <2>3 DEF TrendTyped, TrendNames
  <2>5. TrendCached(d, cache', lost) BY <1>1, <1>4, <2>1, <2>2, <2>4 DEF TrendCached
  <2> QED BY Zenon, <1>1, <1>6, <2>1, <2>3, <2>4, <2>5, TrendSteps
<1>7. CASE /\ ~ Trends!WouldEvict(Entries(call.profiles))
           /\ call' = [step EXCEPT !.cached = @ \union {id}] /\ cache' = Trends!Inserted(id)
  <2>1. /\ cache' \in Seq(S) /\ id \in Entries(cache')
        /\ \A e \in Entries(cache) : e \in Entries(cache') \/ e \notin Entries(call.profiles)
    BY <1>2, <1>3, <1>7, TrendInserted DEF Trends!WouldEvict
  <2>3. PICK d : d = [step EXCEPT !.cached = @ \union {id}] OBVIOUS
  <2>4. /\ DOMAIN d = TrendNames /\ d.at \in Nat \ {0} /\ d.profiles = call.profiles /\ d.i = call.i /\ d.failed = call.failed
        /\ d.timeline = call.timeline /\ d.targets = call.targets /\ d.fetched = call.fetched
        /\ d.pc = call.pc /\ d.cached = call.cached \union {id} /\ d.cached \subseteq TrendIds(input)
    BY <1>2, <1>3, <1>5, <2>3 DEF TrendTyped, TrendNames
  <2>5. TrendCached(d, cache', lost) BY <1>1, <1>4, <2>1, <2>4 DEF TrendCached
  <2> QED BY Zenon, <1>1, <1>7, <2>1, <2>3, <2>4, <2>5, TrendSteps
<1>8. ASSUME NEW d, call' = d, UNCHANGED cache,
             \/ \E why \in {"would evict", "process full"} : d = [step EXCEPT !.stopped = why]
             \/ d = [step EXCEPT !.skipped = @ + 1]
      PROVE  TrendInv'
  <2>1. /\ DOMAIN d = TrendNames /\ d.at \in Nat \ {0} /\ d.profiles = call.profiles /\ d.i = call.i /\ d.failed = call.failed
        /\ d.timeline = call.timeline /\ d.targets = call.targets /\ d.fetched = call.fetched
        /\ d.pc = call.pc /\ d.cached = call.cached /\ d.cached \subseteq TrendIds(input)
    BY Zenon, <1>2, <1>5, <1>8 DEF TrendTyped, TrendNames
  <2>2. TrendCached(d, cache', lost) BY <1>4, <1>8, <2>1 DEF TrendCached
  <2> QED BY <1>1, <1>2, <1>8, <2>1, <2>2, TrendSteps
<1> QED
  <2>1. \/ /\ Trends!Cached(id) /\ call' = [step EXCEPT !.cached = @ \union {id}]
           /\ cache' = Trends!Touched(id)
        \/ /\ ~ Trends!WouldEvict(Entries(call.profiles))
           /\ call' = [step EXCEPT !.cached = @ \union {id}] /\ cache' = Trends!Inserted(id)
        \/ /\ UNCHANGED cache
           /\ \/ call' = [step EXCEPT !.stopped = "would evict"]
              \/ call' = [step EXCEPT !.stopped = "process full"]
              \/ call' = [step EXCEPT !.skipped = @ + 1]
    <3> HIDE DEF step
    <3> QED BY TrendSame DEF Trends!Prefetch, Trends!Api, Trends!Wanted, id, step
  <2> HIDE DEF step
  <2> QED BY Zenon, <1>6, <1>7, <1>8, <2>1

LEMMA TrendScan ==
  ASSUME TrendInv, Trends!PrefetchOther \/ Trends!PrefetchFailed \/ Trends!Prefetched PROVE TrendInv'
<1> DEFINE S == TrendIds(input) \union {Foreign}
<1>1. /\ call.pc = "prefetch" /\ UNCHANGED <<input, answer, cache, lost>>
      /\ \/ call' = [call EXCEPT !.at = @ + 1]
         \/ call' = [call EXCEPT !.stopped = "list failed"]
         \/ call' = [call EXCEPT !.pc = "load"]
  BY Zenon DEF Trends!PrefetchOther, Trends!PrefetchFailed, Trends!Prefetched
<1>2. /\ TrendRun(input, call, cache, lost) /\ TrendTyped(input, call) /\ cache \in Seq(S)
  BY Zenon, <1>1, TrendRunning
<1>3. TrendCached(call, cache, lost) BY <1>2 DEF TrendRun
<1>4. ASSUME NEW d, call' = d, \/ d = [call EXCEPT !.at = @ + 1]
                               \/ d = [call EXCEPT !.stopped = "list failed"]
                               \/ d = [call EXCEPT !.pc = "load"]
      PROVE  TrendInv'
  <2>1. /\ DOMAIN d = TrendNames /\ d.at \in Nat \ {0} /\ d.profiles = call.profiles /\ d.i = call.i
        /\ d.failed = call.failed /\ d.timeline = call.timeline /\ d.targets = call.targets
        /\ d.fetched = call.fetched /\ d.cached = call.cached /\ d.pc \in {"prefetch", "load"}
        /\ d.cached \subseteq TrendIds(input)
    <3>1. CASE d = [call EXCEPT !.at = @ + 1] BY <1>2, <3>1 DEF TrendTyped, TrendNames
    <3>2. CASE d = [call EXCEPT !.stopped = "list failed"] BY Zenon, <1>2, <3>2 DEF TrendTyped, TrendNames
    <3>3. CASE d = [call EXCEPT !.pc = "load"] BY <1>2, <3>3 DEF TrendTyped, TrendNames
    <3> QED BY Zenon, <1>4, <3>1, <3>2, <3>3
  <2>2. cache' = cache BY Zenon, <1>1
  <2>3. TrendCached(d, cache', lost) BY <1>3, <2>1, <2>2 DEF TrendCached
  <2> QED BY Zenon, <1>1, <1>2, <1>4, <2>1, <2>2, <2>3, TrendSteps
<1> QED BY Zenon, <1>1, <1>4

LEMMA TrendPoint ==
  ASSUME NEW t, NEW id \in TrendIds(t), NEW p,
         p \in [id : {id}, costs : {Trends!Restrict(TrendProfile(t, id).costs, E) : E \in SUBSET DOMAIN TrendProfile(t, id).costs}]
  PROVE  p \in TrendPoints(t)
  BY DEF TrendPoints

(* The next profile is what the cache may lose.                            *)
LEMMA TrendNext ==
  ASSUME NEW t, NEW c, NEW d, NEW e, NEW f, NEW g, TrendRun(t, c, e, g), c.i <= Len(c.profiles),
         d.profiles = c.profiles, d.cached = c.cached, d.fetched = c.fetched, d.i = c.i + 1,
         Entries(e) \ {c.profiles[c.i]} \subseteq Entries(f)
  PROVE  TrendCached(d, f, g) /\ TrendOrdered(t, d) /\ d.i \in 1..(Len(d.profiles) + 1)
<1>1. c.i \in 1..Len(c.profiles) /\ c.i \in Nat /\ TrendCached(c, e, g) /\ TrendOrdered(t, c)
      /\ Len(c.profiles) \in Nat
  BY DEF TrendRun, TrendFound, TrendTyped
<1> DEFINE n == c.i
<1>2. \A k : k \in 1..(n + 1 - 1) <=> k \in 1..(n - 1) \/ k = n BY <1>1
<1>3. d.i - 1 = n + 1 - 1 BY <1>1
<1> HIDE DEF n
<1>4. {c.profiles[k] : k \in 1..(n + 1 - 1)} = {c.profiles[k] : k \in 1..(n - 1)} \union {c.profiles[n]} BY Zenon, <1>2
<1>5. TrendCached(d, f, g)
  <2>1. c.i = n BY DEF n
  <2>2. {c.profiles[k] : k \in 1..(d.i - 1)} = {c.profiles[k] : k \in 1..(n - 1)} \union {c.profiles[n]}
    BY <1>3, <1>4
  <2> QED BY <1>1, <2>1, <2>2 DEF TrendCached
<1> QED BY <1>1, <1>5 DEF TrendOrdered

LEMMA TrendFailed ==
  ASSUME NEW t, NEW c, NEW d, NEW e, NEW f, NEW g, TrendRun(t, c, e, g),
         c.pc = "load", c.i <= Len(c.profiles), d = Trends!Failed(c),
         Entries(e) \ {c.profiles[c.i]} \subseteq Entries(f),
         TrendProfile(t, c.profiles[c.i]).bytes # "ok" \/ c.profiles[c.i] \in c.fetched
  PROVE  TrendRun(t, d, f, g)
<1>1. TrendTyped(t, c) /\ TrendFound(t, c) /\ TrendTracked(t, c) BY DEF TrendRun
<1>2. /\ DOMAIN d = TrendNames /\ d.pc = "load" /\ d.profiles = c.profiles /\ d.at = c.at /\ d.cached = c.cached
      /\ d.i = c.i + 1 /\ d.failed = c.failed + 1 /\ d.targets = c.targets /\ d.timeline = c.timeline
      /\ d.fetched = c.fetched
  BY <1>1 DEF TrendTyped, TrendNames, Trends!Failed
<1>3. TrendCached(d, f, g) /\ TrendOrdered(t, d) /\ d.i \in 1..(Len(d.profiles) + 1) BY <1>2, TrendNext
<1>4. TrendTyped(t, d) BY <1>1, <1>2 DEF TrendTyped
<1>5. TrendTracked(t, d) BY <1>1, <1>2 DEF TrendTracked
<1>6. TrendFound(t, d)
  <2>1. c.i \in Nat /\ c.failed \in Nat /\ Len(c.timeline) \in Nat BY <1>1 DEF TrendTyped
  <2>2. Len(d.timeline) + d.failed = d.i - 1
    <3>1. Len(c.timeline) + c.failed = c.i - 1 BY <1>1 DEF TrendFound
    <3>2. Len(d.timeline) = Len(c.timeline) BY <1>2
    <3> DEFINE a == Len(c.timeline)  b == c.failed  k == c.i
    <3>3. a \in Nat /\ b \in Nat /\ k \in Nat /\ a + b = k - 1 BY <2>1, <3>1
    <3>4. Len(d.timeline) = a /\ d.failed = b + 1 /\ d.i = k + 1 BY <1>2, <3>2
    <3> HIDE DEF a, b, k
    <3> QED BY <3>3, <3>4
  <2>3. \A j \in DOMAIN d.timeline : \E k \in 1..(d.i - 1) : d.timeline[j].id = d.profiles[k]
    BY <1>1, <1>2, <2>1 DEF TrendFound
  <2>4. ASSUME NEW k \in 1..(d.i - 1) PROVE TrendAccounted(t, d, k)
    <3>1. k \in 1..(c.i - 1) \/ k = c.i BY <1>2, <2>1
    <3>2. TrendAccounted(t, c, k) BY <1>1, <3>1 DEF TrendFound, TrendAccounted
    <3> QED BY <1>2, <3>2 DEF TrendAccounted
  <2> QED BY <1>1, <1>2, <1>3, <2>2, <2>3, <2>4 DEF TrendFound
<1> QED BY <1>2, <1>3, <1>4, <1>5, <1>6 DEF TrendRun

LEMMA TrendAnalyzed ==
  ASSUME Trends!TrendConstants, input \in TrendInputs, NEW c, NEW d, NEW f,
         TrendRun(input, c, cache, lost), c.pc = "load", c.i <= Len(c.profiles),
         d = Trends!Analyzed(c, c.profiles[c.i]),
         Entries(cache) \ {c.profiles[c.i]} \subseteq Entries(f)
  PROVE  TrendRun(input, d, f, lost)
<1> DEFINE t == input  id == c.profiles[c.i]  costs == TrendProfile(t, id).costs  D == t.filter = {}
           targets == IF D /\ c.targets = {} THEN Trends!Greatest(costs, t.maxFunctions) ELSE c.targets
           tracked == IF D THEN targets ELSE t.filter
           point == [id |-> id, costs |-> Trends!Restrict(costs, DOMAIN costs \intersect tracked)]
           line == Append(c.timeline, point)  n == Len(c.timeline)
<1>1. TrendTyped(t, c) /\ TrendFound(t, c) /\ TrendTracked(t, c) BY DEF TrendRun
<1>2. d = [c EXCEPT !.i = @ + 1, !.targets = targets, !.timeline = line]
  BY Zenon, TrendSame DEF Trends!Analyzed, Trends!Discovers
<1>3. id \in TrendIds(t) /\ c.i \in 1..Len(c.profiles) /\ c.i \in Nat /\ c.failed \in Nat /\ n \in Nat
      /\ Len(c.profiles) \in Nat /\ DOMAIN c.profiles = 1..Len(c.profiles)
  BY <1>1 DEF TrendTyped, TrendFound
<1>4. targets \subseteq TrendFunctions(t)
  <2>1. PICK m \in DOMAIN t.api : id = t.api[m].id BY <1>3 DEF TrendIds
  <2>2. TrendProfile(t, id) = t.api[m] BY <2>1, TrendNamed
  <2>3. DOMAIN costs \subseteq TrendFunctions(t) BY <2>2 DEF TrendFunctions
  <2>4. Trends!Greatest(costs, t.maxFunctions) \subseteq DOMAIN costs BY DEF Trends!Greatest
  <2>5. c.targets \subseteq TrendFunctions(t) BY <1>1 DEF TrendTyped
  <2> HIDE DEF costs
  <2> QED BY <2>3, <2>4, <2>5
<1>5. /\ point.id = id /\ DOMAIN point.costs = DOMAIN costs \intersect tracked /\ point \in TrendPoints(t)
  <2>1. DOMAIN Trends!Restrict(costs, DOMAIN costs \intersect tracked) = DOMAIN costs \intersect tracked
    BY DEF Trends!Restrict
  <2>2. point \in [id : {id}, costs : {Trends!Restrict(costs, E) : E \in SUBSET DOMAIN costs}]
    <3> DEFINE E0 == DOMAIN costs \intersect tracked  R == {Trends!Restrict(costs, E) : E \in SUBSET DOMAIN costs}
    <3>1. E0 \in SUBSET DOMAIN costs OBVIOUS
    <3> HIDE DEF E0
    <3>2. Trends!Restrict(costs, E0) \in R BY <3>1
    <3>3. point = [id |-> id, costs |-> Trends!Restrict(costs, E0)] BY DEF E0
    <3> HIDE DEF R, point, id, costs
    <3>4. point \in [id : {id}, costs : R] BY <3>2, <3>3
    <3> QED BY <3>4 DEF R
  <2>3. point \in TrendPoints(t) BY Zenon, <1>3, <2>2, TrendPoint
  <2> QED BY <2>1, <2>3
<1> HIDE DEF point
<1>6. /\ line \in Seq(TrendPoints(t)) /\ Len(line) = n + 1 /\ DOMAIN line = 1..(n + 1) /\ line[n + 1] = point
      /\ DOMAIN c.timeline = 1..n /\ \A j \in 1..n : line[j] = c.timeline[j]
  BY <1>1, <1>5, AppendProperties DEF TrendTyped
<1> HIDE DEF line, targets, n
<1>7. /\ DOMAIN d = TrendNames /\ d.pc = "load" /\ d.profiles = c.profiles /\ d.at = c.at /\ d.cached = c.cached
      /\ d.i = c.i + 1 /\ d.failed = c.failed /\ d.targets = targets /\ d.timeline = line
      /\ d.fetched = c.fetched
  BY <1>1, <1>2 DEF TrendTyped, TrendNames
<1>8. TrendCached(d, f, lost) /\ TrendOrdered(t, d) /\ d.i \in 1..(Len(d.profiles) + 1) BY Zenon, <1>7, TrendNext
<1>9. TrendTyped(t, d) BY <1>1, <1>3, <1>4, <1>6, <1>7 DEF TrendTyped
<1>10. TrendTracked(t, d)
  <2> DEFINE before == IF D THEN c.targets ELSE t.filter
  <2>1. \A j \in 1..n : DOMAIN line[j].costs \subseteq before BY <1>1, <1>6 DEF TrendTracked
  <2>2. before \subseteq tracked BY DEF targets
  <2>3. \A j \in 1..(n + 1) : j \in 1..n \/ j = n + 1 BY <1>3
  <2>4. \A j \in 1..(n + 1) : DOMAIN line[j].costs \subseteq tracked BY <1>5, <1>6, <2>1, <2>2, <2>3
  <2>5. ASSUME NEW j \in 1..(n + 1), NEW m \in 1..(n + 1), j <= m
        PROVE  DOMAIN line[j].costs \intersect DOMAIN TrendProfile(t, line[m].id).costs \subseteq DOMAIN line[m].costs
    <3>1. CASE m = n + 1 BY <1>5, <1>6, <2>4, <3>1
    <3>2. CASE m # n + 1
      <4>1. m \in 1..n /\ j \in 1..n BY <1>3, <2>5, <3>2
      <4> QED BY <1>1, <1>6, <2>5, <4>1 DEF TrendTracked
    <3> QED BY <3>1, <3>2
  <2>6. tracked = (IF t.filter = {} THEN d.targets ELSE t.filter) BY <1>7
  <2> HIDE DEF tracked
  <2> QED BY <1>6, <1>7, <2>4, <2>5, <2>6 DEF TrendTracked
<1>11. TrendFound(t, d)
  <2>1. n + c.failed = c.i - 1 BY <1>1 DEF TrendFound, n
  <2>2. Len(d.timeline) + d.failed = d.i - 1
    <3>1. Len(d.timeline) = n + 1 BY <1>6, <1>7
    <3>2. \A a, b, k \in Nat : a + b = k - 1 => (a + 1) + b = (k + 1) - 1 OBVIOUS
    <3> QED BY <1>3, <1>7, <2>1, <3>1, <3>2
  <2>3. \A j \in 1..n : \E k \in 1..(c.i - 1) : line[j].id = c.profiles[k] BY <1>1, <1>6 DEF TrendFound
  <2>4. \A j \in 1..(n + 1) : j \in 1..n \/ j = n + 1 BY <1>3
  <2>5. \A k : k \in 1..(d.i - 1) <=> k \in 1..(c.i - 1) \/ k = c.i BY <1>3, <1>7
  <2>6. \A j \in 1..(n + 1) : \E k \in 1..(d.i - 1) : line[j].id = c.profiles[k]
    BY Zenon, <1>5, <1>6, <2>3, <2>4, <2>5
  <2>7. ASSUME NEW k \in 1..(d.i - 1) PROVE TrendAccounted(t, d, k)
    <3>1. CASE k = c.i
      <4>1. n + 1 \in 1..(n + 1) BY <1>3
      <4> QED BY <1>5, <1>6, <1>7, <3>1, <4>1 DEF TrendAccounted
    <3>2. CASE k # c.i
      <4>1. TrendAccounted(t, c, k) BY <1>1, <2>5, <3>2 DEF TrendFound
      <4>2. \A j \in 1..n : j \in 1..(n + 1) BY <1>3
      <4> QED BY <1>6, <1>7, <4>1, <4>2 DEF TrendAccounted
    <3> QED BY <3>1, <3>2
  <2>8. ASSUME NEW j \in 1..(n + 1), NEW m \in 1..(n + 1), j < m
        PROVE  TrendSec(t, line[j].id) <= TrendSec(t, line[m].id)
    <3>1. CASE m = n + 1
      <4>1. j \in 1..n BY <1>3, <2>8, <3>1
      <4>2. PICK k \in 1..(c.i - 1) : line[j].id = c.profiles[k] BY <2>3, <4>1
      <4>3. k \in DOMAIN c.profiles /\ c.i \in DOMAIN c.profiles /\ k < c.i BY <1>3
      <4>4. TrendSec(t, c.profiles[k]) <= TrendSec(t, id) BY <4>3 DEF TrendRun, TrendOrdered
      <4> QED BY <1>5, <1>6, <3>1, <4>2, <4>4
    <3>2. CASE m # n + 1
      <4>1. m \in 1..n /\ j \in 1..n BY <1>3, <2>8, <3>2
      <4> QED BY <1>1, <1>6, <2>8, <4>1 DEF TrendFound
    <3> QED BY <3>1, <3>2
  <2>9. d.timeline = line /\ DOMAIN line = 1..(n + 1) /\ d.profiles = c.profiles BY <1>6, <1>7
  <2>10. d.i \in 1..(Len(d.profiles) + 1) BY <1>8
  <2> QED BY <2>2, <2>6, <2>7, <2>8, <2>9, <2>10 DEF TrendFound
<1> QED BY <1>7, <1>8, <1>9, <1>10, <1>11 DEF TrendRun

LEMMA TrendLoading ==
  ASSUME TrendInv, call.pc = "load"
  PROVE  /\ TrendRun(input, call, cache, lost) /\ answer = Trends!NoAnswer /\ TrendTyped(input, call)
         /\ input \in TrendInputs /\ cache \in Seq(TrendIds(input) \union {Foreign})
         /\ call.i <= Len(call.profiles) => call.profiles[call.i] \in TrendIds(input)
<1>1. TrendRun(input, call, cache, lost) /\ TrendTyped(input, call) BY TrendRunning
<1>2. call.i \in 1..(Len(call.profiles) + 1) /\ Len(call.profiles) \in Nat BY <1>1 DEF TrendRun, TrendFound, TrendTyped
<1>3. call.i <= Len(call.profiles) => call.i \in 1..Len(call.profiles) BY <1>2
<1>4. call.i <= Len(call.profiles) => call.profiles[call.i] \in TrendIds(input) BY <1>1, <1>3 DEF TrendTyped
<1> QED BY <1>1, <1>4, TrendRunning

(* A profile the cache has not is one that another call evicted, if it was *)
(* put there at all: the earlier ones are others.                          *)
LEMMA TrendTried ==
  ASSUME TrendInv, call.pc = "load", call.i <= Len(call.profiles), ~ Trends!Cached(Trends!Current)
  PROVE  TrendRun(input, Trends!Tried, cache, lost) /\ Trends!Current \in Trends!Tried.fetched
<1> DEFINE id == call.profiles[call.i]
<1>1. /\ TrendRun(input, call, cache, lost) /\ TrendTyped(input, call) /\ id \in TrendIds(input)
      /\ id \notin Entries(cache) /\ Trends!Current = id
  BY TrendLoading DEF Trends!Current, Trends!Cached, Entries
<1>2. PICK d : d = Trends!Tried OBVIOUS
<1>3. /\ DOMAIN d = TrendNames /\ d.pc = call.pc /\ d.profiles = call.profiles /\ d.at = call.at
      /\ d.i = call.i /\ d.failed = call.failed /\ d.targets = call.targets /\ d.timeline = call.timeline
      /\ d.cached = call.cached /\ d.fetched = call.fetched \union {id}
  BY <1>1, <1>2 DEF Trends!Tried, TrendTyped, TrendNames
<1>4. TrendTyped(input, d) BY <1>1, <1>3 DEF TrendTyped
<1>5. \A k \in 1..(call.i - 1) : call.profiles[k] # id
  <2>1. call.i \in 1..Len(call.profiles) /\ call.i \in Nat /\ DOMAIN call.profiles = 1..Len(call.profiles)
        /\ Len(call.profiles) \in Nat
    BY <1>1 DEF TrendRun, TrendFound, TrendTyped
  <2>2. \A k \in 1..(call.i - 1) : k \in DOMAIN call.profiles /\ k < call.i BY <2>1
  <2> QED BY <1>1, <2>1, <2>2 DEF TrendRun, TrendOrdered
<1>6. id \in call.cached => id \in lost BY <1>1, <1>5 DEF TrendRun, TrendCached
<1>7. TrendCached(d, cache, lost) BY <1>1, <1>3, <1>6 DEF TrendRun, TrendCached
<1>8. TrendOrdered(input, d) BY <1>1, <1>3 DEF TrendRun, TrendOrdered
<1>9. TrendTracked(input, d) BY <1>1, <1>3 DEF TrendRun, TrendTracked
<1>10. TrendFound(input, d)
  <2>1. \A k : TrendAccounted(input, call, k) => TrendAccounted(input, d, k) BY <1>3 DEF TrendAccounted
  <2>2. TrendFound(input, call) BY <1>1 DEF TrendRun
  <2> HIDE DEF id
  <2> QED BY <1>3, <2>1, <2>2 DEF TrendFound
<1>11. d.pc # "prefetch" BY <1>3
<1> QED BY <1>1, <1>2, <1>3, <1>4, <1>7, <1>8, <1>9, <1>10, <1>11 DEF TrendRun

(* A call that fails has fetched what others evicted, and no more.         *)
LEMMA TrendOver ==
  ASSUME NEW c, NEW e, TrendRun(input, c, e, lost), call' = [c EXCEPT !.pc = "done"], answer'.kind = "error",
         UNCHANGED lost
  PROVE  call'.pc = "done" /\ Trends!TrendsComplete'
<1>1. TrendTyped(input, c) /\ c.fetched \intersect c.cached \subseteq lost BY DEF TrendRun, TrendCached
<1>2. call'.pc = "done" /\ call'.fetched = c.fetched /\ call'.cached = c.cached BY <1>1 DEF TrendTyped, TrendNames
<1>3. call'.fetched \intersect call'.cached \subseteq lost' BY <1>1, <1>2
<1> QED BY <1>2, <1>3 DEF Trends!TrendsComplete

LEMMA TrendStop == ASSUME TrendInv, Trends!Stop PROVE TrendInv'
<1>1. /\ call.pc = "load" /\ answer'.kind = "error" /\ call' = [call EXCEPT !.pc = "done"]
      /\ UNCHANGED <<input, cache, lost>>
  BY DEF Trends!Stop, Trends!Analyzing, Trends!Fail
<1>2. /\ TrendRun(input, call, cache, lost) /\ input \in TrendInputs
      /\ cache \in Seq(TrendIds(input) \union {Foreign})
  BY <1>1, TrendLoading
<1>3. call'.pc = "done" /\ Trends!TrendsComplete' BY <1>1, <1>2, TrendOver
<1> QED BY <1>1, <1>2, <1>3 DEF TrendInv

(* What becomes of the current profile: it may be the one entry that the   *)
(* cache drops.                                                            *)
LEMMA TrendUse ==
  ASSUME Trends!TrendConstants, NEW c, TrendRun(input, c, cache, lost), c.pc = "load", c.i <= Len(c.profiles),
         Trends!Use(c, c.profiles[c.i]), UNCHANGED <<input, lost>>, answer = Trends!NoAnswer,
         input \in TrendInputs, cache' \in Seq(TrendIds(input) \union {Foreign}),
         Entries(cache) \ {c.profiles[c.i]} \subseteq Entries(cache')
  PROVE  TrendInv'
<1> DEFINE id == c.profiles[c.i]
<1>1. \/ call' = Trends!Analyzed(c, id) /\ UNCHANGED answer
      \/ call' = [c EXCEPT !.pc = "done"] /\ answer'.kind = "error"
      \/ call' = Trends!Failed(c) /\ UNCHANGED answer /\ TrendProfile(input, id).bytes # "ok"
  <2>1. Trends!ById(id) = TrendProfile(input, id) BY TrendSame
  <2> DEFINE said == TrendProfile(input, id).bytes
  <2>2. \/ said = "ok" /\ call' = Trends!Analyzed(c, id) /\ UNCHANGED answer
        \/ said = "other" /\ call' = [c EXCEPT !.pc = "done"] /\ answer' = Trends!Fail("analyzing")
        \/ said # "ok" /\ said # "other" /\ call' = Trends!Failed(c) /\ UNCHANGED answer
    <3>1. Trends!Use(c, id) OBVIOUS
    <3> HIDE DEF id
    <3>2. CASE said = "ok" BY <2>1, <3>1, <3>2 DEF Trends!Use
    <3>3. CASE said = "other" BY <2>1, <3>1, <3>3 DEF Trends!Use
    <3>4. CASE said # "ok" /\ said # "other" BY <2>1, <3>1, <3>4 DEF Trends!Use
    <3> QED BY <3>2, <3>3, <3>4
  <2>3. Trends!Fail("analyzing").kind = "error" BY DEF Trends!Fail
  <2> HIDE DEF said, id
  <2> QED BY <2>2, <2>3 DEF said
<1>2. CASE call' = Trends!Analyzed(c, id) /\ UNCHANGED answer
  <2>1. PICK d : d = Trends!Analyzed(c, id) OBVIOUS
  <2>2. TrendRun(input, d, cache', lost) BY <2>1, TrendAnalyzed
  <2>3. call' = d BY <1>2, <2>1
  <2>4. TrendRun(input, call, cache, lost)' BY <2>2, <2>3
  <2> QED BY <1>2, <2>4 DEF TrendInv
<1>3. CASE call' = [c EXCEPT !.pc = "done"] /\ answer'.kind = "error"
  <2>1. call'.pc = "done" /\ Trends!TrendsComplete' BY <1>3, TrendOver
  <2> QED BY <2>1 DEF TrendInv
<1>4. CASE call' = Trends!Failed(c) /\ UNCHANGED answer /\ TrendProfile(input, id).bytes # "ok"
  <2>1. PICK d : d = Trends!Failed(c) OBVIOUS
  <2>2. TrendRun(input, d, cache', lost) BY <1>4, <2>1, TrendFailed
  <2>3. call' = d BY <1>4, <2>1
  <2>4. TrendRun(input, call, cache, lost)' BY <2>2, <2>3
  <2> QED BY <1>4, <2>4 DEF TrendInv
<1> QED BY <1>1, <1>2, <1>3, <1>4

LEMMA TrendLoadCached == ASSUME Trends!TrendConstants, TrendInv, Trends!LoadCached PROVE TrendInv'
<1> DEFINE id == call.profiles[call.i]  S == TrendIds(input) \union {Foreign}
<1>1. /\ call.pc = "load" /\ call.i <= Len(call.profiles) /\ Trends!Cached(id) /\ Trends!Use(call, id)
      /\ UNCHANGED <<input, lost>> /\ cache' \in {Trends!Without(id), Trends!Touched(id)}
  BY DEF Trends!LoadCached, Trends!Analyzing, Trends!Current
<1>2. /\ TrendRun(input, call, cache, lost) /\ answer = Trends!NoAnswer /\ input \in TrendInputs
      /\ cache \in Seq(S) /\ id \in S
  BY <1>1, TrendLoading
<1> HIDE DEF id
<1>3. cache' \in Seq(S) /\ Entries(cache) \ {id} \subseteq Entries(cache')
  <2>1. Trends!Without(id) \in Seq(S) /\ Entries(cache) \ {id} \subseteq Entries(Trends!Without(id))
    BY <1>1, <1>2, TrendDropped
  <2>2. Trends!Touched(id) \in Seq(S) /\ Entries(cache) \subseteq Entries(Trends!Touched(id))
    BY <1>1, <1>2, TrendTouched
  <2> QED BY <1>1, <2>1, <2>2
<1> QED BY <1>1, <1>2, <1>3, TrendUse DEF id

LEMMA TrendDownload ==
  ASSUME Trends!TrendConstants, TrendInv, Trends!Download \/ Trends!DownloadFailed PROVE TrendInv'
<1> DEFINE id == call.profiles[call.i]  S == TrendIds(input) \union {Foreign}
<1>1. /\ call.pc = "load" /\ call.i <= Len(call.profiles) /\ ~ Trends!Cached(id)
      /\ UNCHANGED <<input, cache, lost>>
      /\ \/ Trends!Use(Trends!Tried, id)
         \/ call' = Trends!Failed(Trends!Tried) /\ UNCHANGED answer
  BY DEF Trends!Download, Trends!DownloadFailed, Trends!Analyzing, Trends!Current
<1>2. /\ TrendTyped(input, call) /\ answer = Trends!NoAnswer /\ input \in TrendInputs
      /\ cache \in Seq(S)
  BY <1>1, TrendLoading
<1>3. PICK c : c = Trends!Tried OBVIOUS
<1>4. c.profiles = call.profiles /\ c.i = call.i /\ c.pc = "load"
  BY <1>1, <1>2, <1>3 DEF Trends!Tried, TrendTyped, TrendNames
<1>5. TrendRun(input, c, cache, lost) /\ c.profiles[c.i] \in c.fetched
  BY <1>1, <1>3, <1>4, TrendTried DEF Trends!Current
<1>6. CASE Trends!Use(Trends!Tried, id)
  <2>1. Trends!Use(c, c.profiles[c.i]) BY <1>3, <1>4, <1>6
  <2>2. Entries(cache) \ {c.profiles[c.i]} \subseteq Entries(cache') BY <1>1
  <2> QED BY <1>1, <1>2, <1>4, <1>5, <2>1, <2>2, TrendUse
<1>7. CASE call' = Trends!Failed(Trends!Tried) /\ UNCHANGED answer
  <2>1. PICK d : d = Trends!Failed(c) OBVIOUS
  <2>2. TrendRun(input, d, cache, lost)
    <3>1. Entries(cache) \ {c.profiles[c.i]} \subseteq Entries(cache) OBVIOUS
    <3>2. c.i <= Len(c.profiles) BY <1>1, <1>4
    <3> QED BY <1>4, <1>5, <2>1, <3>1, <3>2, TrendFailed
  <2>3. call' = d BY <1>3, <1>7, <2>1
  <2>4. TrendRun(input, call, cache, lost)' BY <1>1, <2>2, <2>3
  <2> QED BY <1>1, <1>2, <1>7, <2>4 DEF TrendInv
<1> QED BY <1>1, <1>6, <1>7

(* The functions of the profiles are finitely many.                        *)
LEMMA TrendFinite ==
  ASSUME Trends!TrendConstants, NEW t \in TrendInputs, NEW S \in SUBSET TrendFunctions(t)
  PROVE  IsFiniteSet(S) /\ Cardinality(S) \in Nat
<1> DEFINE A == DOMAIN t.api  B == {DOMAIN t.api[m].costs : m \in A}
<1>1. IsFiniteSet(A) /\ \A m \in A : IsFiniteSet(DOMAIN t.api[m].costs)
  BY DEF Trends!TrendConstants, Trends!IsFiniteSet, IsFiniteSet
<1>2. IsFiniteSet(B)
  <2> DEFINE f == [m \in A |-> DOMAIN t.api[m].costs]
  <2>1. f \in Surjection(A, B) BY DEF Surjection
  <2> HIDE DEF A, B, f
  <2> QED BY <1>1, <2>1, FS_Surjection
<1>3. \A b \in B : IsFiniteSet(b) BY <1>1
<1>4. TrendFunctions(t) = UNION B BY DEF TrendFunctions
<1> HIDE DEF A, B
<1>5. IsFiniteSet(UNION B) BY <1>2, <1>3, FS_UNION
<1> QED BY <1>4, <1>5, FS_Subset, FS_CardinalityType

(* What TrendsComplete says, of an answer.                                 *)
TrendTold(t, c, a) ==
  /\ a.analyzed + a.failed = a.count
  /\ Len(c.timeline) = a.analyzed
  /\ \A id \in Entries(c.profiles) :
       (\E i \in DOMAIN c.timeline : c.timeline[i].id = id) \/ TrendProfile(t, id).bytes # "ok" \/ id \in c.fetched
  /\ \A i, j \in DOMAIN c.timeline :
       i < j => TrendProfile(t, c.timeline[i].id).time.sec <= TrendProfile(t, c.timeline[j].id).time.sec
  /\ \A f \in a.functions :
       \A i \in a.series[f], j \in DOMAIN c.timeline :
         i <= j /\ f \in DOMAIN TrendProfile(t, c.timeline[j].id).costs => j \in a.series[f]
  /\ t.filter = {} => Cardinality(a.functions) <= t.maxFunctions
  /\ a.failed > 0 <=> "incomplete" \in a.warnings
TrendGood(t, c, a, gone) ==
  /\ c.pc # "list" /\ "fetched" \in DOMAIN c => c.fetched \intersect c.cached \subseteq gone
  /\ a.kind = "trends" => TrendTold(t, c, a)

LEMMA TrendSaid ==
  /\ Trends!TrendsComplete <=> TrendGood(input, call, answer, lost)
  /\ Trends!TrendsComplete' <=> TrendGood(input', call', answer', lost')
<1>1. Trends!TrendsComplete <=> TrendGood(input, call, answer, lost)
  BY Zenon, TrendsCardinality DEF Trends!TrendsComplete, Trends!Readable, Trends!ById, Trends!Api, Trends!Discovers, TrendGood, TrendTold, TrendProfile,
     Trends!Range, Entries
<1>2. Trends!TrendsComplete' <=> TrendGood(input', call', answer', lost')
  BY Zenon, TrendsCardinality DEF Trends!TrendsComplete, Trends!Readable, Trends!ById, Trends!Api, Trends!Discovers, TrendGood, TrendTold, TrendProfile,
     Trends!Range, Entries
<1> QED BY <1>1, <1>2

LEMMA TrendReport == ASSUME Trends!TrendConstants, TrendInv, Trends!Report PROVE TrendInv'
<1> DEFINE n == Len(call.profiles)  line == call.timeline
<1>1. /\ call.pc = "load" /\ call.i > n /\ call' = [call EXCEPT !.pc = "done"]
      /\ UNCHANGED <<input, cache, lost>>
  BY Zenon DEF Trends!Report
<1>2. /\ TrendRun(input, call, cache, lost) /\ TrendTyped(input, call) /\ input \in TrendInputs
      /\ cache \in Seq(TrendIds(input) \union {Foreign})
  BY <1>1, TrendLoading
<1>3. CASE call.failed = n
  <2>0. answer' = Trends!Fail("no profile could be analyzed") BY Zenon, <1>3 DEF Trends!Report
  <2>1. answer'.kind = "error" BY Zenon, <2>0 DEF Trends!Fail
  <2> QED BY <1>1, <1>2, <2>1, TrendOver DEF TrendInv
<1>4. CASE call.failed # n
  <2>1. PICK top \in Trends!Ranked :
          answer' = [kind |-> "trends", count |-> n, analyzed |-> n - call.failed,
                     failed |-> call.failed, functions |-> top,
                     series |-> [f \in top |-> Trends!Series(f)],
                     truncated |-> Trends!Truncates, warnings |-> Trends!Warnings]
    BY <1>4 DEF Trends!Report
  <2>2. PICK a : a = answer' OBVIOUS
  <2>3. /\ a.kind = "trends" /\ a.count = n /\ a.analyzed = n - call.failed /\ a.failed = call.failed
        /\ a.functions = top /\ a.series = [f \in top |-> Trends!Series(f)] /\ a.warnings = Trends!Warnings
    BY <2>1, <2>2
  <2>4. PICK d : d = call' OBVIOUS
  <2>5. /\ d.pc = "done" /\ d.profiles = call.profiles /\ d.timeline = line /\ d.fetched = call.fetched
        /\ d.cached = call.cached
    BY <1>1, <1>2, <2>4 DEF TrendTyped, TrendNames
  <2>6. /\ n \in Nat /\ call.i = n + 1 /\ call.failed \in Nat /\ Len(line) \in Nat /\ Len(line) + call.failed = n
        /\ DOMAIN call.profiles = 1..n /\ DOMAIN line = 1..Len(line)
    <3>1. call.profiles \in Seq(TrendIds(input)) /\ line \in Seq(TrendPoints(input)) /\ call.failed \in Nat
      BY <1>2 DEF TrendTyped
    <3>2. n \in Nat /\ Len(line) \in Nat /\ DOMAIN call.profiles = 1..n /\ DOMAIN line = 1..Len(line) BY <3>1
    <3>3. call.i \in 1..(n + 1) /\ Len(line) + call.failed = call.i - 1 BY <1>2 DEF TrendRun, TrendFound
    <3> DEFINE m == Len(line)  b == call.failed  k == call.i
    <3>4. m + b = k - 1 /\ m \in Nat /\ b \in Nat /\ k \in 1..(n + 1) /\ k > n /\ n \in Nat BY <1>1, <3>1, <3>2, <3>3
    <3> HIDE DEF m, b, k, n
    <3>5. k = n + 1 /\ m + b = n BY <3>4
    <3> QED BY <3>1, <3>2, <3>5 DEF m, b, k
  <2>7. a.analyzed + a.failed = a.count /\ Len(line) = a.analyzed
    <3> DEFINE m == Len(line)  b == call.failed
    <3>1. m \in Nat /\ b \in Nat /\ n \in Nat /\ m + b = n BY <2>6
    <3>2. a.count = n /\ a.analyzed = n - b /\ a.failed = b BY <2>3
    <3> HIDE DEF m, b, n
    <3>3. a.analyzed + a.failed = a.count /\ m = a.analyzed BY <3>1, <3>2
    <3> QED BY <3>3 DEF m
  <2>8. ASSUME NEW id \in Entries(call.profiles)
        PROVE  (\E j \in DOMAIN line : line[j].id = id) \/ TrendProfile(input, id).bytes # "ok" \/ id \in call.fetched
    <3>1. PICK k \in 1..n : id = call.profiles[k] BY <2>6 DEF Entries
    <3>2. k \in 1..(call.i - 1) BY <2>6
    <3>3. TrendAccounted(input, call, k) BY <1>2, <3>2 DEF TrendRun, TrendFound
    <3> QED BY <3>1, <3>3 DEF TrendAccounted
  <2>9. \A j, m \in DOMAIN line : j < m => TrendSec(input, line[j].id) <= TrendSec(input, line[m].id)
    BY <1>2 DEF TrendRun, TrendFound
  <2>10. ASSUME NEW f \in top, NEW j \in a.series[f], NEW m \in DOMAIN line,
                j <= m, f \in DOMAIN TrendProfile(input, line[m].id).costs
         PROVE  m \in a.series[f]
    <3>1. a.series[f] = {k \in DOMAIN line : f \in DOMAIN line[k].costs} BY <2>3 DEF Trends!Series
    <3>2. DOMAIN line[j].costs \intersect DOMAIN TrendProfile(input, line[m].id).costs \subseteq DOMAIN line[m].costs
      BY <1>2, <2>10, <3>1 DEF TrendRun, TrendTracked
    <3> QED BY <2>10, <3>1, <3>2
  <2>11. Cardinality(top) <= input.maxFunctions
    <3>1. input.maxFunctions \in Nat BY <1>2 DEF Trends!TrendConstants
    <3>2. Trends!Seen \subseteq TrendFunctions(input)
      <4> SUFFICES ASSUME NEW j \in DOMAIN line PROVE DOMAIN line[j].costs \subseteq TrendFunctions(input)
        BY DEF Trends!Seen
      <4>1. line[j] \in TrendPoints(input) BY <1>2 DEF TrendTyped
      <4>2. PICK id \in TrendIds(input) :
              line[j] \in [id : {id}, costs : {Trends!Restrict(TrendProfile(input, id).costs, E) : E \in SUBSET DOMAIN TrendProfile(input, id).costs}]
        BY <4>1 DEF TrendPoints
      <4>3. PICK E \in SUBSET DOMAIN TrendProfile(input, id).costs :
              line[j].costs = Trends!Restrict(TrendProfile(input, id).costs, E)
        BY <4>2
      <4>4. DOMAIN line[j].costs = E BY <4>3 DEF Trends!Restrict
      <4>5. PICK m \in DOMAIN input.api : id = input.api[m].id BY DEF TrendIds
      <4>6. TrendProfile(input, id) = input.api[m] BY <1>2, <4>5, TrendNamed
      <4> QED BY <4>4, <4>6 DEF TrendFunctions
    <3>3. Cardinality(Trends!Seen) \in Nat BY <1>2, <3>2, TrendFinite
    <3>4. IF Cardinality(Trends!Seen) > input.maxFunctions THEN Cardinality(top) = input.maxFunctions ELSE top = Trends!Seen
      BY TrendsCardinality DEF Trends!Ranked, Trends!Truncates
    <3> QED BY <3>1, <3>3, <3>4
  <2>12. a.failed > 0 <=> "incomplete" \in a.warnings BY Zenon, <2>3 DEF Trends!Warnings
  <2>13. d.fetched \intersect d.cached \subseteq lost BY <1>2, <2>5 DEF TrendRun, TrendCached
  <2>14. call' = d /\ answer' = a /\ input' = input /\ lost' = lost BY <1>1, <2>2, <2>4
  <2> HIDE DEF n, line
  <2>15. TrendTold(input, d, a)
    <3>1. d.profiles = call.profiles /\ d.timeline = line /\ d.fetched = call.fetched /\ a.functions = top BY <2>3, <2>5
    <3>2. input.filter = {} => Cardinality(a.functions) <= input.maxFunctions BY <2>11, <3>1
    <3>3. \A id \in Entries(d.profiles) :
            (\E i \in DOMAIN d.timeline : d.timeline[i].id = id) \/ TrendProfile(input, id).bytes # "ok" \/ id \in d.fetched
      BY <2>8, <3>1
    <3>4. \A i, j \in DOMAIN d.timeline :
            i < j => TrendProfile(input, d.timeline[i].id).time.sec <= TrendProfile(input, d.timeline[j].id).time.sec
      BY <2>9, <3>1 DEF TrendSec
    <3>5. \A f \in a.functions :
            \A i \in a.series[f], j \in DOMAIN d.timeline :
              i <= j /\ f \in DOMAIN TrendProfile(input, d.timeline[j].id).costs => j \in a.series[f]
      BY <2>10, <3>1
    <3>6. a.analyzed + a.failed = a.count /\ Len(d.timeline) = a.analyzed BY <2>7, <3>1
    <3> QED BY <2>12, <3>2, <3>3, <3>4, <3>5, <3>6 DEF TrendTold
  <2>16. TrendGood(input, d, a, lost) BY <2>13, <2>15 DEF TrendGood
  <2>17. Trends!TrendsComplete' BY <2>14, <2>16, TrendSaid
  <2> QED BY <1>1, <1>2, <2>5, <2>14, <2>17 DEF TrendInv
<1> QED BY <1>3, <1>4

LEMMA TrendAgain == ASSUME TrendInv, Trends!Again PROVE TrendInv'
  BY DEF TrendInv, Trends!Again

LEMMA TrendInit == ASSUME Trends!Init PROVE TrendInv
<1> DEFINE S == TrendIds(input) \union {Foreign}
<1>1. cache \in Seq(S)
  <2>1. cache = <<>> \/ cache = <<Foreign>> BY DEF Trends!Init
  <2>2. Foreign \in S OBVIOUS
  <2> HIDE DEF S
  <2>3. <<>> \in Seq(S) /\ <<Foreign>> \in Seq(S) BY <2>2
  <2> QED BY Zenon, <2>1, <2>3
<1> QED BY <1>1 DEF Trends!Init, TrendInv

LEMMA TrendStep ==
  ASSUME Trends!TrendConstants, TrendInv, [Trends!Next]_(Trends!vars) PROVE TrendInv'
<1>1. CASE UNCHANGED Trends!vars
  <2>1. UNCHANGED <<input, call, answer, cache, lost>> BY <1>1 DEF Trends!vars
  <2>2. Trends!TrendsComplete => Trends!TrendsComplete' BY <2>1, TrendSaid
  <2>3. TrendRun(input, call, cache, lost) => TrendRun(input, call, cache, lost)' BY <2>1
  <2> QED BY <2>1, <2>2, <2>3 DEF TrendInv
<1>2. CASE Trends!Next
  BY <1>2, TrendOtherCall, TrendExpire, TrendList, TrendNothingListed, TrendPrefetch, TrendScan, TrendStop,
     TrendLoadCached, TrendDownload, TrendReport, TrendAgain
     DEF Trends!Next, Trends!TrendConstants
<1> QED BY <1>1, <1>2

LEMMA TrendsAreWhole == ASSUME TrendInv PROVE Trends!TrendsComplete
<1>1. Trends!NoAnswer.kind = "none" BY DEF Trends!NoAnswer
<1>2. CASE call = [pc |-> "list"] /\ answer = Trends!NoAnswer
  <2>1. call.pc = "list" /\ answer.kind = "none" BY <1>1, <1>2
  <2> QED BY <2>1 DEF Trends!TrendsComplete
<1>3. CASE TrendRun(input, call, cache, lost) /\ answer = Trends!NoAnswer
  <2>1. call.fetched \intersect call.cached \subseteq lost /\ answer.kind = "none"
    BY <1>1, <1>3 DEF TrendRun, TrendCached
  <2> QED BY <2>1 DEF Trends!TrendsComplete
<1> QED BY <1>2, <1>3 DEF TrendInv

-----------------------------------------------------------------------------
(* The theorems: each part's invariant holds of the calls of that part,    *)
(* and a client stays with its part.                                       *)

LEMMA PagingStep ==
  ASSUME Pages!PageConstants, [Next]_vars,
         part = "pages" => PagesInv, part = "listing" => ListingInv
  PROVE  /\ part' = part
         /\ part' = "pages" => PagesInv'
         /\ part' = "listing" => ListingInv'
<1>1. part' = part /\ (part = "pages" => [Pages!Next]_(Pages!vars))
      /\ (part = "listing" => [Listing!Next]_(Listing!vars))
  BY DEF Next, MetricNext, vars, metricVars, Pages!vars, Listing!vars
<1> QED
  BY <1>1, PagesStep, ListingStep

(* Whatever pages the APIs have, wherever calls stop or fail, are repeated *)
(* or turn to another filter, a client that follows the tokens of          *)
(* ListProfiles gets every match once and in order, and all of them when   *)
(* there is no more token.  One that follows those of log entries, traces  *)
(* and error events gets no entry twice and each after those before it, a  *)
(* call answers consecutive entries, and nothing is skipped while the      *)
(* pages with entries are full (collectLogEntries and its siblings).       *)
THEOREM PagingIsExact ==
  ASSUME Pages!PageConstants, Listing!ListingConstants
  PROVE  Spec => []PagingExact
<1> DEFINE Inv == (part = "pages" => PagesInv) /\ (part = "listing" => ListingInv)
<1>1. Init => Inv
  BY PagesInit, ListingInit DEF Init, MetricInit
<1>2. Inv /\ [Next]_vars => Inv'
  BY PagingStep
<1>3. Inv => PagingExact
  BY PagesAreExact, ListingIsSound DEF PagingExact
<1> QED
  BY <1>1, <1>2, <1>3, PTL DEF Spec

(* Whatever the cache refuses and other calls do to it, and whenever the   *)
(* scans fail or the call runs out of time, the trends account for every   *)
(* profile listed, in the order of time; a tracked function has a point    *)
(* for every analysed profile it is in from its first on; and what was     *)
(* prefetched is fetched again only when another call evicted it           *)
(* (ComputeTrends, prefetchProfiles, loadProfile).                         *)
THEOREM TrendsAreComplete ==
  ASSUME Trends!TrendConstants
  PROVE  Spec => []TrendsComplete
<1> DEFINE Inv == part = "trends" => TrendInv
<1>1. Init => Inv
  BY TrendInit DEF Init, MetricInit
<1>2. Inv /\ [Next]_vars => Inv'
  <2> SUFFICES ASSUME Inv, [Next]_vars PROVE Inv' OBVIOUS
  <2>1. part' = part /\ (part = "trends" => [Trends!Next]_(Trends!vars))
    BY DEF Next, MetricNext, vars, metricVars, trendVars, Trends!vars
  <2> QED BY <2>1, TrendStep
<1>3. Inv => TrendsComplete
  BY TrendsAreWhole DEF TrendsComplete
<1> QED
  BY <1>1, <1>2, <1>3, PTL DEF Spec

(* Whatever of a call's queries fail, panic or find nothing, in whatever   *)
(* order, and whenever the client gives up, an answer of a metric tool     *)
(* says what it rests on: no verdict by comparison without half of its     *)
(* baseline, no related metric unaccounted for, no failure unmentioned;    *)
(* and no more queries run at once than there are places (runParallel,     *)
(* collectBaseline, metrics_snapshot.go, metrics_top.go,                   *)
(* metrics_related.go).                                                    *)
THEOREM ToolsAreHonest ==
  ASSUME Tools!ToolConstants
  PROVE  Spec => []ToolsHonest
<1> DEFINE Inv == part = "tools" => ToolsInv
<1>1. Init => Inv
  BY ToolsInit DEF Init, MetricInit
<1>2. Inv /\ [Next]_vars => Inv'
  <2> SUFFICES ASSUME Inv, [Next]_vars PROVE Inv' OBVIOUS
  <2>1. part' = part /\ (part = "tools" => [Tools!Next]_(Tools!vars))
    BY DEF Next, MetricNext, vars, metricVars, Tools!vars
  <2> QED BY <2>1, ToolsStep
<1>3. Inv => ToolsHonest
  BY ToolsAreWithin, WindowsArePast DEF ToolsHonest, Tools!ToolsHonest, ToolsInv
<1> QED
  BY <1>1, <1>2, <1>3, PTL DEF Spec

(* A verdict that compares, or that is given with high confidence, rests   *)
(* on a window and a baseline at most half of which is missing; what has   *)
(* become significantly worse is never called healthy, and what mostly     *)
(* breaches its objective never improved (classifyCore,                    *)
(* downgradeForReliability, deriveConfidence, computeDataQuality).         *)
THEOREM VerdictsAreSound ==
  ASSUME Signals!SignalConstants
  PROVE  Spec => []VerdictsSound
<1> DEFINE Inv == part = "signals" => SignalsInv
<1>1. Init => Inv
  BY DEF Init, MetricInit, Signals!Init, SignalsInv
<1>2. Inv /\ [Next]_vars => Inv'
  <2> SUFFICES ASSUME Inv, [Next]_vars PROVE Inv' OBVIOUS
  <2>1. part' = part /\ (part = "signals" => [Signals!Next]_(Signals!vars))
    BY DEF Next, MetricNext, vars, metricVars, Signals!vars
  <2> QED BY <2>1, SignalsStep
<1>3. Inv => VerdictsSound
  BY SignalsAreSound DEF VerdictsSound
<1> QED
  BY <1>1, <1>2, <1>3, PTL DEF Spec

(* A folded series has a point for exactly the buckets at which some group *)
(* still counts and the reducer's value is finite, in the order of time,   *)
(* with the value of the last points of the groups that count; and every   *)
(* point, bucket and group left out or carried forward is in the count     *)
(* that says so (QueryTimeSeries, QueryTimeSeriesAggregated,               *)
(* foldGroupSeries).                                                       *)
THEOREM SeriesIsExact ==
  ASSUME Series!SeriesConstants
  PROVE  Spec => []SeriesExact
<1> DEFINE Inv == part = "series" => SeriesRun
<1>1. Init => Inv
  BY SeriesRunInit DEF Init, MetricInit
<1>2. Inv /\ [Next]_vars => Inv'
  <2> SUFFICES ASSUME Inv, [Next]_vars PROVE Inv' OBVIOUS
  <2>1. part' = part /\ (part = "series" => [Series!Next]_(Series!vars))
    BY DEF Next, MetricNext, vars, metricVars, Series!vars
  <2> QED BY <2>1, SeriesStep
<1>3. Inv => SeriesExact
  BY ExactSame DEF SeriesExact, SeriesRun
<1> QED
  BY <1>1, <1>2, <1>3, PTL DEF Spec

(* What a log tool reports of the entries it read is right, and it says    *)
(* when it has not read them all: ScansHonest (logs.go:82-174, 225-471,    *)
(* 541-616; traces_from_logs.go:39-118).                                   *)
THEOREM ScansAreHonest ==
  ASSUME Scans!ScanConstants
  PROVE  Spec => []ScansHonest
<1> DEFINE Inv == part = "scans" => ScansInv
<1>1. Init => Inv
  BY ScansInit DEF Init, MetricInit
<1>2. Inv /\ [Next]_vars => Inv'
  <2> SUFFICES ASSUME Inv, [Next]_vars PROVE Inv' OBVIOUS
  <2>1. part' = part /\ (part = "scans" => [Scans!Next]_(Scans!vars))
    BY DEF Next, MetricNext, vars, metricVars, Scans!vars
  <2> QED BY <2>1, ScansStep
<1>3. Inv => ScansHonest
  BY DEF ScansHonest, ScansInv
<1> QED
  BY <1>1, <1>2, <1>3, PTL DEF Spec

===============================================================================
