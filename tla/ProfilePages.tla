------------------------------ MODULE ProfilePages ------------------------------
(***************************************************************************)
(* profiler_list: CloudProfilerQuerier.ListProfiles (gcpdata/profiler.go)  *)
(* and a client that follows its page tokens.  The Export API has no       *)
(* filters, so a call walks through its pages, counts what it examines,    *)
(* and stops at a number of matches or at a number of profiles examined,   *)
(* possibly inside a page of the API.                                      *)
(*                                                                         *)
(* Page k of the API has token k; token 0 is the empty token, which reads  *)
(* the first page and which the last page returns.                         *)
(***************************************************************************)
EXTENDS Naturals, FiniteSets, Sequences

CONSTANTS
    PageInputs,  \* what the API holds: sequences of pages of profiles
    Filters,     \* the filter sets clients ask with
    PageSizes,   \* ListProfilesParams.PageSize
    MaxScan      \* maxScan

(* The API has a first page, empty or not, and a call examines a profile.  *)
IsSequence(seq) == Len(seq) \in Nat /\ DOMAIN seq = 1..Len(seq)
PageConstants ==
    /\ \A pages \in PageInputs :
         /\ IsSequence(pages) /\ pages # <<>>
         /\ \A k \in DOMAIN pages : IsSequence(pages[k])
    /\ MaxScan \in Nat \ {0}

VARIABLES
    input,   \* the pages of the API
    call,    \* the local variables of the running call
    answer   \* what the client has got, its token, and how the last call ended

vars == <<input, call, answer>>

NoCall == [pc |-> "idle"]
Start(f) == [token |-> 0, offset |-> 0, fingerprint |-> f]

(* What a client holds that starts a query.                                *)
Fresh(f) == [got |-> <<>>, cursor |-> Start(f), outcome |-> "ask", truncated |-> FALSE,
             count |-> 0, excluded |-> 0, warning |-> "none"]

Init ==
    /\ input \in PageInputs
    /\ call = NoCall
    /\ answer \in {Fresh(f) : f \in Filters}

-----------------------------------------------------------------------------
NextToken(k) == IF k < Len(input) THEN k + 1 ELSE 0
PageOf(token) == IF token = 0 THEN 1 ELSE token

(* "" matches every profile; a target matches the deployments whose name   *)
(* contains it, whatever their case and separators: targets is that set.   *)
(* Time 0 is no bound, and a profile without a time is excluded when there *)
(* is one, which the caller counts.                                        *)
Timed(f) == f.start # 0 \/ f.end # 0
OfKind(f, meta) ==
    /\ f.type = "" \/ meta.type = f.type
    /\ f.targets = {} \/ meta.target \in f.targets
Match(f, meta) ==
    /\ OfKind(f, meta)
    /\ Timed(f) => /\ meta.time # 0
                   /\ f.start # 0 => meta.time >= f.start
                   /\ f.end # 0 => meta.time <= f.end
ParseErr(f, meta) == OfKind(f, meta) /\ Timed(f) /\ meta.time = 0

-----------------------------------------------------------------------------
(* The cursor carries the filter set; one of another query is refused.     *)
ListProfiles(f, size) ==
    /\ call = NoCall /\ answer.outcome \in {"ask", "error"}
    /\ answer.cursor.fingerprint = f
    /\ call' = [pc |-> "page", filter |-> f, size |-> size,
                pageStart |-> answer.cursor.token, offset |-> answer.cursor.offset,
                resume |-> answer.cursor, scanned |-> 0, i |-> 0,
                found |-> <<>>, excluded |-> 0, targetsSeen |-> {}]
    /\ UNCHANGED <<input, answer>>

(* decodeProfileCursor refuses; the client has to start over.              *)
CursorMismatch(f) ==
    /\ call = NoCall /\ answer.outcome = "ask"
    /\ answer.cursor.fingerprint # f /\ answer.cursor # Start(answer.cursor.fingerprint)
    /\ answer' = Fresh(f)
    /\ UNCHANGED <<input, call>>

(* A page was read; a cursor beyond its end is invalid.                    *)
NextPage ==
    /\ call.pc = "page"
    /\ call.offset <= Len(input[PageOf(call.pageStart)])
    /\ call' = [call EXCEPT !.pc = "scan", !.i = call.offset + 1]
    /\ UNCHANGED <<input, answer>>

PageFailed ==
    /\ call.pc = "page"
    /\ answer' = [answer EXCEPT !.outcome = "error"]
    /\ call' = NoCall
    /\ UNCHANGED input

-----------------------------------------------------------------------------
Page == input[PageOf(call.pageStart)]
Following == NextToken(PageOf(call.pageStart))

(* Where a call resumes that has examined profile i of the page.           *)
(* Variant: resumes at the profile that was examined.                      *)
After_Again(i) ==
    IF i < Len(Page)
    THEN [call.resume EXCEPT !.token = call.pageStart, !.offset = i - 1]
    ELSE [call.resume EXCEPT !.token = Following, !.offset = 0]

After(i) ==
    IF i < Len(Page)
    THEN [call.resume EXCEPT !.token = call.pageStart, !.offset = i]
    ELSE [call.resume EXCEPT !.token = Following, !.offset = 0]

(* The last profile there is has been examined.                            *)
AtEnd(cursor) == cursor.token = 0 /\ cursor.offset = 0

Return(c, truncated, warning) ==
    /\ answer' = [got |-> answer.got \o c.found,
                  cursor |-> (IF truncated THEN c.resume ELSE Start(c.filter)),
                  outcome |-> (IF truncated THEN "ask" ELSE "done"),
                  truncated |-> truncated, count |-> Len(c.found),
                  excluded |-> c.excluded, warning |-> warning]
    /\ call' = NoCall

Examined ==
    LET meta == Page[call.i]
        more == IF Match(call.filter, meta) THEN <<meta>> ELSE <<>>
    IN [call EXCEPT
          !.scanned = @ + 1, !.i = @ + 1,
          !.resume = After(call.i),
          !.found = @ \o more,
          !.excluded = @ + (IF ParseErr(call.filter, meta) THEN 1 ELSE 0),
          !.targetsSeen = @ \union ({meta.target} \ {""})]

CanExamine == call.pc = "scan" /\ call.i <= Len(Page) /\ call.scanned < MaxScan

(* The page of results is full.                                            *)
Full ==
    /\ CanExamine
    /\ Match(call.filter, Page[call.i]) /\ Len(call.found) + 1 = call.size
    /\ Return(Examined, ~ AtEnd(Examined.resume), "none")
    /\ UNCHANGED input

Examine ==
    /\ CanExamine
    /\ ~ (Match(call.filter, Page[call.i]) /\ Len(call.found) + 1 = call.size)
    /\ call' = Examined
    /\ UNCHANGED <<input, answer>>

EndOfPage ==
    /\ call.pc = "scan" /\ ~ CanExamine
    /\ Following # 0 /\ call.scanned < MaxScan
    /\ call' = [call EXCEPT !.pc = "page", !.pageStart = Following, !.offset = 0]
    /\ UNCHANGED <<input, answer>>

(* The scan stopped at its limit, or there are no more pages.              *)
EndOfScan ==
    /\ call.pc = "scan" /\ ~ CanExamine
    /\ Following = 0 \/ call.scanned >= MaxScan
    /\ LET truncated == call.scanned >= MaxScan /\ ~ AtEnd(call.resume)
       IN Return(call, truncated,
                 IF truncated THEN "limit"
                 ELSE IF call.filter.targets # {} /\ call.found = <<>> THEN "no such target"
                 ELSE "none")
    /\ UNCHANGED input

(* The client is done and starts another query.                            *)
NewQuery(f) ==
    /\ call = NoCall /\ answer.outcome = "done"
    /\ answer' = Fresh(f)
    /\ UNCHANGED <<input, call>>

Next ==
    \/ \E f \in Filters : (\E n \in PageSizes : ListProfiles(f, n)) \/ CursorMismatch(f) \/ NewQuery(f)
    \/ NextPage \/ PageFailed \/ Full \/ Examine \/ EndOfPage \/ EndOfScan

Spec == Init /\ [][Next]_vars

-----------------------------------------------------------------------------
(* Where the API has profiles, by page and place in it; and the place of a *)
(* match among the matches of a filter.                                    *)
Positions == UNION {{k} \X DOMAIN input[k] : k \in DOMAIN input}
MetaAt(p) == input[p[1]][p[2]]
UpTo(q, p) == q[1] < p[1] \/ (q[1] = p[1] /\ q[2] <= p[2])
Matches(f) == {p \in Positions : Match(f, MetaAt(p))}
Place(f, p) == Cardinality({q \in Matches(f) : UpTo(q, p)})

(* Whatever the sizes of the pages and wherever the calls stop, are        *)
(* repeated after a failure, or turn to another filter: what a client has  *)
(* put together is the beginning of the list of all matches, in order, and *)
(* the whole list once it gets no more token; only a full or a limited     *)
(* page carries one (profiler.go:118-201).                                 *)
PagingExact ==
    LET f == answer.cursor.fingerprint
    IN /\ Len(answer.got) <= Cardinality(Matches(f))
       /\ \A p \in Matches(f) : Place(f, p) <= Len(answer.got) => answer.got[Place(f, p)] = MetaAt(p)
       /\ answer.outcome = "done" => Len(answer.got) = Cardinality(Matches(f))
       /\ answer.truncated => answer.warning = "limit" \/ answer.count \in PageSizes
===============================================================================
