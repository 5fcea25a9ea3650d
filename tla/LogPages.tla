-------------------------------- MODULE LogPages --------------------------------
(***************************************************************************)
(* The listings that pass the page tokens of Google APIs through: log      *)
(* entries (gcpdata/logs.go), traces (gcpdata/traces.go) and the events of *)
(* an error group (gcpdata/errors.go), and a client that follows them.     *)
(*                                                                         *)
(* All read from an iterator of the client library, which fetches pages    *)
(* and hands out the entries of the one it has buffered; its token is that *)
(* of the page after it.  The API holds entries 1..n.  A token says after  *)
(* which entry a page begins, and how many pages without entries led there.*)
(***************************************************************************)
EXTENDS Naturals, Sequences

CONSTANTS
    Listings,   \* some of "logs", "traces", "events"
    Sizes,      \* how many entries the API may hold
    PageLimits, \* limits clients ask with, at most LogsHardLimit for logs
    MaxEmpty    \* how many pages without entries may follow one another

(* What the tools ask for (clampLimit): at least one entry a call.         *)
ListingConstants ==
    Sizes \subseteq Nat /\ PageLimits \subseteq Nat \ {0} /\ MaxEmpty \in Nat

VARIABLES
    input,   \* what is listed: [listing, n, limit]
    call,    \* the local variables of the running call and its iterator
    answer   \* what the client has got, its token, and how the last call ended

vars == <<input, call, answer>>

NoToken == [after |-> 0, empty |-> 0]
NoCall == [pc |-> "idle"]

(* What the client has got; the page of the last call that returned one    *)
(* and the entry after which that call began; and short, which is no part  *)
(* of the code: it says whether the calls answered so far had met a page   *)
(* with fewer entries than were asked for and left.                        *)
Fresh == [got |-> <<>>, token |-> NoToken, outcome |-> "ask", page |-> <<>>, from |-> 0, short |-> FALSE]

Init ==
    /\ input \in [listing : Listings, n : Sizes, limit : PageLimits]
    /\ call = NoCall
    /\ answer = Fresh

Entries(from, k) == [i \in 1..k |-> from + i]
Least(a, b) == IF a < b THEN a ELSE b

-----------------------------------------------------------------------------
(* The API.  A page may hold fewer entries than asked for, and none when   *)
(* nothing was found within one request; it ends with a page without a     *)
(* token, at the last entry or later.                                      *)
Full(token) == Least(input.limit, input.n - token.after)
PageSizesAt(token) ==
    {Full(token)} \union 1..Full(token) \union (IF token.empty < MaxEmpty THEN {0} ELSE {})
TokensAfter(token, k) ==
    LET next == [after |-> token.after + k, empty |-> IF k = 0 THEN token.empty + 1 ELSE 0]
    IN IF token.after + k < input.n THEN {next}
       ELSE {NoToken} \union (IF next.empty <= MaxEmpty /\ next # NoToken THEN {next} ELSE {})

-----------------------------------------------------------------------------
Begin ==
    /\ call = NoCall /\ answer.outcome \in {"ask", "error"}
    /\ call' = [pc |-> "read", start |-> answer.token, token |-> answer.token,
                buf |-> <<>>, atEnd |-> FALSE, entries |-> <<>>, short |-> answer.short]
    /\ UNCHANGED <<input, answer>>

Reading == call.pc = "read" /\ Len(call.entries) < input.limit

(* Next fetches pages until one has entries or there are no more.          *)
Fetch ==
    /\ Reading /\ call.buf = <<>> /\ ~ call.atEnd
    /\ \E k \in PageSizesAt(call.token) : \E next \in TokensAfter(call.token, k) :
         call' = [call EXCEPT !.buf = Entries(call.token.after, k),
                              !.token = next, !.atEnd = (next = NoToken),
                              !.short = @ \/ (k # 0 /\ k < Full(call.token))]
    /\ UNCHANGED <<input, answer>>

Take ==
    /\ Reading /\ call.buf # <<>>
    /\ call' = [call EXCEPT !.entries = Append(@, Head(call.buf)), !.buf = Tail(@)]
    /\ UNCHANGED <<input, answer>>

Return(token, outcome) ==
    /\ answer' = [got |-> answer.got \o call.entries, token |-> token,
                  outcome |-> outcome, page |-> call.entries,
                  from |-> call.start.after, short |-> call.short]
    /\ call' = NoCall
    /\ UNCHANGED input

Fail ==
    /\ answer' = [answer EXCEPT !.outcome = "error"]
    /\ call' = NoCall
    /\ UNCHANGED input

(* The limit is reached, or the iterator is done.                          *)
Finish ==
    /\ call.pc = "read"
    /\ Len(call.entries) >= input.limit \/ (call.buf = <<>> /\ call.atEnd)
    /\ input.listing = "events" => call.entries # <<>>
    /\ Return(call.token, IF call.token = NoToken THEN "done" ELSE "ask")

(* An error group without events is an error.                              *)
NoEvents ==
    /\ call.pc = "read" /\ input.listing = "events"
    /\ call.entries = <<>> /\ call.buf = <<>> /\ call.atEnd
    /\ answer' = [answer EXCEPT !.outcome = "done", !.page = <<>>, !.from = call.start.after]
    /\ call' = NoCall
    /\ UNCHANGED input

Failing == Reading /\ call.buf = <<>> /\ ~ call.atEnd

(* The time budget of a log query ran out after it moved: the page that    *)
(* was not fetched is where the next call goes on.                         *)
Moved == call.entries # <<>> \/ call.token # call.start
ScanIncomplete ==
    /\ Failing /\ input.listing = "logs"
    /\ Moved /\ call.token # NoToken
    /\ Return(call.token, "ask")

(* Traces that were read before an error are returned without a token.     *)
StoppedOnError ==
    /\ Failing /\ input.listing = "traces" /\ call.entries # <<>>
    /\ Return(NoToken, "stopped")

(* Any other failure, and a budget that ran out at once, fails the call.   *)
FetchFailed ==
    /\ Failing
    /\ input.listing = "traces" => call.entries = <<>>
    /\ Fail

(* The client starts over.                                                 *)
Again ==
    /\ call = NoCall /\ answer.outcome \in {"done", "stopped"}
    /\ answer' = Fresh
    /\ UNCHANGED <<input, call>>

Next ==
    \/ Begin \/ Fetch \/ Take \/ Finish \/ NoEvents
    \/ ScanIncomplete \/ StoppedOnError \/ FetchFailed \/ Again

Spec == Init /\ [][Next]_vars

-----------------------------------------------------------------------------
(* However often calls fail, run out of time or find short pages or pages  *)
(* without entries, a client that follows the tokens gets no entry twice   *)
(* and each after those before it.  A call answers consecutive entries,    *)
(* from where the token it was given says; one that stops short of its     *)
(* limit, because its time is over or nothing is left, answers a token     *)
(* that goes on right after them.  While every page with entries is full,  *)
(* nothing is skipped at all (logs.go:201-222, traces.go:81-123,           *)
(* errors.go:192-230).                                                     *)
Reached == IF answer.outcome = "done" THEN input.n ELSE answer.token.after
NoEntryRepeated ==
    /\ \A k \in DOMAIN answer.got : answer.got[k] \in 1..input.n
    /\ \A j, k \in DOMAIN answer.got : j < k => answer.got[j] < answer.got[k]
PageConsecutive ==
    /\ Len(answer.page) <= input.limit
    /\ answer.page = Entries(answer.from, Len(answer.page))
    /\ answer.outcome # "stopped" /\ Len(answer.page) < input.limit =>
         Reached = answer.from + Len(answer.page)
WholeIfFull ==
    ~ answer.short =>
      /\ answer.got = Entries(0, Len(answer.got))
      /\ answer.outcome = "done" => Len(answer.got) = input.n

ListingSound == NoEntryRepeated /\ PageConsecutive /\ WholeIfFull

(* "Use logs_query for full results with pagination" (logs.go:410): a      *)
(* client that has followed the tokens to the end has every entry.  It has *)
(* not, when a call met a short page and reached its limit within the      *)
(* next: the token is that of the page after, and what the iterator still  *)
(* held of this one is in no answer (logs.go:203, 219-220).                *)
PaginationIsFull == answer.outcome = "done" => Len(answer.got) = input.n
===============================================================================
