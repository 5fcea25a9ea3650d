------------------------------- MODULE UserPool -------------------------------
(***************************************************************************)
(* The pool of per-user assemblies of server/userpool.go: an MCP server    *)
(* and a set of Google Cloud clients per signed-in user, built by the      *)
(* user's first request, shared by the concurrent ones, torn down by the   *)
(* janitor when idle, by a newcomer when the pool is full, or by Close.    *)
(*                                                                         *)
(* p.mu is held only inside one action each; builds, the closing of        *)
(* clients and the requests themselves run outside it.                     *)
(***************************************************************************)
EXTENDS Integers, FiniteSets

CONSTANTS
    Users,     \* Google subjects
    Requests,  \* HTTP requests in flight at once
    Entries,   \* userEntry objects; an id is used again once it is garbage
    Tokens,    \* Google access tokens, by the time they expire
    MaxUsers,  \* userPoolMaxUsers
    MaxCalls,  \* maxConcurrentUserCalls
    IdleTTL,   \* userPoolIdleTTL, in ticks
    CanStop,   \* whether the server may be shut down
    NoEntry

ASSUME PoolAssumption ==
    /\ MaxUsers \in Nat \ {0} /\ MaxCalls \in Nat \ {0} /\ IdleTTL \in Nat
    /\ CanStop \in BOOLEAN
    /\ NoEntry \notin Entries

VARIABLES
    pool,    \* p.entries: the pooled entry of each user
    entry,   \* the userEntry objects
    req,     \* the requests
    swept,   \* the janitor's victims that are still to be closed
    server,  \* "up", then Close: "closing", "closed"
    taken,   \* the entries Close took out of the pool
    toClose, \* those its loop has not reached
    valid    \* the tokens that have not expired

vars == <<pool, entry, req, swept, server, taken, toClose, valid>>
shutdown == <<server, taken, toClose>>

(* build: ready closed or not, buildErr set or not.  conn: the clients     *)
(* behind e.closer; "twice" is a second Close on them.  age: time since    *)
(* lastUsed, counted up to one tick past IdleTTL.                          *)
Garbage == [build |-> "garbage"]

(* victim: the entry this request evicts before it builds its own.         *)
Idle == [pc |-> "idle"]

Init ==
    /\ pool = [u \in Users |-> NoEntry]
    /\ entry = [e \in Entries |-> Garbage]
    /\ req = [r \in Requests |-> Idle]
    /\ swept = {} /\ server = "up" /\ taken = {} /\ toClose = {}
    /\ valid = Tokens

Pooled == {pool[u] : u \in Users} \ {NoEntry}
InUse(r) == req[r].pc # "idle"
Holders(e) == {r \in Requests : InUse(r) /\ req[r].entry = e}

(* e.closer is nil until the build has succeeded.                          *)
closeEntry(e) ==
    entry' = [entry EXCEPT ![e].conn =
                CASE @ = "none" -> "none" [] @ = "open" -> "closed"
                  [] OTHER -> "twice"]

(* Variant: requests in flight do not protect an entry.                    *)
evictable_IgnoreInflight(e) == entry[e].build = "ready"

(* Variant: a build that has not finished does not protect an entry.       *)
evictable_Building(e) ==
    entry[e].build \in {"ready", "building"}
      /\ \A r \in Holders(e) : req[r].pc \in {"build", "evict"}

evictable(e) == entry[e].build = "ready" /\ entry[e].inflight = 0

-----------------------------------------------------------------------------
(* entryFor, the user has an entry: share it and wait for its build.       *)
Join(r, u, t) ==
    LET e == pool[u]
    IN  /\ ~ InUse(r) /\ t \in valid
        /\ e # NoEntry
        /\ entry' = [entry EXCEPT ![e].inflight = @ + 1, ![e].age = 0]
        /\ req' = [req EXCEPT ![r] = [pc |-> "wait", user |-> u, tok |-> t,
                                      entry |-> e, victim |-> NoEntry]]
        /\ UNCHANGED <<pool, swept, shutdown, valid>>

(* What the garbage collector may have reclaimed.                          *)
Unreferenced(e) ==
    /\ e \notin Pooled \cup swept \cup taken
    /\ \A r \in Requests : InUse(r) => e \notin {req[r].entry, req[r].victim}
    /\ entry[e] # Garbage => entry[e].conn # "open"

(* takeOneEvictableLocked: the least recently used evictable entry.        *)
LeastRecentlyUsed ==
    {e \in Pooled : /\ evictable(e)
                    /\ \A f \in Pooled : evictable(f) => entry[f].age <= entry[e].age}

(* entryFor, the user's first request: a full pool gives up an evictable   *)
(* entry, or rejects the request (errPoolFull) when it has none.           *)
Create(r, u, t) ==
    /\ ~ InUse(r) /\ t \in valid
    /\ pool[u] = NoEntry
    /\ \E e \in Entries,
          v \in IF Cardinality(Pooled) >= MaxUsers
                THEN LeastRecentlyUsed ELSE {NoEntry} :
         /\ Unreferenced(e)
         /\ pool' = [w \in Users |-> IF w = u THEN e
                                     ELSE IF pool[w] = v THEN NoEntry ELSE pool[w]]
         /\ entry' = [entry EXCEPT ![e] =
                        [user |-> u, build |-> "building", conn |-> "none",
                         age |-> 0, inflight |-> 1, calls |-> 0, ts |-> t]]
         /\ req' = [req EXCEPT ![r] =
                      [pc |-> IF v = NoEntry THEN "build" ELSE "evict",
                       user |-> u, tok |-> t, entry |-> e, victim |-> v]]
    /\ UNCHANGED <<swept, shutdown, valid>>

(* The evicted entry is closed outside the lock, before the build starts.  *)
CloseEvicted(r) ==
    /\ req[r].pc = "evict"
    /\ closeEntry(req[r].victim)
    /\ req' = [req EXCEPT ![r].pc = "build", ![r].victim = NoEntry]
    /\ UNCHANGED <<pool, swept, shutdown, valid>>

-----------------------------------------------------------------------------
(* runBuild.                                                               *)

(* finish *)
Built(r) ==
    /\ req[r].pc = "build"
    /\ entry' = [entry EXCEPT ![req[r].entry].build = "ready",
                              ![req[r].entry].conn = "open"]
    /\ req' = [req EXCEPT ![r].pc = "slot"]
    /\ UNCHANGED <<pool, swept, shutdown, valid>>

(* Variant: a panicking builder leaves the ready channel open.             *)
BuildFailed_NeverReady(r) ==
    /\ req[r].pc = "build"
    /\ req' = [req EXCEPT ![r].pc = "discard"]
    /\ UNCHANGED <<pool, entry, swept, shutdown, valid>>

(* fail: the builder returned an error or panicked.                        *)
BuildFailed(r) ==
    /\ req[r].pc = "build"
    /\ entry' = [entry EXCEPT ![req[r].entry].build = "failed"]
    /\ req' = [req EXCEPT ![r].pc = "discard"]
    /\ UNCHANGED <<pool, swept, shutdown, valid>>

(* The failed entry leaves the pool in a second critical section, by key.  *)
Discard(r) ==
    /\ req[r].pc = "discard"
    /\ pool' = [pool EXCEPT ![req[r].user] = NoEntry]
    /\ req' = [req EXCEPT ![r].pc = "release"]
    /\ UNCHANGED <<entry, swept, shutdown, valid>>

-----------------------------------------------------------------------------
(* A waiter: the build is done, and a successful one gets its token.       *)
Ready(r) ==
    LET e == req[r].entry
    IN  /\ req[r].pc = "wait"
        /\ \/ /\ entry[e].build = "failed"
              /\ req' = [req EXCEPT ![r].pc = "release"]
              /\ UNCHANGED entry
           \/ /\ entry[e].build = "ready"
              /\ entry' = [entry EXCEPT ![e].ts = req[r].tok]
              /\ req' = [req EXCEPT ![r].pc = "slot"]
        /\ UNCHANGED <<pool, swept, shutdown, valid>>

(* Variant: a canceled waiter returns no entry, so that nobody releases it. *)
Cancel_NoRelease(r) ==
    /\ req[r].pc = "wait"
    /\ req' = [req EXCEPT ![r] = Idle]
    /\ UNCHANGED <<pool, entry, swept, shutdown, valid>>

(* The caller goes away while it waits.                                    *)
Cancel(r) ==
    /\ req[r].pc = "wait"
    /\ req' = [req EXCEPT ![r].pc = "release"]
    /\ UNCHANGED <<pool, entry, swept, shutdown, valid>>

(* Variant: the limit is not looked at.                                    *)
TakeSlot_Unbounded(r) ==
    /\ req[r].pc = "slot"
    /\ req' = [req EXCEPT ![r].pc = "serve"]
    /\ UNCHANGED <<pool, entry, swept, shutdown, valid>>

(* A call slot of the entry, or 429 at once.                               *)
TakeSlot(r) ==
    LET e == req[r].entry
    IN  /\ req[r].pc = "slot"
        /\ \/ /\ entry[e].calls < MaxCalls
              /\ entry' = [entry EXCEPT ![e].calls = @ + 1]
              /\ req' = [req EXCEPT ![r].pc = "serve"]
           \/ /\ entry[e].calls = MaxCalls
              /\ req' = [req EXCEPT ![r].pc = "release"]
              /\ UNCHANGED entry
        /\ UNCHANGED <<pool, swept, shutdown, valid>>

(* The handler returns: the deferred calls give back the slot, then the    *)
(* entry.                                                                  *)
Served(r) ==
    /\ req[r].pc = "serve"
    /\ entry' = [entry EXCEPT ![req[r].entry].calls = @ - 1]
    /\ req' = [req EXCEPT ![r].pc = "release"]
    /\ UNCHANGED <<pool, swept, shutdown, valid>>

release(r) ==
    /\ req[r].pc = "release"
    /\ entry' = [entry EXCEPT ![req[r].entry].inflight = @ - 1]
    /\ req' = [req EXCEPT ![r] = Idle]
    /\ UNCHANGED <<pool, swept, shutdown, valid>>

-----------------------------------------------------------------------------
(* evictIdle and Close.                                                    *)

Expired == {e \in Pooled : evictable(e) /\ entry[e].age > IdleTTL}

(* Variant: the victims stay in the pool.                                  *)
evictIdle_KeepPooled ==
    /\ server # "closed"
    /\ swept = {} /\ Expired # {}
    /\ swept' = Expired
    /\ UNCHANGED <<pool, entry, req, shutdown, valid>>

(* The janitor's context ends before Close, but a sweep that has begun, or *)
(* a tick its select prefers, may still run next to it.                    *)
evictIdle ==
    /\ server # "closed"
    /\ swept = {} /\ Expired # {}
    /\ swept' = Expired
    /\ pool' = [u \in Users |-> IF pool[u] \in Expired THEN NoEntry ELSE pool[u]]
    /\ UNCHANGED <<entry, req, shutdown, valid>>

CloseSwept(e) ==
    /\ e \in swept
    /\ closeEntry(e)
    /\ swept' = swept \ {e}
    /\ UNCHANGED <<pool, req, shutdown, valid>>

(* Close, after a drain that is bounded: requests may outlive it.          *)
BeginClose ==
    /\ CanStop /\ server = "up"
    /\ server' = "closing"
    /\ taken' = Pooled
    /\ toClose' = Pooled
    /\ pool' = [u \in Users |-> NoEntry]
    /\ UNCHANGED <<entry, req, swept, valid>>

(* e.done() && e.closer != nil: an entry that is still building is left.   *)
CloseTaken(e) ==
    /\ e \in toClose
    /\ toClose' = toClose \ {e}
    /\ closeEntry(e)
    /\ UNCHANGED <<pool, req, swept, server, taken, valid>>

EndClose ==
    /\ server = "closing" /\ toClose = {}
    /\ server' = "closed"
    /\ UNCHANGED <<pool, entry, req, swept, taken, toClose, valid>>

-----------------------------------------------------------------------------
(* Time.                                                                   *)

Tick ==
    /\ entry' = [e \in Entries |->
                   IF entry[e] # Garbage /\ entry[e].age <= IdleTTL
                   THEN [entry[e] EXCEPT !.age = @ + 1] ELSE entry[e]]
    /\ UNCHANGED <<pool, req, swept, shutdown, valid>>

(* A Google token expires; the requests that presented it may go on.       *)
TokenExpires(t) ==
    /\ t \in valid
    /\ valid' = valid \ {t}
    /\ UNCHANGED <<pool, entry, req, swept, shutdown>>

-----------------------------------------------------------------------------
Arrive(r) == \E u \in Users, t \in Tokens : Join(r, u, t) \/ Create(r, u, t)

(* What a goroutine does on its own once the request is in: everything but *)
(* the caller's cancellation and the end of a handler, which may stream.   *)
Proceed(r) ==
    \/ CloseEvicted(r) \/ Built(r) \/ BuildFailed(r) \/ Discard(r)
    \/ Ready(r) \/ TakeSlot(r) \/ release(r)

Janitor == evictIdle \/ \E e \in Entries : CloseSwept(e)
Shutdown == BeginClose \/ (\E e \in Entries : CloseTaken(e)) \/ EndClose

Next ==
    \/ \E r \in Requests : Arrive(r) \/ Proceed(r) \/ Cancel(r) \/ Served(r)
    \/ Janitor \/ Shutdown \/ Tick
    \/ \E t \in Tokens : TokenExpires(t)

Spec == Init /\ [][Next]_vars

(* Goroutines run, a build returns or panics, the janitor's ticker fires   *)
(* and time passes; no request has to arrive, end or be canceled.          *)
Fairness ==
    /\ \A r \in Requests : WF_vars(Proceed(r))
    /\ WF_vars(Janitor)
    /\ WF_vars(Tick)

LiveSpec == Spec /\ Fairness

-----------------------------------------------------------------------------
(* Properties.                                                             *)

(* No request is served by an assembly whose clients are closed, however   *)
(* its arrival races with the janitor or with an eviction; shutdown is the *)
(* accepted exception.                                                     *)
NoUseAfterClose ==
    server = "up" =>
      \A r \in Requests :
        req[r].pc \in {"slot", "serve"} => entry[req[r].entry].conn = "open"

(* The janitor, a newcomer and Close hand no assembly to two closers.      *)
ClosedOnce == \A e \in Entries : entry[e] # Garbage => entry[e].conn # "twice"

(* An open set of clients is in the pool or in the hands of whoever will   *)
(* close it.                                                               *)
NothingLeaks ==
    server = "up" =>
      \A e \in Entries :
        entry[e] # Garbage /\ entry[e].conn = "open" =>
          \/ pool[entry[e].user] = e
          \/ e \in swept
          \/ \E r \in Requests : InUse(r) /\ req[r].victim = e

(* Singleflight: the requests of a user that wait, build or run all share  *)
(* the pooled entry, although a failed build is deleted by key; a failed   *)
(* entry stays in the pool no longer than its builder needs.               *)
OneAssemblyPerUser ==
    server = "up" =>
      /\ \A r \in Requests :
           InUse(r) /\ entry[req[r].entry].build # "failed"
             => pool[req[r].user] = req[r].entry
      /\ \A u \in Users :
           pool[u] # NoEntry /\ entry[pool[u]].build = "failed"
             => \E r \in Holders(pool[u]) : req[r].pc = "discard"

(* A user never has more than maxConcurrentUserCalls requests running,     *)
(* through evictions, failed builds and rebuilds.                          *)
UserConcurrency ==
    server = "up" =>
      \A u \in Users :
        Cardinality({r \in Requests : req[r].pc = "serve" /\ req[r].user = u})
          <= MaxCalls

(* A waiter never waits forever: a build that fails or panics releases it  *)
(* (userpool.go:249).                                                      *)
WaiterAnswered == \A r \in Requests : (req[r].pc = "wait") ~> (req[r].pc # "wait")

(* No assembly stays open and unused for good: the janitor gets it, no     *)
(* request having leaked its inflight count on the way out                 *)
(* (userpool.go:207, 338).                                                 *)
IdleIsEvicted ==
    \A e \in Entries :
      []<>~(entry[e] # Garbage /\ entry[e].conn = "open" /\ Holders(e) = {})

(* Whatever builds fail and whoever goes away, neither requests nor        *)
(* assemblies are forgotten (userpool.go:190-340).                         *)
NobodyIsForgotten == WaiterAnswered /\ IdleIsEvicted

(* Close, as its comment has it: "Close tears down every pooled assembly". *)
CloseTearsDownAll ==
    server = "closed" => \A e \in taken : entry[e].conn # "open"

(* What accessClaims says of the embedded Google token: a request whose    *)
(* own token is valid calls Google with a valid token.                     *)
TokenAlwaysValid ==
    \A r \in Requests :
      req[r].pc = "serve" /\ req[r].tok \in valid
        => entry[req[r].entry].ts \in valid
===============================================================================
