------------------------------ MODULE HTTPShutdown ------------------------------
(***************************************************************************)
(* Serving and stopping over HTTP (server/transport.go): serveHTTP with    *)
(* its shutdown goroutine, the two channels between them, and the deferred *)
(* Close calls of runHTTPWithAuth.                                         *)
(*                                                                         *)
(* net/http, modelled from its use: Shutdown closes the listener, which    *)
(* makes ListenAndServe return ErrServerClosed at once, and waits until no *)
(* connection is active; Close cuts the connections, but the handlers run  *)
(* on until they notice.                                                   *)
(***************************************************************************)
EXTENDS Naturals

CONSTANTS
    Requests,  \* HTTP requests in flight
    Drain      \* the bound on the graceful drain, in ticks

DrainAssumption == Drain \in Nat

VARIABLES
    ctx,       \* the context of the process
    main,      \* serveHTTP and the deferred calls after it
    stopper,   \* the shutdown goroutine
    listener,
    left,      \* time left to drain
    done,      \* shutdownDone: a buffered channel of one
    exited,    \* whether serverExited is closed
    request,
    pool, store,
    result     \* what serveHTTP returned

vars == <<ctx, main, stopper, listener, left, done, exited, request, pool, store, result>>
http == <<listener, request>>

Init ==
    /\ ctx = "alive" /\ main = "listen" /\ stopper = "select"
    /\ listener = "open" /\ left = Drain
    /\ done = "empty" /\ exited = FALSE
    /\ request = [r \in Requests |-> "none"]
    /\ pool = "open" /\ store = "open" /\ result = "none"

Active == {r \in Requests : request[r] = "active"}

-----------------------------------------------------------------------------
(* The connections.  A request stays active for as long as it likes: a     *)
(* streamable client holds a GET open.                                     *)
Accept(r) ==
    /\ main = "listen" /\ listener = "open" /\ request[r] = "none"
    /\ request' = [request EXCEPT ![r] = "active"]
    /\ UNCHANGED <<ctx, main, stopper, listener, left, done, exited, pool, store, result>>

Respond(r) ==
    /\ request[r] \in {"active", "cut"}
    /\ request' = [request EXCEPT ![r] = "none"]
    /\ UNCHANGED <<ctx, main, stopper, listener, left, done, exited, pool, store, result>>

(* SIGINT or SIGTERM; an in-flight request does not see this context.      *)
Signal ==
    /\ ctx = "alive" /\ ctx' = "done"
    /\ UNCHANGED <<main, stopper, left, done, exited, http, pool, store, result>>

-----------------------------------------------------------------------------
(* The shutdown goroutine.  When both channels are ready it takes either.  *)
StartDrain ==
    /\ stopper = "select" /\ ctx = "done"
    /\ stopper' = "drain"
    /\ listener' = IF listener = "open" THEN "shut" ELSE listener
    /\ UNCHANGED <<ctx, main, left, done, exited, request, pool, store, result>>

ServerExited ==
    /\ stopper = "select" /\ exited
    /\ stopper' = "send_nil"
    /\ UNCHANGED <<ctx, main, left, done, exited, http, pool, store, result>>

(* Shutdown returns: all connections are idle, or closing the listener     *)
(* failed.                                                                 *)
Drained ==
    /\ stopper = "drain" /\ Active = {}
    /\ stopper' \in {"send_nil", "send_err"}
    /\ UNCHANGED <<ctx, main, left, done, exited, http, pool, store, result>>

(* Shutdown returns DeadlineExceeded: the connections are cut.             *)
ForceClose ==
    /\ stopper = "drain" /\ left = 0
    /\ request' = [r \in Requests |-> IF r \in Active THEN "cut" ELSE request[r]]
    /\ stopper' = "send_nil"
    /\ UNCHANGED <<ctx, main, listener, left, done, exited, pool, store, result>>

SendDone ==
    /\ stopper \in {"send_nil", "send_err"} /\ done = "empty"
    /\ done' = (IF stopper = "send_nil" THEN "nil" ELSE "err")
    /\ stopper' = "ended"
    /\ UNCHANGED <<ctx, main, left, exited, http, pool, store, result>>

Tick ==
    /\ stopper = "drain" /\ left > 0
    /\ left' = left - 1
    /\ UNCHANGED <<ctx, main, stopper, done, exited, http, pool, store, result>>

-----------------------------------------------------------------------------
(* ListenAndServe cannot bind, or Accept fails for good.  Nothing is       *)
(* drained.                                                                *)
ListenFails ==
    /\ main = "listen" /\ listener = "open"
    /\ listener' = "failed" /\ exited' = TRUE
    /\ main' = "close_pool" /\ result' = "listen_error"
    /\ UNCHANGED <<ctx, stopper, left, done, request, pool, store>>

(* Variant: serveHTTP returns with ErrServerClosed.                        *)
ServerClosed_ReturnAtOnce ==
    /\ main = "listen" /\ listener = "shut"
    /\ exited' = TRUE
    /\ main' = "close_pool" /\ result' = "nil"
    /\ UNCHANGED <<ctx, stopper, left, done, http, pool, store>>

(* ErrServerClosed.                                                        *)
ServerClosed ==
    /\ main = "listen" /\ listener = "shut"
    /\ exited' = TRUE
    /\ main' = "wait"
    /\ UNCHANGED <<ctx, stopper, left, done, http, pool, store, result>>

ReceiveDone ==
    /\ main = "wait" /\ done # "empty"
    /\ done' = "empty" /\ result' = done
    /\ main' = "close_pool"
    /\ UNCHANGED <<ctx, stopper, left, exited, http, pool, store>>

(* The deferred calls, last first.  What pool.Close does is in UserPool.   *)
ClosePool ==
    /\ main = "close_pool"
    /\ pool' = "closed" /\ main' = "close_store"
    /\ UNCHANGED <<ctx, stopper, left, done, exited, http, store, result>>

CloseStore ==
    /\ main = "close_store"
    /\ store' = "closed" /\ main' = "returned"
    /\ UNCHANGED <<ctx, stopper, left, done, exited, http, pool, result>>

Stopper == StartDrain \/ ServerExited \/ Drained \/ ForceClose \/ SendDone
Main == ServerClosed \/ ReceiveDone \/ ClosePool \/ CloseStore

(* Everything has ended.                                                   *)
Over == main = "returned" /\ stopper = "ended" /\ UNCHANGED vars

Next ==
    \/ \E r \in Requests : Accept(r) \/ Respond(r)
    \/ Signal \/ Stopper \/ Tick \/ ListenFails \/ Main \/ Over

Spec == Init /\ [][Next]_vars

-----------------------------------------------------------------------------
(* After a signal the clients and the store are closed only when the drain *)
(* is over and no request is served any more on a live connection; the     *)
(* store outlives the pool that reads it (transport.go:120, 225-236).      *)
ClosedAfterDrain ==
    /\ pool = "closed" /\ listener = "shut" => Active = {} /\ stopper = "ended"
    /\ store = "closed" => pool = "closed"

(* A signal ends serveHTTP although requests never finish; and whatever    *)
(* ended it, its goroutine ends too (transport.go:90-123).                 *)
StopsCompletely ==
    /\ ctx = "done" ~> main = "returned"
    /\ main = "returned" ~> stopper = "ended"
===============================================================================
