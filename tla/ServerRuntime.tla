------------------------------ MODULE ServerRuntime ------------------------------
(***************************************************************************)
(* What runs in a server process around the tools: the limits on calls     *)
(* (ToolLimits), serving and stopping (HTTPShutdown) and the discovery of  *)
(* services for completions (ServiceLister).                               *)
(*                                                                         *)
(* The three share no state in the code: the goroutines of one neither     *)
(* block nor enable those of another.  A behaviour therefore moves only    *)
(* one of them, chosen at the start, and the others stay where they begin. *)
(***************************************************************************)
EXTENDS ToolLimits

CONSTANTS
    Requests, Drain,                                       \* HTTPShutdown
    Callers, Timeout, Cooldown, NoCaller                   \* ServiceLister

VARIABLES
    part,
    ctx, main, stopper, listener, drain, done, exited, request, pool, store, result,
    mu, caller, loaded, retry, left, scan, since

HTTP == INSTANCE HTTPShutdown WITH left <- drain
Lister == INSTANCE ServiceLister

ASSUME RuntimeAssumption ==
    LimitsAssumption /\ HTTP!DrainAssumption /\ Lister!ListerAssumption

httpVars == <<ctx, main, stopper, listener, drain, done, exited, request, pool, store, result>>
listerVars == <<mu, caller, loaded, retry, left, scan, since>>
vars == <<part, limitsVars, httpVars, listerVars>>

Init ==
    /\ part \in {"limits", "http", "lister"}
    /\ LimitsInit /\ HTTP!Init /\ Lister!Init

OnlyLimits == part = "limits" /\ UNCHANGED <<part, httpVars, listerVars>>
OnlyHTTP == part = "http" /\ UNCHANGED <<part, limitsVars, listerVars>>
OnlyLister == part = "lister" /\ UNCHANGED <<part, limitsVars, httpVars>>

Next ==
    \/ OnlyLimits /\ LimitsNext
    \/ OnlyHTTP /\ HTTP!Next
    \/ OnlyLister /\ Lister!Next

(* Goroutines run and timers fire.  The handler of a tool returns once its *)
(* context has ended; a tool without a deadline returns by itself, a scan  *)
(* need not.                                                               *)
FairLimits ==
    /\ \A c \in Calls :
         /\ WF_vars(OnlyLimits /\ Serve(c))
         /\ WF_vars(OnlyLimits /\ Expire(c))
         /\ WF_vars(OnlyLimits /\ Finish(c) /\ (call[c].ctx # "alive" \/ ~ call[c].scan))
    /\ WF_vars(OnlyLimits /\ Tick)

(* Neither requests nor signals need to come to an end.                    *)
FairHTTP ==
    /\ WF_vars(OnlyHTTP /\ HTTP!Stopper)
    /\ WF_vars(OnlyHTTP /\ HTTP!Main)
    /\ WF_vars(OnlyHTTP /\ HTTP!Tick)

(* Go's mutex hands itself to a waiter that starves.  A scan ends with its *)
(* timeout at the latest.                                                  *)
FairLister ==
    /\ \A c \in Callers :
         /\ SF_vars(OnlyLister /\ Lister!Lock(c))
         /\ WF_vars(OnlyLister /\ (Lister!Answer(c) \/ Lister!Fetch(c)))
         /\ WF_vars(OnlyLister /\ left = 0 /\ Lister!FetchFailed(c))
    /\ WF_vars(OnlyLister /\ Lister!Tick)

Spec == Init /\ [][Next]_vars /\ FairLimits /\ FairHTTP /\ FairLister

-----------------------------------------------------------------------------
(* Nothing is closed under a request after a signal (transport.go:120).    *)
ClosedAfterDrain == HTTP!ClosedAfterDrain

(* Service names are discovered once (completion.go:164).                  *)
ScansAreRare == Lister!ScansAreRare

(* Whoever waits for the process is answered: tool calls, completions, and *)
(* the shutdown (server.go:166, completion.go:172, transport.go:81).       *)
NobodyWaitsForever ==
    EveryCallAnswered /\ Lister!CompletionAnswered /\ HTTP!StopsCompletely
===============================================================================
