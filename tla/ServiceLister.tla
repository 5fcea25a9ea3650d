------------------------------ MODULE ServiceLister ------------------------------
(***************************************************************************)
(* The cached discovery of service names for completions                   *)
(* (server/completion.go, newCachedServiceLister).  One mutex covers the   *)
(* whole call, the scan of the logs included.                              *)
(***************************************************************************)
EXTENDS Naturals

CONSTANTS
    Callers,   \* completion requests
    Timeout,   \* serviceCompletionTimeout, in ticks
    Cooldown,  \* serviceCompletionRetryCooldown, in ticks
    NoCaller

ListerAssumption ==
    Timeout \in Nat /\ Cooldown \in Nat \ {0} /\ NoCaller \notin Callers

VARIABLES
    mu,      \* who holds the mutex
    caller,  \* where each call is
    loaded,  \* whether a list is cached
    retry,   \* time until nextRetry
    left,    \* time until the scan times out
    scan,    \* history of the last scan: "none", "running", "ok" or "failed",
    since    \* and the time since it failed, up to Cooldown

vars == <<mu, caller, loaded, retry, left, scan, since>>

Init ==
    /\ mu = NoCaller /\ caller = [c \in Callers |-> "idle"]
    /\ loaded = FALSE /\ retry = 0 /\ left = 0
    /\ scan = "none" /\ since = 0

Goto(c, pc) == caller' = [caller EXCEPT ![c] = pc]
Return(c) == Goto(c, "idle") /\ mu' = NoCaller

Call(c) ==
    /\ caller[c] = "idle"
    /\ Goto(c, "lock")
    /\ UNCHANGED <<mu, loaded, retry, left, scan, since>>

(* mu.Lock is not interrupted by the end of the caller's context.          *)
Lock(c) ==
    /\ caller[c] = "lock" /\ mu = NoCaller
    /\ mu' = c /\ Goto(c, "check")
    /\ UNCHANGED <<loaded, retry, left, scan, since>>

(* The cached list, or nothing while the cooldown lasts.                   *)
Answer(c) ==
    /\ caller[c] = "check" /\ (loaded \/ retry > 0)
    /\ Return(c)
    /\ UNCHANGED <<loaded, retry, left, scan, since>>

(* Variant: the mutex is given up during the scan.                         *)
Fetch_Unlocked(c) ==
    /\ caller[c] = "check" /\ ~ loaded /\ retry = 0
    /\ Goto(c, "fetch") /\ left' = Timeout /\ scan' = "running"
    /\ mu' = NoCaller
    /\ UNCHANGED <<loaded, retry, since>>

Fetch(c) ==
    /\ caller[c] = "check" /\ ~ loaded /\ retry = 0
    /\ Goto(c, "fetch") /\ left' = Timeout /\ scan' = "running"
    /\ UNCHANGED <<mu, loaded, retry, since>>

Fetched(c) ==
    /\ caller[c] = "fetch"
    /\ loaded' = TRUE /\ scan' = "ok"
    /\ Return(c)
    /\ UNCHANGED <<retry, left, since>>

(* The scan failed, timed out, or the caller went away: all start the      *)
(* cooldown.                                                               *)
FetchFailed(c) ==
    /\ caller[c] = "fetch"
    /\ retry' = Cooldown /\ scan' = "failed" /\ since' = 0
    /\ Return(c)
    /\ UNCHANGED <<loaded, left>>

Tick ==
    /\ scan = "running" => left > 0
    /\ retry' = (IF retry > 0 THEN retry - 1 ELSE 0)
    /\ left' = (IF scan = "running" THEN left - 1 ELSE left)
    /\ since' = (IF since < Cooldown THEN since + 1 ELSE since)
    /\ UNCHANGED <<mu, caller, loaded, scan>>

Step(c) == Lock(c) \/ Answer(c) \/ Fetch(c)

Next ==
    \/ \E c \in Callers : Call(c) \/ Step(c) \/ Fetched(c) \/ FetchFailed(c)
    \/ Tick

Spec == Init /\ [][Next]_vars

-----------------------------------------------------------------------------
(* The logs are scanned once at a time, never again once a list is cached, *)
(* and not before the cooldown of a failure has passed, whoever types and  *)
(* however the last scan failed (completion.go:157, 171-190).              *)
ScansAreRare ==
    [][\A c \in Callers :
         caller[c] # "fetch" /\ caller'[c] = "fetch" =>
           /\ \A d \in Callers : caller[d] # "fetch"
           /\ scan = "none" \/ (scan = "failed" /\ since = Cooldown)]_vars

(* A completion is answered although others scan before it                 *)
(* (completion.go:172).                                                    *)
CompletionAnswered == \A c \in Callers : caller[c] = "lock" ~> caller[c] = "idle"
===============================================================================
