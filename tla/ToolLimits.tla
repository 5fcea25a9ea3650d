------------------------------- MODULE ToolLimits -------------------------------
(***************************************************************************)
(* The limits on tools/call of server/server.go (toolLimitsMiddleware):    *)
(* concurrent calls per server instance, profiler scans per process, and   *)
(* one deadline for a scan and its wait.                                   *)
(*                                                                         *)
(* Both limits are buffered channels used as semaphores.  A channel is the *)
(* number of its slots taken and the queue of its blocked senders, which   *)
(* Go serves in order of arrival.  ServerRuntime extends this module with  *)
(* the other parts of a process, and has the specification.                *)
(***************************************************************************)
EXTENDS Naturals, Sequences, FiniteSets

CONSTANTS
    Calls,      \* calls in progress
    Instances,  \* MCP server instances
    Instance,   \* the instance that each call is sent to
    UserCap,    \* cap(userCalls)
    ScanCap,    \* cap(profilerCalls)
    Budget      \* profilerBudget, in ticks

LimitsAssumption ==
    /\ Instance \in [Calls -> Instances]
    /\ UserCap \in Nat \ {0} /\ ScanCap \in Nat \ {0} /\ Budget \in Nat \ {0}

VARIABLES
    call,   \* the calls
    users,  \* the channel of each instance
    scans   \* the channel of the process

limitsVars == <<call, users, scans>>

Free == [taken |-> 0, queue |-> <<>>]
Idle == [pc |-> "idle"]

(* ctx: why the context of the call ended.  left: time to the deadline of  *)
(* a scan.  age: time since the call was admitted (no step reads it).      *)
NewCall(scan) ==
    [pc |-> "arrive", scan |-> scan, ctx |-> "alive",
     left |-> Budget, age |-> 0]

LimitsInit ==
    /\ call = [c \in Calls |-> Idle]
    /\ users = [i \in Instances |-> Free]
    /\ scans = Free

At(c, pc) == call[c].pc = pc
Move(c, pc) == call' = [call EXCEPT ![c].pc = pc]

Take(chan) == [chan EXCEPT !.taken = @ + 1]
Wait(chan, c) == [chan EXCEPT !.queue = Append(@, c)]

(* A sender that gives up leaves the line; it stands there at most once.   *)
Leave(chan, c) ==
    LET places == {k \in DOMAIN chan.queue : chan.queue[k] = c}
        k == CHOOSE k \in places : TRUE
    IN  IF places = {} THEN chan
        ELSE [chan EXCEPT !.queue = SubSeq(@, 1, k - 1) \o SubSeq(@, k + 1, Len(@))]

(* Variant: a slot that is handed to a waiter counts as given back too.    *)
Give_Twice(chan) ==
    [taken |-> chan.taken - 1,
     queue |-> IF chan.queue = <<>> THEN <<>> ELSE Tail(chan.queue)]

(* A receive: the slot goes to the first blocked sender, if there is one.  *)
Give(chan) ==
    IF chan.queue = <<>> THEN [chan EXCEPT !.taken = @ - 1]
                         ELSE [chan EXCEPT !.queue = Tail(@)]

(* With its user slot a call starts to run; a profiler tool sets its       *)
(* deadline and needs a second slot.                                       *)
Admitted(k) ==
    [k EXCEPT !.pc = IF k.scan THEN "scan_arrive" ELSE "run", !.left = Budget]
Granted(k) == [k EXCEPT !.pc = "run"]

(* c gives its slot back and goes on to pc; the first in line gets it.     *)
Release(c, chan, pc, Get(_)) ==
    call' = [d \in Calls |->
               CASE d = c -> [call[d] EXCEPT !.pc = pc]
                 [] chan.queue # <<>> /\ d = Head(chan.queue) -> Get(call[d])
                 [] OTHER -> call[d]]

-----------------------------------------------------------------------------
(* tools/call; scan: the tool is in profileScanTools.                      *)
Arrive(c, scan) ==
    /\ At(c, "idle")
    /\ call' = [call EXCEPT ![c] = NewCall(scan)]
    /\ UNCHANGED <<users, scans>>

(* acquireToolSlot on userCalls.                                           *)
AcquireUser(c) ==
    LET i == Instance[c]
    IN  /\ At(c, "arrive")
        /\ \/ /\ users[i].taken < UserCap
              /\ users' = [users EXCEPT ![i] = Take(@)]
              /\ call' = [call EXCEPT ![c] = Admitted(@)]
           \/ /\ users[i].taken = UserCap
              /\ users' = [users EXCEPT ![i] = Wait(@, c)]
              /\ Move(c, "user_wait")
        /\ UNCHANGED scans

(* The context ended first: the call never ran.  When the slot is there    *)
(* too, select chooses freely.                                             *)
AbortUser(c) ==
    /\ call[c].pc \in {"arrive", "user_wait"} /\ call[c].ctx # "alive"
    /\ users' = [users EXCEPT ![Instance[c]] = Leave(@, c)]
    /\ call' = [call EXCEPT ![c] = Idle]
    /\ UNCHANGED scans

(* Variant: the budget of the scan starts when its slot is granted.        *)
AcquireScan_NewBudget(c) ==
    /\ At(c, "scan_arrive")
    /\ \/ /\ scans.taken < ScanCap
          /\ scans' = Take(scans)
          /\ call' = [call EXCEPT ![c].pc = "run", ![c].left = Budget]
       \/ /\ scans.taken = ScanCap
          /\ scans' = Wait(scans, c)
          /\ Move(c, "scan_wait")
    /\ UNCHANGED users

(* acquireToolSlot on profilerCalls, with the user slot in hand.           *)
AcquireScan(c) ==
    /\ At(c, "scan_arrive")
    /\ \/ /\ scans.taken < ScanCap
          /\ scans' = Take(scans)
          /\ call' = [call EXCEPT ![c] = Granted(@)]
       \/ /\ scans.taken = ScanCap
          /\ scans' = Wait(scans, c)
          /\ Move(c, "scan_wait")
    /\ UNCHANGED users

AbortScan(c) ==
    /\ call[c].pc \in {"scan_arrive", "scan_wait"} /\ call[c].ctx # "alive"
    /\ scans' = Leave(scans, c)
    /\ Move(c, "done")
    /\ UNCHANGED users

(* The handler returns, or panics: the deferred receives run either way.   *)
(* The size of the result changes what is answered and no slot.            *)
Finish(c) ==
    /\ At(c, "run")
    /\ IF call[c].scan
       THEN /\ scans' = Give(scans)
            /\ Release(c, scans, "done", Granted)
       ELSE UNCHANGED scans /\ Move(c, "done")
    /\ UNCHANGED users

(* The outer deferred receive; the call is answered.                       *)
Answer(c) ==
    LET i == Instance[c]
    IN  /\ At(c, "done")
        /\ users' = [users EXCEPT ![i] = Give(@)]
        /\ Release(c, users[i], "idle", Admitted)
        /\ UNCHANGED scans

(* The client cancels the call or goes away.                               *)
Cancel(c) ==
    /\ call[c].pc \notin {"idle", "done"} /\ call[c].ctx = "alive"
    /\ call' = [call EXCEPT ![c].ctx = "cancelled"]
    /\ UNCHANGED <<users, scans>>

UnderDeadline(c) ==
    call[c].pc \in {"scan_arrive", "scan_wait", "run"} /\ call[c].scan
      /\ call[c].ctx = "alive"

(* Variant: the wait has the deadline, the scan has not.                   *)
Expire_WaitOnly(c) ==
    /\ call[c].pc \in {"scan_arrive", "scan_wait"} /\ call[c].ctx = "alive"
    /\ call[c].left = 0
    /\ call' = [call EXCEPT ![c].ctx = "budget"]
    /\ UNCHANGED <<users, scans>>

(* The deadline passes, for the wait and the scan alike; the cause is      *)
(* ErrProfilerScanBudget.                                                  *)
Expire(c) ==
    /\ UnderDeadline(c) /\ call[c].left = 0
    /\ call' = [call EXCEPT ![c].ctx = "budget"]
    /\ UNCHANGED <<users, scans>>

(* Time passes, but not over a timer that is due.                          *)
Tick ==
    /\ \E c \in Calls : UnderDeadline(c)
    /\ \A c \in Calls : UnderDeadline(c) => call[c].left > 0
    /\ call' = [c \in Calls |->
                  IF UnderDeadline(c)
                  THEN [call[c] EXCEPT !.left = @ - 1,
                                       !.age = IF @ > Budget THEN @ ELSE @ + 1]
                  ELSE call[c]]
    /\ UNCHANGED <<users, scans>>

Serve(c) ==
    \/ AcquireUser(c) \/ AbortUser(c) \/ AcquireScan(c)
    \/ AbortScan(c) \/ Answer(c)

LimitsNext ==
    \/ \E c \in Calls :
         \/ \E scan \in BOOLEAN : Arrive(c, scan)
         \/ Serve(c) \/ Finish(c) \/ Cancel(c) \/ Expire(c)
    \/ Tick

-----------------------------------------------------------------------------
Holding(pcs, i) == {c \in Calls : call[c].pc \in pcs /\ Instance[c] = i}

HoldUser(i) == Holding({"scan_arrive", "scan_wait", "run", "done"}, i)
HoldScan == {c \in Calls : At(c, "run") /\ call[c].scan}

(* A channel is exact when its slots are those of the calls that hold one, *)
(* nobody waits while a slot is free, and just the waiters are queued.     *)
Exact(chan, holders, waiting, limit) ==
    /\ chan.taken = Cardinality(holders) /\ chan.taken <= limit
    /\ chan.queue # <<>> => chan.taken = limit
    /\ {chan.queue[k] : k \in DOMAIN chan.queue} = waiting
    /\ Len(chan.queue) = Cardinality(waiting)

(* However calls finish, panic, are cancelled or run out of time, with one *)
(* slot or two in hand or while waiting for one, no slot is lost or shared *)
(* and no waiter is forgotten (server.go:166-183).                         *)
SlotsExact ==
    /\ \A i \in Instances : Exact(users[i], HoldUser(i), Holding({"user_wait"}, i), UserCap)
    /\ Exact(scans, HoldScan, {c \in Calls : At(c, "scan_wait")}, ScanCap)

(* A wait for a profiler slot is taken out of the budget of the scan: no   *)
(* scan runs on a live context longer than Budget after its call was       *)
(* admitted (server.go:171-186).                                           *)
OneBudget ==
    \A c \in Calls : At(c, "run") /\ call[c].scan /\ call[c].ctx = "alive" => call[c].age <= Budget

(* Every call is answered, although profiler tools hold one slot while     *)
(* they wait for another and a scan may hang (server.go:166-187).          *)
EveryCallAnswered == \A c \in Calls : ~ At(c, "idle") ~> At(c, "idle")
===============================================================================
