-------------------------- MODULE ServerRuntimeProofs --------------------------
(***************************************************************************)
(* Proofs about ServerRuntime for any calls, instances, requests, callers  *)
(* and limits: the slots of tools/call and the budget of a scan, closing   *)
(* after the drain, and the rarity of scans for completions.               *)
(***************************************************************************)
EXTENDS ServerRuntime, FiniteSetTheorems, SequenceTheorems, TLAPS

-----------------------------------------------------------------------------
(* Channels.                                                               *)

Channel == [taken : Nat, queue : Seq(Calls)]

Queued(queue) == {queue[k] : k \in DOMAIN queue}
Once(queue) ==
    \A j, k \in DOMAIN queue : queue[j] = queue[k] => j = k

(* Exact without the cardinality of the waiters, but with the finiteness   *)
(* and the distinctness from which it follows.                             *)
Balanced(chan, holders, waiting, limit) ==
    /\ IsFiniteSet(holders)
    /\ chan.taken = Cardinality(holders) /\ chan.taken <= limit
    /\ chan.queue # <<>> => chan.taken = limit
    /\ Queued(chan.queue) = waiting
    /\ Once(chan.queue)

(* A line in which nobody stands twice is as long as its waiters are many. *)
LEMMA BalancedIsExact ==
  ASSUME NEW chan \in Channel, NEW holders, NEW waiting, NEW limit,
         Balanced(chan, holders, waiting, limit)
  PROVE  Exact(chan, holders, waiting, limit)
<1> DEFINE q == chan.queue
<1>1. q \in Seq(Calls) /\ DOMAIN q = 1 .. Len(q) /\ Len(q) \in Nat
  BY LenProperties DEF Channel
<1>2. q \in Bijection(1 .. Len(q), waiting)
  <2>1. q \in [1 .. Len(q) -> waiting]
    BY <1>1 DEF Balanced, Queued
  <2>2. q \in Injection(1 .. Len(q), waiting)
    BY <1>1, <2>1 DEF Balanced, Once, Injection, IsInjective
  <2>3. q \in Surjection(1 .. Len(q), waiting)
    BY <1>1, <2>1 DEF Balanced, Queued, Surjection
  <2> QED
    BY <2>2, <2>3 DEF Bijection
<1>3. Cardinality(waiting) = Len(q)
  BY <1>1, <1>2, FS_CountingElements DEF ExistsBijection
<1> QED
  BY <1>3 DEF Balanced, Exact, Queued

(* A sender that finds a free slot finds no line before it.                *)
LEMMA TakeBalanced ==
  ASSUME NEW chan \in Channel, NEW holders, NEW waiting, NEW limit \in Nat,
         Balanced(chan, holders, waiting, limit),
         NEW c, c \notin holders, chan.taken < limit
  PROVE  /\ Take(chan) \in Channel
         /\ Balanced(Take(chan), holders \cup {c}, waiting, limit)
<1>1. /\ IsFiniteSet(holders \cup {c})
      /\ Cardinality(holders \cup {c}) = Cardinality(holders) + 1
  BY FS_AddElement DEF Balanced
<1>2. /\ Take(chan).taken = chan.taken + 1 /\ Take(chan).queue = chan.queue
      /\ Take(chan) \in Channel
  BY DEF Take, Channel
<1>3. chan.queue = <<>>
  BY DEF Balanced, Channel
<1> QED
  BY <1>1, <1>2, <1>3 DEF Balanced, Channel

(* A sender that finds no slot joins the line.                             *)
LEMMA WaitBalanced ==
  ASSUME NEW chan \in Channel, NEW holders, NEW waiting, NEW limit \in Nat,
         Balanced(chan, holders, waiting, limit),
         NEW c \in Calls, c \notin waiting, chan.taken = limit
  PROVE  /\ Wait(chan, c) \in Channel
         /\ Balanced(Wait(chan, c), holders, waiting \cup {c}, limit)
<1> DEFINE q == chan.queue
           p == Append(q, c)
<1>1. q \in Seq(Calls) /\ DOMAIN q = 1 .. Len(q) /\ Len(q) \in Nat
  BY LenProperties DEF Channel
<1>2. /\ p \in Seq(Calls) /\ Len(p) = Len(q) + 1 /\ DOMAIN p = 1 .. Len(p)
      /\ \A k \in 1 .. Len(q) : p[k] = q[k]
      /\ p[Len(q) + 1] = c
  BY <1>1, AppendProperties, LenProperties
<1>3. /\ Wait(chan, c).taken = chan.taken /\ Wait(chan, c).queue = p
      /\ Wait(chan, c) \in Channel
  BY <1>2 DEF Wait, Channel
<1> HIDE DEF p
<1>4. Queued(p) = waiting \cup {c}
  BY <1>1, <1>2 DEF Balanced, Queued
<1>5. Once(p)
  BY <1>1, <1>2 DEF Balanced, Once, Queued
<1> QED
  BY <1>3, <1>4, <1>5 DEF Balanced

(* A sender that gives up is taken out of the line.                        *)
LEMMA LeaveBalanced ==
  ASSUME NEW chan \in Channel, NEW holders, NEW waiting, NEW limit \in Nat,
         Balanced(chan, holders, waiting, limit), NEW c
  PROVE  /\ Leave(chan, c) \in Channel
         /\ Balanced(Leave(chan, c), holders, waiting \ {c}, limit)
<1> DEFINE q == chan.queue
           places == {k \in DOMAIN q : q[k] = c}
<1>1. q \in Seq(Calls) /\ DOMAIN q = 1 .. Len(q) /\ Len(q) \in Nat
  BY LenProperties DEF Channel
<1>2. CASE places = {}
  <2>1. Leave(chan, c) = chan
    BY <1>2 DEF Leave
  <2>2. c \notin waiting
    BY <1>2 DEF Balanced, Queued
  <2> QED
    BY <2>1, <2>2 DEF Balanced
<1>3. CASE places # {}
  <2> DEFINE k == CHOOSE k \in places : TRUE
             p == SubSeq(q, 1, k - 1) \o SubSeq(q, k + 1, Len(q))
  <2>1. k \in 1 .. Len(q) /\ q[k] = c
    BY <1>1, <1>3
  <2> HIDE DEF k
  <2>2. /\ p \in Seq(Calls) /\ Len(p) = Len(q) - 1 /\ DOMAIN p = 1 .. Len(p)
        /\ \A j \in 1 .. Len(p) : p[j] = IF j < k THEN q[j] ELSE q[j + 1]
    <3> DEFINE s == SubSeq(q, 1, k - 1)
               t == SubSeq(q, k + 1, Len(q))
    <3>1. /\ s \in Seq(Calls) /\ Len(s) = k - 1
          /\ \A j \in 1 .. k - 1 : s[j] = q[j]
      BY <1>1, <2>1
    <3>2. /\ t \in Seq(Calls) /\ Len(t) = Len(q) - k
          /\ \A j \in 1 .. Len(q) - k : t[j] = q[j + k]
      BY <1>1, <2>1
    <3> HIDE DEF s, t
    <3>3. /\ s \o t \in Seq(Calls) /\ Len(s \o t) = Len(q) - 1
          /\ DOMAIN (s \o t) = 1 .. Len(s \o t)
          /\ \A j \in 1 .. Len(q) - 1 :
               (s \o t)[j] = IF j < k THEN q[j] ELSE q[j + 1]
      <4>1. /\ s \o t \in Seq(Calls) /\ Len(s \o t) = Len(s) + Len(t)
            /\ \A j \in 1 .. Len(s) + Len(t) :
                 (s \o t)[j] = IF j <= Len(s) THEN s[j] ELSE t[j - Len(s)]
        BY <3>1, <3>2, ConcatProperties
      <4>2. ASSUME NEW j \in 1 .. Len(q) - 1
            PROVE  (s \o t)[j] = IF j < k THEN q[j] ELSE q[j + 1]
        <5>1. CASE j < k
          <6>1. j \in 1 .. k - 1 /\ j <= Len(s) /\ j \in 1 .. Len(s) + Len(t)
            BY <1>1, <2>1, <3>1, <3>2, <5>1
          <6> QED
            BY <3>1, <4>1, <5>1, <6>1
        <5>2. CASE j >= k
          <6>1. j - (k - 1) \in 1 .. Len(q) - k
            BY <1>1, <2>1, <5>2
          <6>2. (s \o t)[j] = t[j - (k - 1)]
            BY <1>1, <2>1, <3>1, <3>2, <4>1, <5>2
          <6> QED
            BY <1>1, <2>1, <3>2, <5>2, <6>1, <6>2
        <5>3. j < k \/ j >= k
          BY <1>1, <2>1
        <5> QED
          BY <5>1, <5>2, <5>3, Zenon
      <4>3. DOMAIN (s \o t) = 1 .. Len(s \o t)
        BY <4>1, LenProperties
      <4> QED
        BY <1>1, <2>1, <3>1, <3>2, <4>1, <4>2, <4>3
    <3> QED
      BY <3>3 DEF s, t
  <2>3. /\ Leave(chan, c).taken = chan.taken /\ Leave(chan, c).queue = p
        /\ Leave(chan, c) \in Channel
    BY <1>3, <2>2 DEF Leave, Channel, k
  <2> HIDE DEF p
  <2>4. Queued(p) = waiting \ {c}
    <3>1. ASSUME NEW d \in waiting, d # c PROVE d \in Queued(p)
      <4>1. PICK j \in 1 .. Len(q) : q[j] = d
        BY <1>1, <3>1 DEF Balanced, Queued
      <4>2. CASE j < k
        <5>1. j \in 1 .. Len(p) /\ p[j] = q[j]
          BY <1>1, <2>1, <2>2, <4>1, <4>2
        <5> QED
          BY <2>2, <4>1, <5>1 DEF Queued
      <4>3. CASE j > k
        <5>1. j - 1 \in 1 .. Len(p) /\ p[j - 1] = q[j]
          BY <1>1, <2>1, <2>2, <4>1, <4>3
        <5> QED
          BY <2>2, <4>1, <5>1 DEF Queued
      <4> QED
        BY <2>1, <3>1, <4>1, <4>2, <4>3
    <3>2. ASSUME NEW j \in 1 .. Len(p) PROVE p[j] \in waiting \ {c}
      <4>1. \E i \in 1 .. Len(q) : i # k /\ p[j] = q[i]
        BY <1>1, <2>1, <2>2
      <4> QED
        BY <1>1, <2>1, <4>1 DEF Balanced, Queued, Once
    <3> QED
      BY <2>2, <3>1, <3>2 DEF Queued
  <2>5. Once(p)
    <3> SUFFICES ASSUME NEW i \in 1 .. Len(p), NEW j \in 1 .. Len(p), p[i] = p[j]
                 PROVE  i = j
      BY <2>2 DEF Once
    <3> DEFINE old(m) == IF m < k THEN m ELSE m + 1
    <3>1. /\ old(i) \in 1 .. Len(q) /\ p[i] = q[old(i)]
          /\ old(j) \in 1 .. Len(q) /\ p[j] = q[old(j)]
      BY <1>1, <2>1, <2>2
    <3>2. old(i) = old(j)
      <4> HIDE DEF old
      <4> QED BY <1>1, <3>1 DEF Balanced, Once
    <3> QED
      BY <1>1, <2>1, <2>2, <3>2
  <2>6. q # <<>>
    BY <1>1, <2>1
  <2> QED
    BY <2>3, <2>4, <2>5, <2>6 DEF Balanced
<1> QED
  BY <1>2, <1>3

(* A slot that is given back goes to the first in line, or is free.        *)
LEMMA GiveBalanced ==
  ASSUME NEW chan \in Channel, NEW holders, NEW waiting, NEW limit \in Nat,
         Balanced(chan, holders, waiting, limit),
         NEW c \in holders, holders \cap waiting = {}
  PROVE  /\ Give(chan) \in Channel
         /\ chan.queue = <<>> =>
              Balanced(Give(chan), holders \ {c}, waiting, limit)
         /\ chan.queue # <<>> =>
              /\ Head(chan.queue) \in waiting
              /\ Balanced(Give(chan), (holders \ {c}) \cup {Head(chan.queue)},
                          waiting \ {Head(chan.queue)}, limit)
<1> DEFINE q == chan.queue
<1>1. q \in Seq(Calls) /\ DOMAIN q = 1 .. Len(q) /\ Len(q) \in Nat
  BY LenProperties DEF Channel
<1>2. /\ IsFiniteSet(holders \ {c}) /\ Cardinality(holders) \in Nat
      /\ Cardinality(holders \ {c}) = Cardinality(holders) - 1
      /\ Cardinality(holders \ {c}) \in Nat
  BY FS_RemoveElement, FS_CardinalityType DEF Balanced
<1>3. CASE q = <<>>
  <2>1. /\ Give(chan).taken = chan.taken - 1 /\ Give(chan).queue = q
        /\ Give(chan) = [chan EXCEPT !.taken = @ - 1]
    BY <1>3 DEF Give, Channel
  <2>2. Give(chan) \in Channel
    BY <1>2, <2>1 DEF Balanced, Channel
  <2> QED
    BY <1>2, <1>3, <2>1, <2>2 DEF Balanced, Channel
<1>4. CASE q # <<>>
  <2> DEFINE d == Head(q)
             p == Tail(q)
  <2>1. /\ d = q[1] /\ 1 \in 1 .. Len(q)
        /\ p \in Seq(Calls) /\ Len(p) = Len(q) - 1 /\ DOMAIN p = 1 .. Len(p)
        /\ \A j \in 1 .. Len(p) : p[j] = q[j + 1]
    BY <1>1, <1>4
  <2>2. /\ Give(chan).taken = chan.taken /\ Give(chan).queue = p
        /\ Give(chan) \in Channel
    BY <1>4, <2>1 DEF Give, Channel
  <2> HIDE DEF p, d
  <2>3. d \in waiting /\ d \notin holders
    BY <1>1, <2>1 DEF Balanced, Queued
  <2>4. /\ IsFiniteSet((holders \ {c}) \cup {d})
        /\ Cardinality((holders \ {c}) \cup {d}) = Cardinality(holders)
    <3>1. d \notin holders \ {c}
      BY <2>3
    <3>2. /\ IsFiniteSet((holders \ {c}) \cup {d})
          /\ Cardinality((holders \ {c}) \cup {d}) = Cardinality(holders \ {c}) + 1
      BY <1>2, <3>1, FS_AddElement
    <3> QED
      BY <1>2, <3>2
  <2>5. Queued(p) = waiting \ {d}
    <3>1. ASSUME NEW e \in waiting, e # d PROVE e \in Queued(p)
      <4>1. PICK j \in 1 .. Len(q) : q[j] = e
        BY <1>1 DEF Balanced, Queued
      <4>2. j - 1 \in 1 .. Len(p)
        BY <1>1, <2>1, <3>1, <4>1
      <4>3. p[j - 1] = q[(j - 1) + 1]
        BY <2>1, <4>2
      <4>4. p[j - 1] = e
        BY <1>1, <4>1, <4>3
      <4> QED
        BY <2>1, <4>2, <4>4 DEF Queued
    <3>2. ASSUME NEW j \in 1 .. Len(p) PROVE p[j] \in waiting \ {d}
      <4>1. j + 1 \in 1 .. Len(q) /\ j + 1 # 1 /\ p[j] = q[j + 1]
        BY <1>1, <2>1
      <4> QED
        BY <1>1, <2>1, <4>1 DEF Balanced, Queued, Once
    <3> QED
      BY <2>1, <3>1, <3>2 DEF Queued
  <2>6. Once(p)
    <3> SUFFICES ASSUME NEW i \in 1 .. Len(p), NEW j \in 1 .. Len(p), p[i] = p[j]
                 PROVE  i = j
      BY <2>1 DEF Once
    <3>1. /\ i + 1 \in 1 .. Len(q) /\ p[i] = q[i + 1]
          /\ j + 1 \in 1 .. Len(q) /\ p[j] = q[j + 1]
      BY <1>1, <2>1
    <3>2. i + 1 = j + 1
      BY <1>1, <3>1 DEF Balanced, Once
    <3> QED
      BY <3>2
  <2> QED
    BY <1>4, <2>2, <2>3, <2>4, <2>5, <2>6 DEF Balanced, d
<1> QED
  BY <1>3, <1>4

-----------------------------------------------------------------------------
(* The invariant.                                                          *)

Waits == {"user_wait", "scan_wait"}
CallRecord ==
    [pc : {"idle", "arrive", "user_wait", "scan_arrive", "scan_wait", "run", "done"},
     scan : BOOLEAN, ctx : {"alive", "cancelled", "budget"},
     left : Nat, age : Nat]

TypeOK ==
    /\ call \in [Calls -> {Idle} \cup CallRecord]
    /\ users \in [Instances -> Channel]
    /\ scans \in Channel

(* Only a scan queues for the second slot; its deadline starts when it has *)
(* the first one, and what is left of it and its age make up the budget.   *)
Paced(k) ==
    /\ k.pc \in {"scan_arrive", "scan_wait"} => k.scan
    /\ k.pc \in {"arrive", "user_wait"} => k.age = 0
    /\ k.pc \in {"scan_arrive", "scan_wait", "run"} /\ k.scan /\ k.ctx = "alive"
         => k.age + k.left = Budget

UserWaiting(i) == Holding({"user_wait"}, i)
ScanWaiting == {c \in Calls : At(c, "scan_wait")}

UsersBalanced ==
    \A i \in Instances : Balanced(users[i], HoldUser(i), UserWaiting(i), UserCap)
ScansBalanced == Balanced(scans, HoldScan, ScanWaiting, ScanCap)

LimitsInv ==
    /\ TypeOK
    /\ \A c \in Calls : Paced(call[c])
    /\ UsersBalanced /\ ScansBalanced

(* A call that is not idle has all its fields.                             *)
LEMMA CallFields ==
  ASSUME TypeOK, NEW c \in Calls, call[c].pc # "idle"
  PROVE  call[c] \in CallRecord
  BY DEF TypeOK, Idle

(* Before its admission and after its end a call is under no deadline.     *)
LEMMA PacedOutside ==
  ASSUME NEW k, k.pc \in {"idle", "arrive", "user_wait", "done"},
         k.pc \in {"arrive", "user_wait"} => k.age = 0
  PROVE  Paced(k)
<1>1. k.pc \notin {"scan_arrive", "scan_wait"} /\ k.pc # "run"
  OBVIOUS
<1> QED
  BY <1>1, Zenon DEF Paced

LEMMA LimitsStart ==
  ASSUME LimitsAssumption, LimitsInit
  PROVE  LimitsInv
<1>1. TypeOK /\ \A c \in Calls : call[c].pc = "idle"
  BY EmptySeq DEF LimitsInit, TypeOK, Channel, Free, Idle
<1>2. \A c \in Calls : Paced(call[c])
  BY <1>1, PacedOutside
<1>3. \A i \in Instances : HoldUser(i) = {} /\ UserWaiting(i) = {}
  BY <1>1 DEF HoldUser, UserWaiting, Holding
<1>4. HoldScan = {} /\ ScanWaiting = {}
  BY <1>1 DEF HoldScan, ScanWaiting, At
<1>5. \A limit \in Nat : Balanced(Free, {}, {}, limit)
  BY FS_EmptySet DEF Balanced, Free, Queued, Once
<1>6. (\A i \in Instances : users[i] = Free) /\ scans = Free
  BY DEF LimitsInit
<1> QED
  BY <1>1, <1>2, <1>3, <1>4, <1>5, <1>6
     DEF LimitsInv, UsersBalanced, ScansBalanced, LimitsAssumption

-----------------------------------------------------------------------------
(* Steps that leave the channels alone.                                    *)

(* Who holds or awaits a slot depends on where calls are, and on nothing   *)
(* else.                                                                   *)
LEMMA ChannelsUntouched ==
  ASSUME LimitsInv, UNCHANGED <<users, scans>>,
         \A d \in Calls :
           \/ call'[d].pc = call[d].pc /\ call'[d].scan = call[d].scan
           \/ call[d].pc = "idle" /\ call'[d].pc = "arrive"
  PROVE  UsersBalanced' /\ ScansBalanced'
<1>1. \A i \in Instances : HoldUser(i)' = HoldUser(i) /\ UserWaiting(i)' = UserWaiting(i)
  BY DEF HoldUser, UserWaiting, Holding
<1>2. HoldScan' = HoldScan /\ ScanWaiting' = ScanWaiting
  BY DEF HoldScan, ScanWaiting, At
<1> QED
  BY <1>1, <1>2 DEF LimitsInv, UsersBalanced, ScansBalanced

LEMMA ArriveInv ==
  ASSUME LimitsAssumption, LimitsInv, NEW c \in Calls, NEW isScan \in BOOLEAN,
         Arrive(c, isScan)
  PROVE  LimitsInv'
<1>1. NewCall(isScan) \in CallRecord /\ Paced(NewCall(isScan)) /\ NewCall(isScan).pc = "arrive"
  <2>1. /\ NewCall(isScan) \in CallRecord
        /\ NewCall(isScan).pc = "arrive" /\ NewCall(isScan).age = 0
    BY DEF NewCall, CallRecord, LimitsAssumption
  <2> HIDE DEF NewCall
  <2> QED
    BY <2>1, PacedOutside
<1>2. call' = [call EXCEPT ![c] = NewCall(isScan)] /\ call[c].pc = "idle"
  BY DEF Arrive, At
<1> HIDE DEF NewCall
<1>3. TypeOK' /\ \A d \in Calls : Paced(call'[d])
  BY <1>1, <1>2 DEF Arrive, LimitsInv, TypeOK
<1>4. UsersBalanced' /\ ScansBalanced'
  BY <1>1, <1>2, ChannelsUntouched DEF Arrive, LimitsInv, TypeOK
<1> QED
  BY <1>3, <1>4 DEF LimitsInv

(* Cancel and Expire end the context of a call, wherever it is.            *)
LEMMA EndInv ==
  ASSUME LimitsAssumption, LimitsInv, NEW c \in Calls, Cancel(c) \/ Expire(c)
  PROVE  LimitsInv'
<1>1. call[c] \in CallRecord
  BY CallFields DEF Cancel, Expire, UnderDeadline, LimitsInv
<1>2. PICK end \in {"cancelled", "budget"} : call' = [call EXCEPT ![c].ctx = end]
  BY DEF Cancel, Expire
<1>3. /\ call'[c] \in CallRecord /\ call'[c].ctx # "alive"
      /\ call'[c].pc = call[c].pc /\ call'[c].scan = call[c].scan
      /\ call'[c].age = call[c].age
      /\ \A d \in Calls : d # c => call'[d] = call[d]
  BY <1>1, <1>2 DEF CallRecord, LimitsInv, TypeOK
<1>4. UNCHANGED <<users, scans>>
  BY DEF Cancel, Expire
<1>5. TypeOK'
  BY <1>2, <1>3, <1>4 DEF LimitsInv, TypeOK
<1>6. \A d \in Calls : Paced(call'[d])
  BY <1>3 DEF LimitsInv, Paced
<1>7. UsersBalanced' /\ ScansBalanced'
  BY <1>3, <1>4, ChannelsUntouched
<1> QED
  BY <1>5, <1>6, <1>7 DEF LimitsInv

(* Age grows as the deadline nears.                                        *)
LEMMA TickInv ==
  ASSUME LimitsAssumption, LimitsInv, Tick
  PROVE  LimitsInv'
<1>1. ASSUME NEW c \in Calls
      PROVE  /\ call'[c] \in {Idle} \cup CallRecord
             /\ call'[c].pc = call[c].pc /\ call'[c].scan = call[c].scan
             /\ Paced(call'[c])
  <2>1. CASE UnderDeadline(c)
    <3>1. /\ call[c] \in CallRecord /\ call[c].left > 0
          /\ call[c].age + call[c].left = Budget
      BY <2>1, CallFields DEF UnderDeadline, LimitsInv, Paced, Tick
    <3>2. /\ call[c].left \in Nat /\ call[c].age \in Nat /\ Budget \in Nat
          /\ ~ call[c].age > Budget
      BY <3>1 DEF CallRecord, LimitsAssumption
    <3>3. call'[c] = [call[c] EXCEPT !.left = @ - 1, !.age = @ + 1]
      BY <2>1, <3>2 DEF Tick
    <3>4. /\ call'[c] \in CallRecord
          /\ call'[c].pc = call[c].pc /\ call'[c].scan = call[c].scan
          /\ call'[c].age + call'[c].left = Budget
      <4>1. call[c].left - 1 \in Nat /\ call[c].age + 1 \in Nat
        BY <3>1, <3>2
      <4>2. /\ call'[c] \in CallRecord
            /\ call'[c].pc = call[c].pc /\ call'[c].scan = call[c].scan
            /\ call'[c].left = call[c].left - 1
            /\ call'[c].age = call[c].age + 1
        BY <3>1, <3>3, <4>1 DEF CallRecord
      <4> QED
        BY <3>1, <3>2, <4>2
    <3> QED
      BY <2>1, <3>4 DEF Paced, LimitsInv, UnderDeadline
  <2>2. CASE ~ UnderDeadline(c)
    BY <2>2 DEF Tick, LimitsInv, TypeOK
  <2> QED
    BY <2>1, <2>2
<1>2. UNCHANGED <<users, scans>> /\ call' \in [Calls -> {Idle} \cup CallRecord]
  BY <1>1 DEF Tick
<1>3. UsersBalanced' /\ ScansBalanced'
  BY <1>1, <1>2, ChannelsUntouched
<1> QED
  BY <1>1, <1>2, <1>3 DEF LimitsInv, TypeOK

-----------------------------------------------------------------------------
(* Steps that take, await, leave or give back a slot.                      *)

OnlyCall(c) == \A d \in Calls : d # c => call'[d] = call[d]

(* What becomes of set S when only c may enter or leave it.                *)
Becomes(S, T, c, stays) ==
    /\ stays => T = S \cup {c}
    /\ ~ stays => T = S \ {c}
    /\ (stays <=> c \in S) => T = S

(* How the step of one call changes who holds and who awaits a slot.       *)
LEMMA OneCallMoves ==
  ASSUME LimitsAssumption, NEW c \in Calls, OnlyCall(c)
  PROVE  /\ \A i \in Instances \ {Instance[c]} :
               HoldUser(i)' = HoldUser(i) /\ UserWaiting(i)' = UserWaiting(i)
         /\ Becomes(HoldUser(Instance[c]), HoldUser(Instance[c])', c,
                    call'[c].pc \in {"scan_arrive", "scan_wait", "run", "done"})
         /\ Becomes(UserWaiting(Instance[c]), UserWaiting(Instance[c])', c,
                    call'[c].pc = "user_wait")
         /\ Becomes(HoldScan, HoldScan', c, call'[c].pc = "run" /\ call'[c].scan)
         /\ Becomes(ScanWaiting, ScanWaiting', c, call'[c].pc = "scan_wait")
<1>1. \A i \in Instances \ {Instance[c]} :
         HoldUser(i)' = HoldUser(i) /\ UserWaiting(i)' = UserWaiting(i)
  BY DEF OnlyCall, HoldUser, UserWaiting, Holding
<1>2. Becomes(HoldUser(Instance[c]), HoldUser(Instance[c])', c,
              call'[c].pc \in {"scan_arrive", "scan_wait", "run", "done"})
  BY DEF OnlyCall, HoldUser, Holding, Becomes
<1>3. Becomes(UserWaiting(Instance[c]), UserWaiting(Instance[c])', c,
              call'[c].pc = "user_wait")
  BY DEF OnlyCall, UserWaiting, Holding, Becomes
<1>4. Becomes(HoldScan, HoldScan', c, call'[c].pc = "run" /\ call'[c].scan)
  BY DEF OnlyCall, HoldScan, At, Becomes
<1>5. Becomes(ScanWaiting, ScanWaiting', c, call'[c].pc = "scan_wait")
  BY DEF OnlyCall, ScanWaiting, At, Becomes
<1> QED
  BY <1>1, <1>2, <1>3, <1>4, <1>5

(* A step on the channel of one instance.                                  *)
LEMMA OneChannelMoves ==
  ASSUME LimitsInv, NEW i \in Instances, NEW chan \in Channel,
         users' = [users EXCEPT ![i] = chan],
         Balanced(chan, HoldUser(i)', UserWaiting(i)', UserCap),
         \A j \in Instances \ {i} :
           HoldUser(j)' = HoldUser(j) /\ UserWaiting(j)' = UserWaiting(j)
  PROVE  UsersBalanced' /\ users' \in [Instances -> Channel]
<1>1. users \in [Instances -> Channel]
  BY DEF LimitsInv, TypeOK
<1>2. \A j \in Instances : Balanced(users'[j], HoldUser(j)', UserWaiting(j)', UserCap)
  BY <1>1 DEF LimitsInv, UsersBalanced
<1> QED
  BY <1>1, <1>2 DEF UsersBalanced

LEMMA AdmittedFacts ==
  ASSUME LimitsAssumption, NEW k \in CallRecord,
         Paced(k), k.pc \in {"arrive", "user_wait"}
  PROVE  /\ Admitted(k) \in CallRecord /\ Paced(Admitted(k))
         /\ Admitted(k).pc \in {"scan_arrive", "run"}
         /\ ~ (Admitted(k).pc = "run" /\ Admitted(k).scan)
<1>1. k.age = 0 /\ Budget \in Nat
  BY DEF Paced, LimitsAssumption
<1>2. CASE k.scan
  <2>1. Admitted(k) = [k EXCEPT !.pc = "scan_arrive", !.left = Budget]
    BY <1>2 DEF Admitted
  <2>2. /\ Admitted(k) \in CallRecord
        /\ Admitted(k).pc = "scan_arrive" /\ Admitted(k).left = Budget
        /\ Admitted(k).age = 0 /\ Admitted(k).scan = k.scan
    BY <1>1, <2>1 DEF CallRecord
  <2>3. 0 + Budget = Budget
    BY <1>1
  <2>4. Paced(Admitted(k))
    BY <1>2, <2>2, <2>3 DEF Paced
  <2> QED
    BY <2>2, <2>4
<1>3. CASE ~ k.scan
  <2>1. Admitted(k) = [k EXCEPT !.pc = "run", !.left = Budget]
    BY <1>3 DEF Admitted
  <2>2. /\ Admitted(k) \in CallRecord
        /\ Admitted(k).pc = "run" /\ Admitted(k).scan = k.scan
    BY <1>1, <2>1 DEF CallRecord
  <2> QED
    BY <1>3, <2>2 DEF Paced
<1> QED
  BY <1>2, <1>3

LEMMA GrantedFacts ==
  ASSUME NEW k \in CallRecord,
         Paced(k), k.pc \in {"scan_arrive", "scan_wait"}
  PROVE  /\ Granted(k) \in CallRecord /\ Paced(Granted(k))
         /\ Granted(k).pc = "run" /\ Granted(k).scan
<1>1. /\ Granted(k) \in CallRecord /\ Granted(k).pc = "run"
      /\ Granted(k).scan = k.scan /\ Granted(k).ctx = k.ctx
      /\ Granted(k).left = k.left /\ Granted(k).age = k.age
  BY DEF Granted, CallRecord
<1> QED
  BY <1>1 DEF Paced

(* A call that only moves on.                                              *)
LEMMA MoveFacts ==
  ASSUME LimitsInv, NEW c \in Calls, NEW pc, Move(c, pc), call[c] \in CallRecord,
         pc \in {"idle", "user_wait", "scan_wait", "done"},
         pc = "user_wait" => call[c].pc = "arrive",
         pc = "scan_wait" => call[c].pc = "scan_arrive"
  PROVE  /\ OnlyCall(c) /\ call'[c].pc = pc /\ call'[c].scan = call[c].scan
         /\ call' \in [Calls -> {Idle} \cup CallRecord]
         /\ \A d \in Calls : Paced(call'[d])
<1>1. /\ OnlyCall(c)
      /\ call' \in [Calls -> {Idle} \cup CallRecord]
      /\ call'[c].pc = pc /\ call'[c].scan = call[c].scan
      /\ call'[c].age = call[c].age /\ call'[c].left = call[c].left
      /\ call'[c].ctx = call[c].ctx
  BY DEF Move, OnlyCall, CallRecord, LimitsInv, TypeOK
<1>2. Paced(call[c])
  BY DEF LimitsInv
<1>3. Paced(call'[c])
  BY <1>1, <1>2 DEF Paced
<1> QED
  BY <1>1, <1>3 DEF OnlyCall, LimitsInv

LEMMA AcquireUserInv ==
  ASSUME LimitsAssumption, LimitsInv, NEW c \in Calls, AcquireUser(c)
  PROVE  LimitsInv'
<1> DEFINE i == Instance[c]
<1>1. /\ i \in Instances /\ users[i] \in Channel /\ UserCap \in Nat
      /\ Balanced(users[i], HoldUser(i), UserWaiting(i), UserCap)
  BY DEF LimitsAssumption, LimitsInv, TypeOK, UsersBalanced
<1>2. /\ call[c].pc = "arrive" /\ call[c] \in CallRecord /\ Paced(call[c])
      /\ c \notin HoldUser(i) /\ c \notin UserWaiting(i)
      /\ c \notin HoldScan /\ c \notin ScanWaiting
  BY CallFields DEF AcquireUser, At, LimitsInv, HoldUser, UserWaiting,
     Holding, HoldScan, ScanWaiting
<1>3. UNCHANGED scans
  BY DEF AcquireUser
<1>4. CASE /\ users[i].taken < UserCap
           /\ users' = [users EXCEPT ![i] = Take(@)]
           /\ call' = [call EXCEPT ![c] = Admitted(@)]
  <2>1. /\ OnlyCall(c) /\ call'[c] = Admitted(call[c])
        /\ call' \in [Calls -> {Idle} \cup CallRecord]
        /\ \A d \in Calls : Paced(call'[d])
    BY <1>2, <1>4, AdmittedFacts DEF OnlyCall, LimitsInv, TypeOK
  <2>2. /\ HoldUser(i)' = HoldUser(i) \cup {c} /\ UserWaiting(i)' = UserWaiting(i)
        /\ HoldScan' = HoldScan /\ ScanWaiting' = ScanWaiting
    BY <1>2, <2>1, AdmittedFacts, OneCallMoves DEF Becomes
  <2>3. /\ Take(users[i]) \in Channel
        /\ Balanced(Take(users[i]), HoldUser(i)', UserWaiting(i)', UserCap)
    BY <1>1, <1>2, <1>4, <2>2, TakeBalanced
  <2>4. UsersBalanced' /\ users' \in [Instances -> Channel]
    BY <1>1, <1>4, <2>1, <2>3, OneCallMoves, OneChannelMoves
  <2> QED
    BY <1>3, <2>1, <2>2, <2>4 DEF LimitsInv, TypeOK, ScansBalanced
<1>5. CASE /\ users[i].taken = UserCap
           /\ users' = [users EXCEPT ![i] = Wait(@, c)]
           /\ Move(c, "user_wait")
  <2>1. /\ OnlyCall(c) /\ call'[c].pc = "user_wait"
        /\ call' \in [Calls -> {Idle} \cup CallRecord]
        /\ \A d \in Calls : Paced(call'[d])
    BY <1>2, <1>5, MoveFacts
  <2>2. /\ HoldUser(i)' = HoldUser(i) /\ UserWaiting(i)' = UserWaiting(i) \cup {c}
        /\ HoldScan' = HoldScan /\ ScanWaiting' = ScanWaiting
    BY <1>2, <2>1, OneCallMoves DEF Becomes
  <2>3. /\ Wait(users[i], c) \in Channel
        /\ Balanced(Wait(users[i], c), HoldUser(i)', UserWaiting(i)', UserCap)
    BY <1>1, <1>2, <1>5, <2>2, WaitBalanced
  <2>4. UsersBalanced' /\ users' \in [Instances -> Channel]
    BY <1>1, <1>5, <2>1, <2>3, OneCallMoves, OneChannelMoves
  <2> QED
    BY <1>3, <2>1, <2>2, <2>4 DEF LimitsInv, TypeOK, ScansBalanced
<1> QED
  BY <1>4, <1>5 DEF AcquireUser

LEMMA AbortUserInv ==
  ASSUME LimitsAssumption, LimitsInv, NEW c \in Calls, AbortUser(c)
  PROVE  LimitsInv'
<1> DEFINE i == Instance[c]
<1>1. /\ i \in Instances /\ users[i] \in Channel /\ UserCap \in Nat
      /\ Balanced(users[i], HoldUser(i), UserWaiting(i), UserCap)
  BY DEF LimitsAssumption, LimitsInv, TypeOK, UsersBalanced
<1>2. /\ c \notin HoldUser(i) /\ c \notin HoldScan /\ c \notin ScanWaiting
  BY DEF AbortUser, HoldUser, Holding, HoldScan, ScanWaiting, At
<1>3. /\ users' = [users EXCEPT ![i] = Leave(@, c)]
      /\ call' = [call EXCEPT ![c] = Idle] /\ UNCHANGED scans
  BY DEF AbortUser
<1>4. Idle.pc = "idle"
  BY DEF Idle
<1>5. /\ OnlyCall(c) /\ call'[c] = Idle
      /\ call' \in [Calls -> {Idle} \cup CallRecord]
      /\ \A d \in Calls : Paced(call'[d])
  BY <1>3, <1>4, PacedOutside DEF OnlyCall, LimitsInv, TypeOK
<1>6. /\ HoldUser(i)' = HoldUser(i) /\ UserWaiting(i)' = UserWaiting(i) \ {c}
      /\ HoldScan' = HoldScan /\ ScanWaiting' = ScanWaiting
  BY <1>2, <1>4, <1>5, OneCallMoves DEF Becomes
<1>7. /\ Leave(users[i], c) \in Channel
      /\ Balanced(Leave(users[i], c), HoldUser(i)', UserWaiting(i)', UserCap)
  BY <1>1, <1>6, LeaveBalanced
<1>8. UsersBalanced' /\ users' \in [Instances -> Channel]
  BY <1>1, <1>3, <1>5, <1>7, OneCallMoves, OneChannelMoves
<1> QED
  BY <1>3, <1>5, <1>6, <1>8 DEF LimitsInv, TypeOK, ScansBalanced

(* A step on the channel of the process alone.                             *)
LEMMA ScanChannelMoves ==
  ASSUME LimitsAssumption, LimitsInv, NEW c \in Calls, UNCHANGED users,
         \A i \in Instances :
           HoldUser(i)' = HoldUser(i) /\ UserWaiting(i)' = UserWaiting(i)
  PROVE  UsersBalanced' /\ users' \in [Instances -> Channel]
  BY DEF LimitsInv, TypeOK, UsersBalanced

LEMMA AcquireScanInv ==
  ASSUME LimitsAssumption, LimitsInv, NEW c \in Calls, AcquireScan(c)
  PROVE  LimitsInv'
<1> DEFINE i == Instance[c]
<1>1. /\ i \in Instances /\ scans \in Channel /\ ScanCap \in Nat
      /\ Balanced(scans, HoldScan, ScanWaiting, ScanCap)
  BY DEF LimitsAssumption, LimitsInv, TypeOK, ScansBalanced
<1>2. /\ call[c].pc = "scan_arrive" /\ call[c] \in CallRecord /\ Paced(call[c])
      /\ c \in HoldUser(i) /\ c \notin UserWaiting(i)
      /\ c \notin HoldScan /\ c \notin ScanWaiting
  BY CallFields DEF AcquireScan, At, LimitsInv, HoldUser, UserWaiting,
     Holding, HoldScan, ScanWaiting
<1>3. UNCHANGED users
  BY DEF AcquireScan
<1>4. CASE /\ scans.taken < ScanCap /\ scans' = Take(scans)
           /\ call' = [call EXCEPT ![c] = Granted(@)]
  <2>1. /\ OnlyCall(c) /\ call'[c] = Granted(call[c])
        /\ call' \in [Calls -> {Idle} \cup CallRecord]
        /\ \A d \in Calls : Paced(call'[d])
    BY <1>2, <1>4, GrantedFacts DEF OnlyCall, LimitsInv, TypeOK
  <2>2. /\ \A j \in Instances :
             HoldUser(j)' = HoldUser(j) /\ UserWaiting(j)' = UserWaiting(j)
        /\ HoldScan' = HoldScan \cup {c} /\ ScanWaiting' = ScanWaiting
    BY <1>2, <2>1, GrantedFacts, OneCallMoves DEF Becomes
  <2>3. scans' \in Channel /\ ScansBalanced'
    BY <1>1, <1>2, <1>4, <2>2, TakeBalanced DEF ScansBalanced
  <2> QED
    BY <1>3, <2>1, <2>2, <2>3, ScanChannelMoves DEF LimitsInv, TypeOK
<1>5. CASE /\ scans.taken = ScanCap /\ scans' = Wait(scans, c)
           /\ Move(c, "scan_wait")
  <2>1. /\ OnlyCall(c) /\ call'[c].pc = "scan_wait"
        /\ call' \in [Calls -> {Idle} \cup CallRecord]
        /\ \A d \in Calls : Paced(call'[d])
    BY <1>2, <1>5, MoveFacts
  <2>2. /\ \A j \in Instances :
             HoldUser(j)' = HoldUser(j) /\ UserWaiting(j)' = UserWaiting(j)
        /\ HoldScan' = HoldScan /\ ScanWaiting' = ScanWaiting \cup {c}
    BY <1>2, <2>1, OneCallMoves DEF Becomes
  <2>3. scans' \in Channel /\ ScansBalanced'
    BY <1>1, <1>2, <1>5, <2>2, WaitBalanced DEF ScansBalanced
  <2> QED
    BY <1>3, <2>1, <2>2, <2>3, ScanChannelMoves DEF LimitsInv, TypeOK
<1> QED
  BY <1>4, <1>5 DEF AcquireScan

LEMMA AbortScanInv ==
  ASSUME LimitsAssumption, LimitsInv, NEW c \in Calls, AbortScan(c)
  PROVE  LimitsInv'
<1> DEFINE i == Instance[c]
<1>1. /\ scans \in Channel /\ ScanCap \in Nat
      /\ Balanced(scans, HoldScan, ScanWaiting, ScanCap)
  BY DEF LimitsAssumption, LimitsInv, TypeOK, ScansBalanced
<1>2. /\ call[c] \in CallRecord /\ c \in HoldUser(i)
      /\ c \notin UserWaiting(i) /\ c \notin HoldScan
  BY CallFields DEF AbortScan, LimitsInv, HoldUser, UserWaiting, Holding,
     HoldScan, At
<1>3. /\ scans' = Leave(scans, c) /\ Move(c, "done") /\ UNCHANGED users
  BY DEF AbortScan
<1>4. /\ OnlyCall(c) /\ call'[c].pc = "done"
      /\ call' \in [Calls -> {Idle} \cup CallRecord]
      /\ \A d \in Calls : Paced(call'[d])
  BY <1>2, <1>3, MoveFacts
<1>5. /\ \A j \in Instances :
           HoldUser(j)' = HoldUser(j) /\ UserWaiting(j)' = UserWaiting(j)
      /\ HoldScan' = HoldScan /\ ScanWaiting' = ScanWaiting \ {c}
  BY <1>2, <1>4, OneCallMoves DEF Becomes
<1>6. scans' \in Channel /\ ScansBalanced'
  BY <1>1, <1>3, <1>5, LeaveBalanced DEF ScansBalanced
<1> QED
  BY <1>3, <1>4, <1>5, <1>6, ScanChannelMoves DEF LimitsInv, TypeOK

(* A slot is handed over from c to d.                                      *)
Handed(c, pc, d, k) ==
    /\ call' = [call EXCEPT ![c].pc = pc, ![d] = k]
    /\ c # d

LEMMA HandedFacts ==
  ASSUME LimitsInv, NEW c \in Calls, NEW d \in Calls, NEW pc \in {"idle", "done"},
         NEW k \in CallRecord, Handed(c, pc, d, k), call[c] \in CallRecord, Paced(k)
  PROVE  /\ call'[c].pc = pc /\ call'[d] = k
         /\ \A e \in Calls \ {c, d} : call'[e] = call[e]
         /\ call' \in [Calls -> {Idle} \cup CallRecord]
         /\ \A e \in Calls : Paced(call'[e])
<1>1. /\ call'[d] = k /\ call'[c] = [call[c] EXCEPT !.pc = pc]
      /\ \A e \in Calls \ {c, d} : call'[e] = call[e]
      /\ call'[c] \in CallRecord /\ call'[c].pc = pc
      /\ call' \in [Calls -> {Idle} \cup CallRecord]
  BY DEF Handed, CallRecord, LimitsInv, TypeOK
<1>2. Paced(call'[c])
  <2>1. /\ call'[c].pc \in {"idle", "arrive", "user_wait", "done"}
        /\ call'[c].pc \notin {"arrive", "user_wait"}
    BY <1>1
  <2> QED
    BY <2>1, PacedOutside
<1>3. \A e \in Calls : e = c \/ e = d \/ e \in Calls \ {c, d}
  OBVIOUS
<1> QED
  BY <1>1, <1>2, <1>3 DEF LimitsInv

LEMMA FinishInv ==
  ASSUME LimitsAssumption, LimitsInv, NEW c \in Calls, Finish(c)
  PROVE  LimitsInv'
<1> DEFINE i == Instance[c]
<1>1. /\ scans \in Channel /\ ScanCap \in Nat
      /\ Balanced(scans, HoldScan, ScanWaiting, ScanCap)
      /\ HoldScan \cap ScanWaiting = {}
  BY DEF LimitsAssumption, LimitsInv, TypeOK, ScansBalanced, HoldScan,
     ScanWaiting, At
<1>2. /\ call[c].pc = "run" /\ call[c] \in CallRecord /\ c \in HoldUser(i)
      /\ c \notin UserWaiting(i) /\ c \notin ScanWaiting
      /\ call[c].scan <=> c \in HoldScan
  BY CallFields DEF Finish, LimitsInv, HoldUser, UserWaiting, Holding,
     HoldScan, ScanWaiting, At
<1>3. UNCHANGED users
  BY DEF Finish
<1>4. CASE ~ call[c].scan /\ UNCHANGED scans /\ Move(c, "done")
  <2>1. /\ OnlyCall(c) /\ call'[c].pc = "done"
        /\ call' \in [Calls -> {Idle} \cup CallRecord]
        /\ \A d \in Calls : Paced(call'[d])
    BY <1>2, <1>4, MoveFacts
  <2>2. /\ \A j \in Instances :
             HoldUser(j)' = HoldUser(j) /\ UserWaiting(j)' = UserWaiting(j)
        /\ HoldScan' = HoldScan /\ ScanWaiting' = ScanWaiting
    BY <1>2, <1>4, <2>1, OneCallMoves DEF Becomes
  <2> QED
    BY <1>1, <1>3, <1>4, <2>1, <2>2, ScanChannelMoves
       DEF LimitsInv, TypeOK, ScansBalanced
<1>5. CASE /\ call[c].scan /\ scans' = Give(scans)
           /\ Release(c, scans, "done", Granted)
  <2>1. CASE scans.queue = <<>>
    <3>1. Move(c, "done")
      BY <1>5, <2>1 DEF Release, Move, LimitsInv, TypeOK
    <3>2. /\ OnlyCall(c) /\ call'[c].pc = "done"
          /\ call' \in [Calls -> {Idle} \cup CallRecord]
          /\ \A d \in Calls : Paced(call'[d])
      BY <1>2, <3>1, MoveFacts
    <3>3. /\ \A j \in Instances :
               HoldUser(j)' = HoldUser(j) /\ UserWaiting(j)' = UserWaiting(j)
          /\ HoldScan' = HoldScan \ {c} /\ ScanWaiting' = ScanWaiting
      BY <1>2, <3>2, OneCallMoves DEF Becomes
    <3>4. scans' \in Channel /\ ScansBalanced'
      BY <1>1, <1>2, <1>5, <2>1, <3>3, GiveBalanced DEF ScansBalanced
    <3> QED
      BY <1>3, <3>2, <3>3, <3>4, ScanChannelMoves DEF LimitsInv, TypeOK
  <2>2. CASE scans.queue # <<>>
    <3> DEFINE d == Head(scans.queue)
    <3>1. /\ Give(scans) \in Channel /\ d \in ScanWaiting
          /\ Balanced(Give(scans), (HoldScan \ {c}) \cup {d},
                      ScanWaiting \ {d}, ScanCap)
      BY <1>1, <1>2, <1>5, <2>2, GiveBalanced
    <3>2. /\ d \in Calls /\ d # c /\ call[d].pc = "scan_wait"
          /\ call[d] \in CallRecord /\ Paced(call[d])
      BY <1>2, <3>1, CallFields DEF ScanWaiting, At, LimitsInv
    <3>3. /\ Granted(call[d]) \in CallRecord /\ Paced(Granted(call[d]))
          /\ Granted(call[d]).pc = "run" /\ Granted(call[d]).scan
      BY <3>2, GrantedFacts
    <3>4. Handed(c, "done", d, Granted(call[d]))
      BY <1>5, <2>2, <3>2 DEF Release, Handed, LimitsInv, TypeOK
    <3> HIDE DEF d
    <3>5. /\ call'[c].pc = "done" /\ call'[d] = Granted(call[d])
          /\ \A e \in Calls \ {c, d} : call'[e] = call[e]
          /\ call' \in [Calls -> {Idle} \cup CallRecord]
          /\ \A e \in Calls : Paced(call'[e])
      BY <1>2, <3>2, <3>3, <3>4, HandedFacts
    <3>6. \A j \in Instances :
            HoldUser(j)' = HoldUser(j) /\ UserWaiting(j)' = UserWaiting(j)
      BY <1>2, <3>2, <3>3, <3>5 DEF HoldUser, UserWaiting, Holding
    <3>7. /\ HoldScan' = (HoldScan \ {c}) \cup {d}
          /\ ScanWaiting' = ScanWaiting \ {d}
      BY <1>2, <3>2, <3>3, <3>5 DEF HoldScan, ScanWaiting, At
    <3>8. scans' \in Channel /\ ScansBalanced'
      BY <1>5, <3>1, <3>7 DEF ScansBalanced, d
    <3> QED
      BY <1>3, <3>5, <3>6, <3>8, ScanChannelMoves DEF LimitsInv, TypeOK
  <2> QED
    BY <2>1, <2>2
<1> QED
  BY <1>4, <1>5 DEF Finish

LEMMA AnswerInv ==
  ASSUME LimitsAssumption, LimitsInv, NEW c \in Calls, Answer(c)
  PROVE  LimitsInv'
<1> DEFINE i == Instance[c]
<1>1. /\ i \in Instances /\ users[i] \in Channel /\ UserCap \in Nat
      /\ Balanced(users[i], HoldUser(i), UserWaiting(i), UserCap)
      /\ HoldUser(i) \cap UserWaiting(i) = {}
  BY DEF LimitsAssumption, LimitsInv, TypeOK, UsersBalanced, HoldUser,
     UserWaiting, Holding
<1>2. /\ call[c].pc = "done" /\ call[c] \in CallRecord /\ c \in HoldUser(i)
      /\ c \notin UserWaiting(i) /\ c \notin ScanWaiting /\ c \notin HoldScan
  BY CallFields DEF Answer, LimitsInv, HoldUser, UserWaiting, Holding,
     HoldScan, ScanWaiting, At
<1>3. /\ UNCHANGED scans /\ users' = [users EXCEPT ![i] = Give(@)]
      /\ Release(c, users[i], "idle", Admitted)
  BY DEF Answer
<1>4. CASE users[i].queue = <<>>
  <2>1. Move(c, "idle")
    BY <1>3, <1>4 DEF Release, Move, LimitsInv, TypeOK
  <2>2. /\ OnlyCall(c) /\ call'[c].pc = "idle"
        /\ call' \in [Calls -> {Idle} \cup CallRecord]
        /\ \A d \in Calls : Paced(call'[d])
    BY <1>2, <2>1, MoveFacts
  <2>3. /\ HoldUser(i)' = HoldUser(i) \ {c} /\ UserWaiting(i)' = UserWaiting(i)
        /\ HoldScan' = HoldScan /\ ScanWaiting' = ScanWaiting
    BY <1>2, <2>2, OneCallMoves DEF Becomes
  <2>4. /\ Give(users[i]) \in Channel
        /\ Balanced(Give(users[i]), HoldUser(i) \ {c}, UserWaiting(i), UserCap)
    BY <1>1, <1>2, <1>4, GiveBalanced
  <2>5. UsersBalanced' /\ users' \in [Instances -> Channel]
    BY <1>1, <1>3, <2>2, <2>3, <2>4, OneCallMoves, OneChannelMoves
  <2> QED
    BY <1>3, <2>2, <2>3, <2>5 DEF LimitsInv, TypeOK, ScansBalanced
<1>5. CASE users[i].queue # <<>>
  <2> DEFINE d == Head(users[i].queue)
  <2>1. /\ Give(users[i]) \in Channel /\ d \in UserWaiting(i)
        /\ Balanced(Give(users[i]), (HoldUser(i) \ {c}) \cup {d},
                    UserWaiting(i) \ {d}, UserCap)
    BY <1>1, <1>2, <1>5, GiveBalanced
  <2>2. /\ d \in Calls /\ d # c /\ call[d].pc = "user_wait"
        /\ Instance[d] = i /\ call[d] \in CallRecord /\ Paced(call[d])
    BY <1>2, <2>1, CallFields DEF UserWaiting, Holding, LimitsInv
  <2>3. /\ Admitted(call[d]) \in CallRecord /\ Paced(Admitted(call[d]))
        /\ Admitted(call[d]).pc \in {"scan_arrive", "run"}
        /\ ~ (Admitted(call[d]).pc = "run" /\ Admitted(call[d]).scan)
    BY <2>2, AdmittedFacts
  <2>4. Handed(c, "idle", d, Admitted(call[d]))
    BY <1>3, <1>5, <2>2 DEF Release, Handed, LimitsInv, TypeOK
  <2> HIDE DEF d
  <2>5. /\ call'[c].pc = "idle" /\ call'[d] = Admitted(call[d])
        /\ \A e \in Calls \ {c, d} : call'[e] = call[e]
        /\ call' \in [Calls -> {Idle} \cup CallRecord]
        /\ \A e \in Calls : Paced(call'[e])
    BY <1>2, <2>2, <2>3, <2>4, HandedFacts
  <2>6. /\ HoldUser(i)' = (HoldUser(i) \ {c}) \cup {d}
        /\ UserWaiting(i)' = UserWaiting(i) \ {d}
    BY <1>2, <2>2, <2>3, <2>5 DEF HoldUser, UserWaiting, Holding
  <2>7. \A j \in Instances \ {i} :
          HoldUser(j)' = HoldUser(j) /\ UserWaiting(j)' = UserWaiting(j)
    BY <2>2, <2>5 DEF HoldUser, UserWaiting, Holding
  <2>8. HoldScan' = HoldScan /\ ScanWaiting' = ScanWaiting
    BY <1>2, <2>2, <2>3, <2>5 DEF HoldScan, ScanWaiting, At
  <2>9. UsersBalanced' /\ users' \in [Instances -> Channel]
    BY <1>1, <1>3, <2>1, <2>6, <2>7, OneChannelMoves
  <2> QED
    BY <1>3, <2>5, <2>8, <2>9 DEF LimitsInv, TypeOK, ScansBalanced
<1> QED
  BY <1>4, <1>5

-----------------------------------------------------------------------------
(* The invariant holds in every behaviour, and the properties follow.      *)

LEMMA LimitsStep ==
  ASSUME LimitsAssumption, LimitsInv, [LimitsNext]_limitsVars
  PROVE  LimitsInv'
<1>1. CASE UNCHANGED limitsVars
  <2>1. \A i \in Instances : HoldUser(i)' = HoldUser(i) /\ UserWaiting(i)' = UserWaiting(i)
    BY <1>1 DEF limitsVars, HoldUser, UserWaiting, Holding
  <2>2. HoldScan' = HoldScan /\ ScanWaiting' = ScanWaiting
    BY <1>1 DEF limitsVars, HoldScan, ScanWaiting, At
  <2> QED
    BY <1>1, <2>1, <2>2 DEF limitsVars, LimitsInv, TypeOK, UsersBalanced, ScansBalanced
<1> QED
  BY <1>1, ArriveInv, EndInv, TickInv, AcquireUserInv, AbortUserInv,
     AcquireScanInv, AbortScanInv, FinishInv, AnswerInv
     DEF LimitsNext, Serve

LEMMA LimitsProperties ==
  ASSUME LimitsAssumption, LimitsInv
  PROVE  SlotsExact /\ OneBudget
<1>1. \A i \in Instances :
        Exact(users[i], HoldUser(i), Holding({"user_wait"}, i), UserCap)
  BY BalancedIsExact DEF LimitsInv, TypeOK, UsersBalanced, UserWaiting
<1>2. Exact(scans, HoldScan, {c \in Calls : At(c, "scan_wait")}, ScanCap)
  BY BalancedIsExact DEF LimitsInv, TypeOK, ScansBalanced, ScanWaiting
<1>3. ASSUME NEW c \in Calls, At(c, "run"), call[c].scan, call[c].ctx = "alive"
      PROVE  call[c].age <= Budget
  <2>1. call[c] \in CallRecord
    BY <1>3, CallFields DEF At, LimitsInv
  <2>2. call[c].age \in Nat /\ call[c].left \in Nat
    BY <2>1 DEF CallRecord
  <2>3. call[c].age + call[c].left = Budget
    BY <1>3 DEF At, LimitsInv, Paced
  <2> QED
    BY <2>2, <2>3
<1> QED
  BY <1>1, <1>2, <1>3 DEF SlotsExact, OneBudget

-----------------------------------------------------------------------------
(* Serving and stopping.                                                   *)

HTTPType ==
    /\ main \in {"listen", "wait", "close_pool", "close_store", "returned"}
    /\ stopper \in {"select", "drain", "send_nil", "send_err", "ended"}
    /\ listener \in {"open", "shut", "failed"}
    /\ request \in [Requests -> {"none", "active", "cut"}]

(* serveHTTP leaves its loop only when the listener is closed, and returns *)
(* from waiting only with what the shutdown goroutine sent last.           *)
MainInv ==
    /\ listener = "open" => main = "listen"
    /\ main = "wait" => listener = "shut"
    /\ exited => listener # "open"
    /\ pool = "closed" <=> main \in {"close_store", "returned"}
    /\ store = "closed" => main = "returned"

(* The goroutine shuts the listener when it starts to drain, and after the *)
(* drain nothing is active: nothing new has been accepted.                 *)
StopperInv ==
    /\ stopper = "select" => listener # "shut"
    /\ stopper = "drain" => listener # "open"
    /\ done # "empty" => stopper = "ended"
    /\ listener = "shut" /\ stopper \in {"send_nil", "send_err", "ended"}
         => HTTP!Active = {}
    /\ listener = "shut" /\ main \in {"close_pool", "close_store", "returned"}
         => stopper = "ended"

HTTPInv == HTTPType /\ MainInv /\ StopperInv

LEMMA HTTPInit == HTTP!Init => HTTPInv
  BY DEF HTTP!Init, HTTPInv, HTTPType, MainInv, StopperInv

LEMMA HTTPNext ==
  ASSUME HTTPInv, HTTP!Next
  PROVE  HTTPInv'
<1> USE DEF HTTPInv, HTTPType, MainInv, StopperInv, HTTP!http
<1>1. ASSUME NEW r \in Requests, HTTP!Accept(r) PROVE HTTPInv'
  BY <1>1 DEF HTTP!Accept, HTTP!Active
<1>2. ASSUME NEW r \in Requests, HTTP!Respond(r) PROVE HTTPInv'
  BY <1>2 DEF HTTP!Respond, HTTP!Active
<1>3. CASE HTTP!Signal
  BY <1>3 DEF HTTP!Signal, HTTP!Active
<1>4. CASE HTTP!StartDrain
  BY <1>4 DEF HTTP!StartDrain, HTTP!Active
<1>5. CASE HTTP!ServerExited
  BY <1>5 DEF HTTP!ServerExited, HTTP!Active
<1>6. CASE HTTP!Drained
  BY <1>6 DEF HTTP!Drained, HTTP!Active
<1>7. CASE HTTP!ForceClose
  BY <1>7 DEF HTTP!ForceClose, HTTP!Active
<1>8. CASE HTTP!SendDone
  BY <1>8 DEF HTTP!SendDone, HTTP!Active
<1>9. CASE HTTP!Tick
  BY <1>9 DEF HTTP!Tick, HTTP!Active
<1>10. CASE HTTP!ListenFails
  BY <1>10 DEF HTTP!ListenFails, HTTP!Active
<1>11. CASE HTTP!ServerClosed
  BY <1>11 DEF HTTP!ServerClosed, HTTP!Active
<1>12. CASE HTTP!ReceiveDone
  BY <1>12 DEF HTTP!ReceiveDone, HTTP!Active
<1>13. CASE HTTP!ClosePool
  BY <1>13 DEF HTTP!ClosePool, HTTP!Active
<1>14. CASE HTTP!CloseStore
  BY <1>14 DEF HTTP!CloseStore, HTTP!Active
<1>15. CASE HTTP!Over
  BY <1>15 DEF HTTP!Over, HTTP!vars, HTTP!Active
<1> QED
  BY <1>1, <1>2, <1>3, <1>4, <1>5, <1>6, <1>7, <1>8, <1>9, <1>10, <1>11,
     <1>12, <1>13, <1>14, <1>15
     DEF HTTP!Next, HTTP!Stopper, HTTP!Main

LEMMA HTTPStays == HTTPInv /\ UNCHANGED httpVars => HTTPInv'
  BY DEF HTTPInv, HTTPType, MainInv, StopperInv, HTTP!Active, httpVars

-----------------------------------------------------------------------------
(* The discovery of services.                                              *)

ListerType ==
    /\ mu \in Callers \cup {NoCaller}
    /\ caller \in [Callers -> {"idle", "lock", "check", "fetch"}]
    /\ loaded \in BOOLEAN /\ retry \in Nat /\ since \in Nat
    /\ scan \in {"none", "running", "ok", "failed"}

(* The mutex is held for the check and for the scan.                       *)
Mutex ==
    \A c \in Callers : caller[c] \in {"check", "fetch"} <=> mu = c

(* How the last scan ended is what the two variables of the code say.      *)
ScanInv ==
    /\ scan = "running" => mu \in Callers /\ caller[mu] = "fetch"
    /\ scan = "ok" => loaded
    /\ scan = "failed" => since + retry = Cooldown

ListerInv == ListerType /\ Mutex /\ ScanInv

(* The step that ScansAreRare is about.                                    *)
RareStep ==
    \A c \in Callers :
      caller[c] # "fetch" /\ caller'[c] = "fetch" =>
        /\ \A d \in Callers : caller[d] # "fetch"
        /\ scan = "none" \/ (scan = "failed" /\ since = Cooldown)

LEMMA ListerInit ==
  ASSUME Lister!ListerAssumption, Lister!Init
  PROVE  ListerInv
<1>1. ListerType /\ ScanInv
  BY DEF Lister!Init, ListerType, ScanInv
<1>2. Mutex
  BY DEF Lister!ListerAssumption, Lister!Init, Mutex
<1> QED
  BY <1>1, <1>2 DEF ListerInv

LEMMA ListerNext ==
  ASSUME Lister!ListerAssumption, ListerInv, Lister!Next
  PROVE  ListerInv' /\ RareStep
<1> USE DEF Lister!ListerAssumption, ListerInv, ListerType, Mutex, ScanInv,
            RareStep, Lister!Goto, Lister!Return
<1>1. ASSUME NEW c \in Callers, Lister!Call(c) PROVE ListerInv' /\ RareStep
  BY <1>1 DEF Lister!Call
<1>2. ASSUME NEW c \in Callers, Lister!Lock(c) PROVE ListerInv' /\ RareStep
  BY <1>2 DEF Lister!Lock
<1>3. ASSUME NEW c \in Callers, Lister!Answer(c) PROVE ListerInv' /\ RareStep
  BY <1>3 DEF Lister!Answer
<1>4. ASSUME NEW c \in Callers, Lister!Fetch(c) PROVE ListerInv' /\ RareStep
  BY <1>4 DEF Lister!Fetch
<1>5. ASSUME NEW c \in Callers, Lister!Fetched(c) PROVE ListerInv' /\ RareStep
  BY <1>5 DEF Lister!Fetched
<1>6. ASSUME NEW c \in Callers, Lister!FetchFailed(c) PROVE ListerInv' /\ RareStep
  BY <1>6 DEF Lister!FetchFailed
<1>7. CASE Lister!Tick
  BY <1>7 DEF Lister!Tick
<1> QED
  BY <1>1, <1>2, <1>3, <1>4, <1>5, <1>6, <1>7
     DEF Lister!Next, Lister!Step

LEMMA ListerStays ==
  ListerInv /\ UNCHANGED listerVars => ListerInv' /\ RareStep
  BY DEF ListerInv, ListerType, Mutex, ScanInv, RareStep, listerVars

-----------------------------------------------------------------------------
(* The process.                                                            *)

RuntimeInv == LimitsInv /\ HTTPInv /\ ListerInv

LEMMA RuntimeInit == Init => RuntimeInv
<1> SUFFICES ASSUME Init PROVE RuntimeInv
  OBVIOUS
<1>1. LimitsInv
  BY RuntimeAssumption, LimitsStart DEF Init
<1> QED
  BY <1>1, HTTPInit, ListerInit, RuntimeAssumption DEF Init, RuntimeInv

LEMMA RuntimeNext ==
  ASSUME RuntimeInv, [Next]_vars
  PROVE  RuntimeInv' /\ RareStep
<1>1. LimitsInv'
  <2>1. LimitsNext \/ UNCHANGED limitsVars
    BY DEF Next, OnlyHTTP, OnlyLister, OnlyLimits, vars
  <2> QED
    BY <2>1, RuntimeAssumption, LimitsStep DEF RuntimeInv
<1>2. HTTPInv'
  <2>1. HTTP!Next \/ UNCHANGED httpVars
    BY DEF Next, OnlyLister, OnlyLimits, vars
  <2> QED
    BY <2>1, HTTPNext, HTTPStays DEF RuntimeInv
<1>3. ListerInv' /\ RareStep
  <2>1. Lister!Next \/ UNCHANGED listerVars
    BY DEF Next, OnlyHTTP, OnlyLimits, vars
  <2> QED
    BY <2>1, RuntimeAssumption, ListerNext, ListerStays DEF RuntimeInv
<1> QED
  BY <1>1, <1>2, <1>3 DEF RuntimeInv

(* The invariant of the process: the channels of the limits are balanced,  *)
(* the two ends of the shutdown agree, and the mutex of the service lister *)
(* is held for its scans.                                                  *)
THEOREM RuntimeInductive == Spec => []RuntimeInv
<1>1. RuntimeInv /\ [Next]_vars => RuntimeInv'
  BY RuntimeNext
<1> QED
  BY <1>1, RuntimeInit, PTL DEF Spec

(* Both semaphores of toolLimitsMiddleware count exactly the calls that    *)
(* hold a slot and queue exactly those that wait, however calls end.       *)
THEOREM SlotsAreExact == Spec => []SlotsExact
<1>1. RuntimeInv => SlotsExact
  BY RuntimeAssumption, LimitsProperties DEF RuntimeInv
<1> QED
  BY <1>1, RuntimeInductive, PTL

(* A profiler scan runs on a live context for at most its budget, the wait *)
(* for its slot included.                                                  *)
THEOREM BudgetIsShared == Spec => []OneBudget
<1>1. RuntimeInv => OneBudget
  BY RuntimeAssumption, LimitsProperties DEF RuntimeInv
<1> QED
  BY <1>1, RuntimeInductive, PTL

(* After a signal runHTTPWithAuth closes the pool and the store only when  *)
(* no live connection is served, the store last.                           *)
THEOREM DrainComesFirst == Spec => []ClosedAfterDrain
<1>1. RuntimeInv => ClosedAfterDrain
  BY DEF RuntimeInv, HTTPInv, HTTPType, MainInv, StopperInv, ClosedAfterDrain,
     HTTP!ClosedAfterDrain
<1> QED
  BY <1>1, RuntimeInductive, PTL

(* The cached lister scans once at a time, never again after a success,    *)
(* and after a failure only when its cooldown has passed.                  *)
THEOREM CompletionsScanRarely == Spec => ScansAreRare
<1>1. RuntimeInv /\ [Next]_vars => [RareStep]_Lister!vars
  BY RuntimeNext
<1> QED
  BY <1>1, RuntimeInductive, PTL
     DEF Spec, ScansAreRare, Lister!ScansAreRare, RareStep
===============================================================================
