---------------------------- MODULE FirestoreTxProofs ----------------------------
(***************************************************************************)
(* Proofs about FirestoreTx for any number of callers, attempts, secrets   *)
(* and any lifetimes: its transactions implement AtomicStore, and what a   *)
(* call answers is what it has written.                                    *)
(***************************************************************************)
EXTENDS FirestoreTx, TLAPS

Kinds == {"redeem", "rotate", "revoke", "revoke_if"}
OpRecord == [kind : Kinds, expected : Nat, next : GrantRecord, now : Nat]

Plans == {"nothing", "merge_revoked", "update_revoked", "use_code", "set_next"}
RunRecord ==
    [pc : {"attempt", "commit"}, op : OpRecord, tries : Nat, flag : BOOLEAN,
     plan : Plans, stale : BOOLEAN]
DoneRecord == [pc : {"done"}, res : Result \cup {"error"}]

TxType ==
    /\ clock \in Nat /\ secrets \in Nat
    /\ code \in CodeRecord /\ grant \in GrantRecord
    /\ tx \in [Callers -> {Idle} \cup RunRecord \cup DoneRecord]

(* An attempt that may still commit has decided what its closure would     *)
(* decide on the documents as they are now.                                *)
Fresh ==
    \A p \in Callers :
      tx[p].pc = "commit" /\ ~ tx[p].stale
        => Closure(tx[p].op) = Write(tx[p].plan, tx[p].flag)

TxInv == TxType /\ Fresh

-----------------------------------------------------------------------------
(* The closures, split over attempt and commit, are the atomic bodies.     *)

LEMMA RunTyped ==
  ASSUME TxType, NEW p \in Callers
  PROVE  /\ tx[p].pc \in {"attempt", "commit"} <=> tx[p] \in RunRecord
         /\ tx[p].pc = "done" <=> tx[p] \in DoneRecord
         /\ tx[p].pc = "idle" <=> tx[p] = Idle
  BY DEF TxType, Idle, RunRecord, DoneRecord

LEMMA ClosureTyped ==
  ASSUME TxType, NEW op \in OpRecord
  PROVE  /\ Closure(op) \in [err : Result \cup {"none"}, plan : Plans, flag : BOOLEAN]
         /\ Closure(op).err = "none"
              => Closure(op) = Write(Closure(op).plan, Closure(op).flag)
<1>1. CASE op.kind = "redeem"
  BY <1>1 DEF Closure, RedeemCode, Error, Write, codeRedemptionDecision, Result,
              Plans
<1>2. CASE op.kind = "rotate"
  BY <1>2 DEF Closure, RotateGrant, Error, Write, grantRotationDecision,
              grantActive, Result, Plans
<1>3. CASE op.kind = "revoke"
  BY <1>3 DEF Closure, RevokeGrant, Write, Plans
<1>4. CASE op.kind = "revoke_if"
  BY <1>4 DEF Closure, RevokeGrantIfSecret, Write, grantRevokePossessed, Plans
<1> QED
  BY <1>1, <1>2, <1>3, <1>4 DEF OpRecord, Kinds

(* A closure that returns an error: the atomic call writes nothing and has *)
(* that result.                                                            *)
LEMMA ErrorIsEffect ==
  ASSUME TxType, NEW op \in OpRecord, Closure(op).err # "none"
  PROVE  Store!Effect(op, code, grant)
           = [code |-> code, grant |-> grant, res |-> Closure(op).err]
<1>1. CASE op.kind = "redeem"
  BY <1>1 DEF Closure, RedeemCode, Error, Write, codeRedemptionDecision,
       CodeFound, Store!Effect, Store!RedeemCodeTx, Store!CodeFound,
       Store!codeRedemptionDecision
<1>2. CASE op.kind = "rotate"
  BY <1>2 DEF Closure, RotateGrant, Error, Write, grantRotationDecision,
       grantActive, GrantFound, Store!Effect, Store!RotateGrantTx,
       Store!GrantFound, Store!grantRotationDecision, Store!grantActive
<1>3. CASE op.kind \in {"revoke", "revoke_if"}
  BY <1>3 DEF Closure, RevokeGrant, RevokeGrantIfSecret, Write
<1> QED
  BY <1>1, <1>2, <1>3 DEF OpRecord, Kinds

(* What a commit writes, and what the method answers then.                 *)
Conflict(run) == run.plan = "use_code" /\ GrantFound(grant)
CodeAfter(run) ==
    IF run.plan = "use_code" THEN [code EXCEPT !.status = "used"] ELSE code

LEMMA CommitIsEffect ==
  ASSUME TxType, NEW run \in RunRecord, Closure(run.op) = Write(run.plan, run.flag)
  PROVE  Store!Effect(run.op, code, grant)
           = IF Conflict(run)
             THEN [code |-> code, grant |-> grant, res |-> "conflict"]
             ELSE [code  |-> CodeAfter(run), grant |-> Written(run.plan, run.op.next),
                   res   |-> Answer(run.op, run.flag)]
<1> DEFINE op == run.op
<1>1. op \in OpRecord /\ run.plan \in Plans /\ run.flag \in BOOLEAN
  BY DEF RunRecord
<1>2. /\ Closure(op).err = "none"
      /\ Closure(op).plan = run.plan /\ Closure(op).flag = run.flag
  BY DEF Write
<1>3. CASE op.kind = "redeem"
  <2>1. Closure(op) = RedeemCode(op)
    BY <1>3 DEF Closure
  <2>2. Store!Effect(op, code, grant)
          = Store!RedeemCodeTx(code, grant, op.next, op.now)
    BY <1>3 DEF Store!Effect
  <2>3. /\ CodeFound(code)
        /\ \/ /\ codeRedemptionDecision(code, op.now) = "code_replay"
              /\ run.plan = "merge_revoked" /\ run.flag = TRUE
           \/ /\ codeRedemptionDecision(code, op.now) = "ok"
              /\ run.plan = "use_code" /\ run.flag = FALSE
    <3> DEFINE decision == codeRedemptionDecision(code, op.now)
    <3>1. decision \in {"not_found", "code_replay", "ok"}
      BY DEF codeRedemptionDecision
    <3> HIDE DEF decision
    <3>2. CASE ~ CodeFound(code) \/ decision = "not_found"
      <4>1. RedeemCode(op) = Error("not_found")
        BY <3>2 DEF RedeemCode, decision
      <4> QED
        BY <1>2, <2>1, <4>1 DEF Error
    <3>3. CASE CodeFound(code) /\ decision = "code_replay"
      <4>1. RedeemCode(op) = Write("merge_revoked", TRUE)
        BY <3>3 DEF RedeemCode, decision
      <4> QED
        BY <1>2, <2>1, <3>3, <4>1 DEF Write, decision
    <3>4. CASE CodeFound(code) /\ decision = "ok"
      <4>1. RedeemCode(op) = Write("use_code", FALSE)
        BY <3>4 DEF RedeemCode, decision
      <4> QED
        BY <1>2, <2>1, <3>4, <4>1 DEF Write, decision
    <3> QED
      BY <3>1, <3>2, <3>3, <3>4
  <2> QED
    BY <1>3, <2>2, <2>3
       DEF Store!RedeemCodeTx, CodeFound, Store!CodeFound, codeRedemptionDecision,
           Store!codeRedemptionDecision, GrantFound, Store!GrantFound,
           revokeGrantRecord, Store!revokeGrantRecord, Tombstone,
           Store!Tombstone, Conflict, CodeAfter, Written, Answer
<1>4. CASE op.kind = "rotate"
  <2>1. Closure(op) = RotateGrant(op)
    BY <1>4 DEF Closure
  <2>2. Store!Effect(op, code, grant) =
          LET out == Store!RotateGrantTx(grant, op.expected, op.next, op.now)
          IN  [code |-> code, grant |-> out.grant, res |-> out.res]
    BY <1>4 DEF Store!Effect
  <2>3. /\ GrantFound(grant)
        /\ \/ /\ grantRotationDecision(grant, op.expected, op.now) = "grant_replay"
              /\ run.plan = "update_revoked" /\ run.flag = TRUE
           \/ /\ grantRotationDecision(grant, op.expected, op.now) = "ok"
              /\ run.plan = "set_next" /\ run.flag = FALSE
    <3> DEFINE decision == grantRotationDecision(grant, op.expected, op.now)
    <3>1. decision \in {"grant_inactive", "grant_replay", "ok"}
      BY DEF grantRotationDecision
    <3> HIDE DEF decision
    <3>2. CASE ~ GrantFound(grant) \/ decision = "grant_inactive"
      <4>1. RotateGrant(op) = Error("grant_inactive")
        BY <3>2 DEF RotateGrant, decision
      <4> QED
        BY <1>2, <2>1, <4>1 DEF Error
    <3>3. CASE GrantFound(grant) /\ decision = "grant_replay"
      <4>1. RotateGrant(op) = Write("update_revoked", TRUE)
        BY <3>3 DEF RotateGrant, decision
      <4> QED
        BY <1>2, <2>1, <3>3, <4>1 DEF Write, decision
    <3>4. CASE GrantFound(grant) /\ decision = "ok"
      <4>1. RotateGrant(op) = Write("set_next", FALSE)
        BY <3>4 DEF RotateGrant, decision
      <4> QED
        BY <1>2, <2>1, <3>4, <4>1 DEF Write, decision
    <3> QED
      BY <3>1, <3>2, <3>3, <3>4
  <2> QED
    BY <1>4, <2>2, <2>3
       DEF Store!RotateGrantTx, GrantFound, Store!GrantFound,
           grantRotationDecision, Store!grantRotationDecision, grantActive,
           Store!grantActive, revokeGrantRecord, Store!revokeGrantRecord,
           Conflict, CodeAfter, Written, Answer
<1>5. CASE op.kind = "revoke"
  BY <1>1, <1>5
     DEF Closure, RevokeGrant, Write, Store!Effect, Store!RevokeGrantTx,
         GrantFound, Store!GrantFound, revokeGrantRecord,
         Store!revokeGrantRecord, Conflict, CodeAfter, Written, Answer
<1>6. CASE op.kind = "revoke_if"
  BY <1>1, <1>6
     DEF Closure, RevokeGrantIfSecret, Write, Store!Effect,
         Store!RevokeGrantIfSecretTx, grantRevokePossessed,
         Store!grantRevokePossessed, GrantFound, Store!GrantFound,
         revokeGrantRecord, Store!revokeGrantRecord, Conflict, CodeAfter,
         Written, Answer
<1> QED
  BY <1>1, <1>3, <1>4, <1>5, <1>6 DEF OpRecord, Kinds

-----------------------------------------------------------------------------
(* What the steps leave of the calls.                                      *)

Out(p) == tx[p].pc \in {"attempt", "commit"}

LEMMA Viewed ==
  ASSUME NEW p \in Callers
  PROVE  callView[p] = IF Out(p) THEN [pc |-> "called", op |-> tx[p].op] ELSE tx[p]
  BY DEF callView, Out

(* A call goes on; the others at most learn that they are stale.           *)
Marked(q) ==
    \/ tx'[q] = tx[q]
    \/ tx[q].pc = "commit" /\ tx'[q] = [tx[q] EXCEPT !.stale = TRUE]

(* A call that is not marked has read documents that are as they were.     *)
Unread(q) ==
    tx[q].pc = "commit" /\ ~ tx'[q].stale
      => IF tx[q].op.kind = "redeem" THEN code' = code ELSE grant' = grant

LEMMA StaleEffect ==
  ASSUME TxType, NEW wroteCode \in BOOLEAN, NEW wroteGrant \in BOOLEAN,
         NEW q \in Callers, tx'[q] = StaleAfter(tx, wroteCode, wroteGrant)[q],
         ~ wroteCode => code' = code, ~ wroteGrant => grant' = grant
  PROVE  Marked(q) /\ Unread(q)
<1>1. CASE tx[q] \in RunRecord
  BY <1>1 DEF StaleAfter, Marked, Unread, RunRecord
<1>2. CASE tx[q].pc # "commit"
  BY <1>2 DEF StaleAfter, Marked, Unread
<1> QED
  BY <1>1, <1>2, RunTyped

LEMMA ClosureSame ==
  ASSUME NEW op, IF op.kind = "redeem" THEN code' = code ELSE grant' = grant
  PROVE  Closure(op)' = Closure(op)
  BY DEF Closure, RedeemCode, RotateGrant, RevokeGrant, RevokeGrantIfSecret,
         CodeFound, GrantFound

(* The invariant and the callers' view of a step that moves some calls.    *)
LEMMA CallsStep ==
  ASSUME TxInv, NEW S \in SUBSET Callers,
         clock' \in Nat, secrets' \in Nat, code' \in CodeRecord,
         grant' \in GrantRecord,
         tx' \in [Callers -> {Idle} \cup RunRecord \cup DoneRecord],
         \A q \in Callers \ S : Marked(q) /\ Unread(q),
         \A q \in S : \A op :
           tx'[q].pc = "commit" /\ op = tx'[q].op
             => Closure(op)' = Write(tx'[q].plan, tx'[q].flag)
  PROVE  TxInv' /\ \A q \in Callers \ S : callView'[q] = callView[q]
<1>1. ASSUME NEW q \in Callers, tx'[q].pc = "commit", ~ tx'[q].stale,
             NEW op, op = tx'[q].op
      PROVE  Closure(op)' = Write(tx'[q].plan, tx'[q].flag)
  <2>1. CASE q \in S
    BY <1>1, <2>1
  <2>2. CASE q \notin S
    <3>1. tx'[q] = tx[q] /\ Unread(q)
      <4>1. tx[q] \in RunRecord => tx'[q] # [tx[q] EXCEPT !.stale = TRUE]
        BY <1>1 DEF RunRecord
      <4> QED
        BY <2>2, <4>1, RunTyped DEF Marked, TxInv
    <3>2. Closure(op)' = Closure(op)
      BY <1>1, <3>1, ClosureSame DEF Unread
    <3> QED
      BY <1>1, <3>1, <3>2 DEF TxInv, Fresh
  <2> QED
    BY <2>1, <2>2
<1>2. ASSUME NEW q \in Callers \ S
      PROVE  callView'[q] = callView[q]
  <2>1. tx'[q] = tx[q] \/ (tx'[q].pc = "commit" /\ tx'[q].op = tx[q].op /\ Out(q))
    <3>1. tx[q] \in RunRecord => LET r == [tx[q] EXCEPT !.stale = TRUE]
                                IN  r.pc = tx[q].pc /\ r.op = tx[q].op
      BY DEF RunRecord
    <3> QED
      BY <1>2, <3>1, RunTyped DEF Marked, TxInv, Out
  <2> QED
    BY <2>1 DEF callView, Out
<1>3. Fresh'
  <2> SUFFICES ASSUME NEW q \in Callers, tx'[q].pc = "commit", ~ tx'[q].stale
               PROVE  (Closure(tx[q].op) = Write(tx[q].plan, tx[q].flag))'
    BY DEF Fresh
  <2>1. PICK op : op = tx'[q].op
    OBVIOUS
  <2>2. Closure(op)' = Write(tx'[q].plan, tx'[q].flag)
    BY <1>1, <2>1
  <2> QED
    BY <2>1, <2>2 DEF Closure, RedeemCode, RotateGrant, RevokeGrant,
                      RevokeGrantIfSecret, Write
<1> QED
  BY <1>2, <1>3 DEF TxInv, TxType

LEMMA CallStep ==
  ASSUME TxInv, NEW p \in Callers,
         clock' \in Nat, secrets' \in Nat, code' \in CodeRecord,
         grant' \in GrantRecord,
         tx' \in [Callers -> {Idle} \cup RunRecord \cup DoneRecord],
         \A q \in Callers : q # p => Marked(q) /\ Unread(q),
         \A op : tx'[p].pc = "commit" /\ op = tx'[p].op
                  => Closure(op)' = Write(tx'[p].plan, tx'[p].flag)
  PROVE  TxInv' /\ callView' = [callView EXCEPT ![p] = callView'[p]]
<1>1. TxInv' /\ \A q \in Callers \ {p} : callView'[q] = callView[q]
  BY CallsStep
<1> QED
  BY <1>1 DEF callView

LEMMA StaleTyped ==
  ASSUME TxType, NEW wroteCode \in BOOLEAN, NEW wroteGrant \in BOOLEAN
  PROVE  StaleAfter(tx, wroteCode, wroteGrant)
           \in [Callers -> {Idle} \cup RunRecord \cup DoneRecord]
<1>1. ASSUME NEW q \in Callers, tx[q].pc = "commit"
      PROVE  [tx[q] EXCEPT !.stale = TRUE] \in RunRecord
  BY <1>1, RunTyped DEF RunRecord
<1> QED
  BY <1>1 DEF StaleAfter, TxType

(* The documents that the operations write.                                *)
LEMMA WrittenTyped ==
  ASSUME TxType, NEW run \in RunRecord
  PROVE  CodeAfter(run) \in CodeRecord /\ Written(run.plan, run.op.next) \in GrantRecord
<1>1. /\ [code EXCEPT !.status = "used"] \in CodeRecord
      /\ revokeGrantRecord(grant) \in GrantRecord
      /\ Tombstone \in GrantRecord /\ run.op.next \in GrantRecord
  BY DEF TxType, CodeRecord, CodeStatus, GrantRecord, GrantStatus,
         revokeGrantRecord, Tombstone, RunRecord, OpRecord
<1> QED
  BY <1>1 DEF CodeAfter, Written, TxType

-----------------------------------------------------------------------------
(* The steps: what each does to the invariant and to the store that the    *)
(* callers see.                                                            *)

LEMMA InvokeStep ==
  ASSUME TxInv, NEW p \in Callers, Invoke(p)
  PROVE  TxInv' /\ Store!Invoke(p)
<1> DEFINE brings(kind) == kind \in {"redeem", "rotate"}
           next(kind) == IF brings(kind)
                         THEN [status |-> "active", secret |-> secrets + 1,
                               gen |-> 1, exp |-> clock + RefreshTTL]
                         ELSE NoGrant
           call(kind, expected) ==
             [kind |-> kind, expected |-> expected, next |-> next(kind),
              now |-> clock]
<1>1. PICK kind \in Kinds, expected \in 0..MaxSecrets :
        /\ expected <= secrets
        /\ expected = 0 <=> kind \in {"redeem", "revoke"}
        /\ brings(kind) => secrets < MaxSecrets
        /\ secrets' = IF brings(kind) THEN secrets + 1 ELSE secrets
        /\ tx' = [tx EXCEPT ![p] = Running(call(kind, expected))]
  BY Zenon DEF Invoke, Kinds
<1> PICK op : op = call(kind, expected)
  OBVIOUS
<1>2. /\ Running(op) \in RunRecord
      /\ Running(op).pc = "attempt" /\ Running(op).op = op
  <2>1. next(kind) \in GrantRecord
    BY StoreAssumption DEF TxInv, TxType, GrantRecord, GrantStatus, NoGrant
  <2> HIDE DEF next
  <2>2. op \in OpRecord
    BY <2>1, StoreAssumption DEF TxInv, TxType, OpRecord
  <2> QED
    BY <2>2 DEF Running, RunRecord, Plans
<1> HIDE DEF call
<1>3. /\ tx' \in [Callers -> {Idle} \cup RunRecord \cup DoneRecord]
      /\ tx'[p] = Running(op) /\ \A q \in Callers : q # p => tx'[q] = tx[q]
      /\ UNCHANGED <<clock, code, grant>> /\ secrets' \in Nat
  BY <1>1, <1>2 DEF Invoke, TxInv, TxType
<1>4. TxInv' /\ callView' = [callView EXCEPT ![p] = callView'[p]]
  BY <1>2, <1>3, CallStep DEF TxInv, TxType, Marked, Unread
<1>5. callView'[p] = Store!Called(op) /\ callView[p] = Store!Idle
  BY <1>2, <1>3 DEF callView, Invoke, Idle, Store!Idle, Store!Called
<1> QED
  BY <1>1, <1>3, <1>4, <1>5
     DEF Store!Invoke, Kinds, NoGrant, Store!NoGrant, call

(* A call is answered without an effect on the documents.                  *)
LEMMA AnswerStep ==
  ASSUME TxInv, NEW p \in Callers, NEW res \in Result \cup {"error"},
         tx' = [tx EXCEPT ![p] = Done(res)],
         UNCHANGED <<clock, code, grant, secrets>>
  PROVE  TxInv' /\ callView' = [callView EXCEPT ![p] = Store!Done(res)]
<1>1. Done(res) \in DoneRecord /\ Done(res).pc = "done"
  BY DEF Done, DoneRecord
<1>2. TxInv' /\ callView' = [callView EXCEPT ![p] = callView'[p]]
  BY <1>1, CallStep DEF TxInv, TxType, Marked, Unread
<1>3. callView'[p] = Store!Done(res)
  BY <1>1 DEF callView, Done, Store!Done, TxInv, TxType
<1> QED
  BY <1>2, <1>3

LEMMA FailStep ==
  ASSUME TxInv, NEW p \in Callers, Fail(p)
  PROVE  TxInv' /\ Store!Fail(p)
<1>1. callView[p].pc = "called"
  BY DEF Fail, callView
<1> QED
  BY <1>1, AnswerStep DEF Fail, Store!Fail

LEMMA ReturnStep ==
  ASSUME TxInv, NEW p \in Callers, Return(p)
  PROVE  TxInv' /\ Store!Return(p)
<1>1. TxInv' /\ callView' = [callView EXCEPT ![p] = callView'[p]]
  BY CallStep DEF Return, TxInv, TxType, Marked, Unread, Idle
<1>2. callView'[p] = Store!Idle /\ callView[p].pc = "done"
  BY DEF callView, Return, TxInv, TxType, Idle, Store!Idle
<1> QED
  BY <1>1, <1>2 DEF Return, Store!Return

(* An attempt changes nothing that the callers see, unless its closure     *)
(* returns an error: then the atomic call has taken effect with that       *)
(* result.                                                                 *)
LEMMA AttemptStep ==
  ASSUME TxInv, NEW p \in Callers, Attempt(p)
  PROVE  TxInv' /\ (Store!Perform(p) \/ UNCHANGED callView)
<1>1. /\ tx[p] \in RunRecord /\ tx[p].pc = "attempt"
      /\ UNCHANGED <<clock, code, grant, secrets>>
  BY RunTyped DEF Attempt, TxInv
<1> PICK op \in OpRecord : op = tx[p].op
  BY <1>1 DEF RunRecord
<1> PICK run \in [err : Result \cup {"none"}, plan : Plans, flag : BOOLEAN] :
         run = Closure(op)
  BY ClosureTyped DEF TxInv
<1>2. CASE run.err # "none"
  <2>1. run.err \in Result /\ tx' = [tx EXCEPT ![p] = Done(run.err)]
    BY <1>2 DEF Attempt
  <2>2. TxInv' /\ callView' = [callView EXCEPT ![p] = Store!Done(run.err)]
    BY <1>1, <2>1, AnswerStep
  <2>3. callView[p].pc = "called" /\ callView[p].op = op
    BY <1>1 DEF callView
  <2>4. Store!Effect(op, code, grant)
          = [code |-> code, grant |-> grant, res |-> run.err]
    BY <1>2, ErrorIsEffect DEF TxInv
  <2> QED
    BY <1>1, <2>2, <2>3, <2>4 DEF Store!Perform
<1>3. CASE run.err = "none"
  <2> DEFINE next == [tx[p] EXCEPT !.pc = "commit", !.flag = run.flag,
                                   !.plan = run.plan, !.stale = FALSE]
  <2>1. tx' = [tx EXCEPT ![p] = next]
    BY <1>3 DEF Attempt, TxInv, TxType
  <2>2. /\ next \in RunRecord /\ next.pc = "commit" /\ next.op = op
        /\ next.plan = run.plan /\ next.flag = run.flag
    BY <1>1 DEF RunRecord
  <2> HIDE DEF next
  <2>3. /\ tx' \in [Callers -> {Idle} \cup RunRecord \cup DoneRecord]
        /\ tx'[p] = next /\ \A q \in Callers : q # p => tx'[q] = tx[q]
    BY <2>1, <2>2 DEF TxInv, TxType
  <2>4. Closure(op) = Write(run.plan, run.flag)
    BY <1>3, ClosureTyped DEF TxInv
  <2>5. Closure(op)' = Closure(op)
    BY <1>1, ClosureSame
  <2>6. TxInv' /\ callView' = [callView EXCEPT ![p] = callView'[p]]
    BY <1>1, <2>2, <2>3, <2>4, <2>5, CallStep DEF TxInv, TxType, Marked, Unread
  <2>7. callView'[p] = callView[p]
    BY <1>1, <2>2, <2>3 DEF callView
  <2> QED
    BY <2>6, <2>7 DEF callView
<1> QED
  BY <1>2, <1>3

LEMMA AbortStep ==
  ASSUME TxInv, NEW p \in Callers, Abort(p)
  PROVE  TxInv' /\ (Store!Fail(p) \/ UNCHANGED callView)
<1>1. /\ tx[p] \in RunRecord /\ tx[p].pc = "commit"
      /\ UNCHANGED <<clock, code, grant, secrets>>
  BY RunTyped DEF Abort, TxInv
<1>2. CASE tx' = [tx EXCEPT ![p] = Done("error")]
  <2>1. callView[p].pc = "called"
    BY <1>1 DEF callView
  <2> QED
    BY <1>1, <1>2, <2>1, AnswerStep DEF Store!Fail
<1>3. CASE tx' = [tx EXCEPT ![p] = [tx[p] EXCEPT !.pc = "attempt",
                                                 !.tries = tx[p].tries + 1]]
  <2> PICK n \in Nat : n = tx[p].tries + 1
    BY <1>1 DEF RunRecord
  <2> DEFINE next == [tx[p] EXCEPT !.pc = "attempt", !.tries = n]
  <2>1. next \in RunRecord /\ next.pc = "attempt" /\ next.op = tx[p].op
    BY <1>1 DEF RunRecord
  <2>2. tx' = [tx EXCEPT ![p] = next]
    BY <1>3
  <2> HIDE DEF next
  <2>3. /\ tx' \in [Callers -> {Idle} \cup RunRecord \cup DoneRecord]
        /\ tx'[p] = next /\ \A q \in Callers : q # p => tx'[q] = tx[q]
    BY <2>1, <2>2 DEF TxInv, TxType
  <2>4. TxInv' /\ callView' = [callView EXCEPT ![p] = callView'[p]]
    BY <1>1, <2>1, <2>3, CallStep DEF TxInv, TxType, Marked, Unread
  <2>5. callView'[p] = callView[p]
    BY <1>1, <2>1, <2>3 DEF callView
  <2> QED
    BY <2>4, <2>5 DEF callView
<1> QED
  BY <1>1, <1>2, <1>3 DEF Abort, TxInv, TxType

(* A commit is the atomic call, on the documents as they are now.          *)
LEMMA CommitStep ==
  ASSUME TxInv, NEW p \in Callers, Commit(p)
  PROVE  TxInv' /\ Store!Perform(p)
<1>1. /\ tx[p] \in RunRecord /\ tx[p].pc = "commit" /\ ~ tx[p].stale
      /\ UNCHANGED <<clock, secrets>>
  BY RunTyped DEF Commit, TxInv
<1> PICK run \in RunRecord : run = tx[p]
  BY <1>1
<1>2. Closure(run.op) = Write(run.plan, run.flag)
  BY <1>1 DEF TxInv, Fresh
<1> PICK out : out = Store!Effect(run.op, code, grant)
  OBVIOUS
<1>3. callView[p].pc = "called" /\ Store!Effect(callView[p].op, code, grant) = out
  BY <1>1 DEF callView
<1>4. CASE Conflict(run)
  <2>1. out = [code |-> code, grant |-> grant, res |-> "conflict"]
    BY <1>2, <1>4, CommitIsEffect DEF TxInv
  <2>2. PICK answer \in {"conflict", "error"} :
          tx' = [tx EXCEPT ![p] = Done(answer)] /\ UNCHANGED <<code, grant>>
    BY <1>4 DEF Commit, Conflict
  <2>3. TxInv' /\ callView' = [callView EXCEPT ![p] = Store!Done(answer)]
    BY <1>1, <2>2, AnswerStep DEF Result
  <2>4. code' = out.code /\ grant' = out.grant /\ answer \in {out.res, "error"}
    BY <2>1, <2>2
  <2> QED
    BY <1>1, <1>3, <2>3, <2>4 DEF Store!Perform
<1>5. CASE ~ Conflict(run)
  <2> DEFINE wroteCode == run.plan = "use_code"
             wroteGrant == run.plan # "nothing"
             res == Answer(run.op, run.flag)
  <2>1. out = [code |-> CodeAfter(run), grant |-> Written(run.plan, run.op.next),
               res |-> res]
    BY <1>2, <1>5, CommitIsEffect DEF TxInv
  <2>2. PICK answer \in {res, "error"} :
          /\ code' = CodeAfter(run) /\ grant' = Written(run.plan, run.op.next)
          /\ tx' = [StaleAfter(tx, wroteCode, wroteGrant) EXCEPT ![p] = Done(answer)]
    BY <1>5 DEF Commit, Conflict, CodeAfter
  <2>3. Done(answer) \in DoneRecord /\ Done(answer).pc = "done"
    BY DEF Done, DoneRecord, Answer, Result
  <2>4. /\ ~ wroteCode => code' = code
        /\ ~ wroteGrant => grant' = grant
    BY <2>2 DEF CodeAfter, Written
  <2>5. /\ code' \in CodeRecord /\ grant' \in GrantRecord
        /\ wroteCode \in BOOLEAN /\ wroteGrant \in BOOLEAN
    BY <2>2, WrittenTyped DEF TxInv
  <2> HIDE DEF wroteCode, wroteGrant, res
  <2>6. /\ tx' \in [Callers -> {Idle} \cup RunRecord \cup DoneRecord]
        /\ tx'[p] = Done(answer)
        /\ \A q \in Callers : q # p => tx'[q] = StaleAfter(tx, wroteCode, wroteGrant)[q]
    BY <2>2, <2>3, <2>5, StaleTyped DEF TxInv
  <2>7. \A q \in Callers : q # p => Marked(q) /\ Unread(q)
    BY <2>4, <2>5, <2>6, StaleEffect DEF TxInv
  <2>8. TxInv' /\ callView' = [callView EXCEPT ![p] = callView'[p]]
    BY <1>1, <2>3, <2>5, <2>6, <2>7, CallStep DEF TxInv, TxType
  <2>9. callView'[p] = Store!Done(answer)
    BY <2>3, <2>6 DEF callView, Done, Store!Done
  <2>10. code' = out.code /\ grant' = out.grant /\ answer \in {out.res, "error"}
    BY <2>1, <2>2
  <2> QED
    BY <1>1, <1>3, <2>8, <2>9, <2>10 DEF Store!Perform
<1> QED
  BY <1>4, <1>5

(* The callback's Create and the TTL policy write under the feet of the    *)
(* attempts, which learn that they are stale.                              *)
LEMMA OutsideStep ==
  ASSUME TxInv, PutCode \/ ExpireCode \/ ExpireGrant \/ Tick \/ UNCHANGED vars
  PROVE  TxInv' /\ UNCHANGED callView
<1>1. \/ UNCHANGED <<code, grant, tx>>
      \/ UNCHANGED grant /\ tx' = StaleAfter(tx, TRUE, FALSE)
      \/ UNCHANGED code /\ tx' = StaleAfter(tx, FALSE, TRUE)
  BY DEF PutCode, ExpireCode, ExpireGrant, Tick, vars
<1>2. /\ clock' \in Nat /\ secrets' \in Nat
      /\ code' \in CodeRecord /\ grant' \in GrantRecord
  <2>1. CASE PutCode
    BY <2>1, StoreAssumption
       DEF PutCode, TxInv, TxType, CodeRecord, CodeStatus
  <2>2. CASE ExpireCode
    BY <2>2 DEF ExpireCode, TxInv, TxType, CodeRecord, CodeStatus
  <2>3. CASE ExpireGrant
    BY <2>3 DEF ExpireGrant, TxInv, TxType, GrantRecord, GrantStatus, NoGrant
  <2>4. CASE Tick \/ UNCHANGED vars
    BY <2>4 DEF Tick, vars, TxInv, TxType
  <2> QED
    BY <2>1, <2>2, <2>3, <2>4
<1>3. tx' \in [Callers -> {Idle} \cup RunRecord \cup DoneRecord]
  BY <1>1, StaleTyped DEF TxInv, TxType
<1>4. \A q \in Callers : Marked(q) /\ Unread(q)
  <2>1. CASE UNCHANGED <<code, grant, tx>>
    BY <2>1 DEF Marked, Unread
  <2>2. CASE UNCHANGED grant /\ tx' = StaleAfter(tx, TRUE, FALSE)
    BY <2>2, StaleEffect DEF TxInv
  <2>3. CASE UNCHANGED code /\ tx' = StaleAfter(tx, FALSE, TRUE)
    BY <2>3, StaleEffect DEF TxInv
  <2> QED
    BY <1>1, <2>1, <2>2, <2>3
<1>5. TxInv' /\ \A q \in Callers : callView'[q] = callView[q]
  <2> DEFINE S == {}
  <2>1. TxInv' /\ \A q \in Callers \ S : callView'[q] = callView[q]
    BY <1>2, <1>3, <1>4, CallsStep
  <2> QED
    BY <2>1
<1> QED
  BY <1>5 DEF callView

-----------------------------------------------------------------------------
(* The results.                                                            *)

LEMMA TxInit ==
  ASSUME Init
  PROVE  TxInv /\ Store!Init
<1>1. TxInv
  BY DEF Init, TxInv, TxType, Fresh, Idle, NoCode, NoGrant, CodeRecord, CodeStatus,
         GrantRecord, GrantStatus
<1>2. callView = [p \in Callers |-> Store!Idle]
  BY DEF Init, callView, Idle, Store!Idle
<1> QED
  BY <1>1, <1>2
     DEF Init, Store!Init, NoCode, Store!NoCode, NoGrant, Store!NoGrant

LEMMA TxNext ==
  ASSUME TxInv, [Next]_vars
  PROVE  TxInv' /\ [Store!Next]_Store!vars
<1>1. ASSUME NEW p \in Callers, Invoke(p)
      PROVE  TxInv' /\ Store!Next
  BY <1>1, InvokeStep DEF Store!Next
<1>2. ASSUME NEW p \in Callers, Attempt(p)
      PROVE  TxInv' /\ [Store!Next]_Store!vars
  BY <1>2, AttemptStep DEF Attempt, Store!Next, Store!vars
<1>3. ASSUME NEW p \in Callers, Commit(p)
      PROVE  TxInv' /\ Store!Next
  BY <1>3, CommitStep DEF Store!Next
<1>4. ASSUME NEW p \in Callers, Abort(p)
      PROVE  TxInv' /\ [Store!Next]_Store!vars
  BY <1>4, AbortStep DEF Abort, Store!Next, Store!vars
<1>5. ASSUME NEW p \in Callers, Fail(p) \/ Return(p)
      PROVE  TxInv' /\ Store!Next
  BY <1>5, FailStep, ReturnStep DEF Store!Next
<1>6. CASE PutCode \/ ExpireCode \/ ExpireGrant \/ Tick \/ UNCHANGED vars
  <2>1. TxInv' /\ UNCHANGED callView
    BY <1>6, OutsideStep
  <2>2. PutCode => Store!PutCode
    BY <2>1 DEF PutCode, Store!PutCode
  <2>3. ExpireCode => Store!ExpireCode
    BY <2>1 DEF ExpireCode, Store!ExpireCode, CodeFound, Store!CodeFound
  <2>4. ExpireGrant => Store!ExpireGrant
    BY <2>1 DEF ExpireGrant, Store!ExpireGrant, NoGrant, Store!NoGrant
  <2>5. Tick => Store!Tick
    BY <2>1 DEF Tick, Store!Tick
  <2>6. UNCHANGED vars => UNCHANGED Store!vars
    BY <2>1 DEF vars, Store!vars
  <2> QED
    BY <1>6, <2>1, <2>2, <2>3, <2>4, <2>5, <2>6 DEF Store!Next
<1> QED
  BY <1>1, <1>2, <1>3, <1>4, <1>5, <1>6 DEF Next

(* An attempt that may still commit has decided on documents that have not *)
(* changed since: Firestore aborts the others.                             *)
THEOREM AttemptsAreFresh == Spec => []TxInv
<1> QED
  BY TxInit, TxNext, PTL DEF Spec

(* RunTransaction's attempts, aborts, retries and lost answers are what    *)
(* the handlers may take for one atomic call of oauthStateStore.           *)
THEOREM StoreIsImplemented == Spec => ImplementsStore
<1> QED
  BY TxInit, TxNext, AttemptsAreFresh, PTL DEF Spec, ImplementsStore, Store!Spec

(* A call that leaves its commit has committed, or failed.                 *)
LEMMA OnlyCommitsAnswer ==
  ASSUME TxInv, [Next]_vars, NEW p \in Callers,
         tx[p].pc = "commit", tx'[p].pc = "done"
  PROVE  Commit(p) \/ tx'[p].res = "error"
<1>1. tx[p] \in RunRecord /\ [tx[p] EXCEPT !.stale = TRUE].pc = "commit"
  BY RunTyped DEF TxInv, RunRecord
<1>2. ~ Marked(p)
  BY <1>1 DEF Marked
<1>3. ASSUME NEW q \in Callers, q # p,
             Invoke(q) \/ Attempt(q) \/ Abort(q) \/ Fail(q) \/ Return(q)
      PROVE  FALSE
  BY <1>3 DEF Invoke, Attempt, Abort, Fail, Return, TxInv, TxType
<1>4. ASSUME NEW q \in Callers, q # p, Commit(q)
      PROVE  FALSE
  <2> DEFINE wroteCode == tx[q].plan = "use_code"
             wroteGrant == tx[q].plan # "nothing"
  <2>1. CASE \E answer : tx' = [tx EXCEPT ![q] = Done(answer)]
    BY <1>4, <2>1 DEF TxInv, TxType
  <2>2. CASE \E answer : tx' = [StaleAfter(tx, wroteCode, wroteGrant)
                                  EXCEPT ![q] = Done(answer)]
    BY <1>1, <1>4, <2>2 DEF StaleAfter
  <2> QED
    BY <1>4, <2>1, <2>2, Zenon DEF Commit
<1>5. ~ (PutCode \/ ExpireCode \/ ExpireGrant \/ Tick \/ UNCHANGED vars)
  BY <1>1 DEF PutCode, ExpireCode, ExpireGrant, Tick, vars, StaleAfter
<1>6. ~ (Invoke(p) \/ Attempt(p) \/ Return(p))
  BY DEF Invoke, Attempt, Return, Idle
<1>7. ASSUME Abort(p) \/ Fail(p)
      PROVE  tx'[p].res = "error"
  <2> DEFINE again == [tx[p] EXCEPT !.pc = "attempt", !.tries = tx[p].tries + 1]
  <2>1. again.pc = "attempt"
    BY <1>1 DEF RunRecord
  <2> HIDE DEF again
  <2>2. tx'[p] = again \/ tx'[p] = Done("error")
    BY <1>7 DEF Abort, Fail, TxInv, TxType, again
  <2> QED
    BY <2>1, <2>2 DEF Done
<1> QED
  BY <1>3, <1>4, <1>5, <1>6, <1>7 DEF Next

(* A closure sets its variable only when it revokes.                       *)
LEMMA FlagRevokes ==
  ASSUME TxType, NEW run \in RunRecord,
         Closure(run.op) = Write(run.plan, run.flag), run.flag = TRUE
  PROVE  ~ Conflict(run) /\ Written(run.plan, run.op.next).status = "revoked"
<1> PICK op \in OpRecord : op = run.op
  BY DEF RunRecord
<1>1. /\ Closure(op).flag = TRUE /\ Closure(op).plan = run.plan
  BY DEF Write
<1>2. run.plan \in {"merge_revoked", "update_revoked"}
  <2>1. CASE op.kind = "redeem"
    BY <1>1, <2>1 DEF Closure, RedeemCode, Write, Error
  <2>2. CASE op.kind = "rotate"
    BY <1>1, <2>2 DEF Closure, RotateGrant, Write, Error
  <2>3. CASE op.kind \in {"revoke", "revoke_if"}
    BY <1>1, <2>3 DEF Closure, RevokeGrant, RevokeGrantIfSecret, Write
  <2> QED
    BY <2>1, <2>2, <2>3 DEF OpRecord, Kinds
<1>3. revokeGrantRecord(grant).status = "revoked" /\ Tombstone.status = "revoked"
  BY DEF TxType, GrantRecord, revokeGrantRecord, Tombstone
<1> QED
  BY <1>2, <1>3 DEF Conflict, Written

(* The variable of the enclosing function (replayed, revoked) tells what   *)
(* the attempt that committed has decided, not an aborted one.             *)
THEOREM VerdictsAreHonest == Spec => AnswerHonest
<1> DEFINE Honest ==
      \A p \in Callers :
        /\ tx[p].pc = "commit" /\ tx'[p].pc = "done"
        /\ \/ tx'[p].res \in {"code_replay", "grant_replay"}
           \/ tx[p].op.kind = "revoke_if" /\ tx'[p].res = "ok"
        => grant'.status = "revoked"
<1>1. ASSUME TxInv, [Next]_vars
      PROVE  [Honest]_vars
  <2> SUFFICES ASSUME NEW p \in Callers, tx[p].pc = "commit", tx'[p].pc = "done",
                      \/ tx'[p].res \in {"code_replay", "grant_replay"}
                      \/ tx[p].op.kind = "revoke_if" /\ tx'[p].res = "ok"
               PROVE  grant'.status = "revoked"
    OBVIOUS
  <2>1. Commit(p)
    BY <1>1, OnlyCommitsAnswer
  <2>2. tx[p] \in RunRecord
    BY <1>1, RunTyped DEF TxInv
  <2> PICK run \in RunRecord : run = tx[p]
    BY <2>2
  <2>3. Closure(run.op) = Write(run.plan, run.flag)
    BY <1>1, <2>1 DEF Commit, TxInv, Fresh
  <2>4. CASE Conflict(run)
    <3>1. tx'[p].res \in {"conflict", "error"}
      BY <1>1, <2>1, <2>4 DEF Commit, Conflict, Done, TxInv, TxType
    <3> QED
      BY <3>1
  <2>5. CASE ~ Conflict(run)
    <3>1. /\ tx'[p].res \in {Answer(run.op, run.flag), "error"}
          /\ grant' = Written(run.plan, run.op.next)
      BY <1>1, <2>1, <2>5 DEF Commit, Conflict, Done, TxInv, TxType, StaleAfter
    <3>2. run.flag = TRUE
      BY <3>1 DEF Answer, RunRecord, OpRecord, Kinds
    <3> QED
      BY <1>1, <2>3, <3>1, <3>2, FlagRevokes DEF TxInv
  <2> QED
    BY <2>4, <2>5
<1> QED
  BY <1>1, AttemptsAreFresh, PTL DEF Spec, AnswerHonest
===============================================================================
