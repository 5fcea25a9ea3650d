------------------------------ MODULE FirestoreTx ------------------------------
(***************************************************************************)
(* How authsrv/firestore_store.go runs its transactions: RunTransaction    *)
(* calls a closure in attempts, aborts the attempt when a document it read *)
(* has changed, and calls the closure again.  The closure tells the        *)
(* outcome through a variable of the enclosing function (replayed,         *)
(* revoked), which outlives an aborted attempt.                            *)
(*                                                                         *)
(* An attempt sees the documents when it reads them and writes when it     *)
(* commits.  RedeemCode reads the code only: its writes to the grant are   *)
(* blind (a merge) or conditional (a Create).                              *)
(*                                                                         *)
(* Firestore itself is external: a commit succeeds only if no document the *)
(* attempt has read was written in between, by whatever locks or checks.   *)
(***************************************************************************)
EXTENDS GrantRules

CONSTANTS
    Callers, CodeTTL, RefreshTTL, MaxTime, MaxSecrets,  \* as in AtomicStore
    MaxAttempts  \* attempts RunTransaction makes

ASSUME StoreAssumption ==
    /\ CodeTTL \in Nat /\ RefreshTTL \in Nat
    /\ MaxTime \in Nat /\ MaxSecrets \in Nat
    /\ MaxAttempts \in Nat \ {0}

VARIABLES clock, code, grant, secrets,  \* as in AtomicStore
          tx                            \* the store calls

vars == <<clock, code, grant, secrets, tx>>

Idle == [pc |-> "idle"]
Done(res) == [pc |-> "done", res |-> res]

(* plan: what the attempt will write; flag: the closure variable; stale: a *)
(* document this attempt has read was written since; tries: attempts begun *)
(* before this one.                                                        *)
Running(op) == [pc |-> "attempt", op |-> op, tries |-> 0, flag |-> FALSE,
                plan |-> "nothing", stale |-> FALSE]

(* The calls after documents were written by somebody.                     *)
StaleAfter(calls, wroteCode, wroteGrant) ==
    [p \in Callers |->
       IF /\ calls[p].pc = "commit"
          /\ IF calls[p].op.kind = "redeem" THEN wroteCode ELSE wroteGrant
       THEN [calls[p] EXCEPT !.stale = TRUE] ELSE calls[p]]

Init ==
    /\ clock = 0
    /\ code = NoCode /\ grant = NoGrant /\ secrets = 0
    /\ tx = [p \in Callers |-> Idle]

Invoke(p) ==
    /\ tx[p] = Idle
    /\ \E kind \in {"redeem", "rotate", "revoke", "revoke_if"},
          expected \in 0..MaxSecrets :
         LET brings == kind \in {"redeem", "rotate"}
             next == [status |-> "active", secret |-> secrets + 1, gen |-> 1,
                      exp |-> clock + RefreshTTL]
         IN  /\ expected <= secrets
             /\ expected = 0 <=> kind \in {"redeem", "revoke"}
             /\ brings => secrets < MaxSecrets
             /\ secrets' = IF brings THEN secrets + 1 ELSE secrets
             /\ tx' = [tx EXCEPT ![p] =
                         Running([kind |-> kind, expected |-> expected,
                                  next |-> IF brings THEN next ELSE NoGrant,
                                  now |-> clock])]
    /\ UNCHANGED <<clock, code, grant>>

-----------------------------------------------------------------------------
(* The closures.  What an attempt decides: to return an error from the     *)
(* closure, or to write a plan and set the flag.                           *)
Error(res) == [err |-> res, plan |-> "nothing", flag |-> FALSE]
Write(plan, flag) == [err |-> "none", plan |-> plan, flag |-> flag]

RedeemCode(op) ==
    LET decision == IF CodeFound(code) THEN codeRedemptionDecision(code, op.now)
                                       ELSE "not_found"
    IN  CASE decision = "code_replay" -> Write("merge_revoked", TRUE)
          [] decision = "not_found"   -> Error("not_found")
          [] OTHER                    -> Write("use_code", FALSE)

RotateGrant(op) ==
    LET decision == IF GrantFound(grant)
                    THEN grantRotationDecision(grant, op.expected, op.now)
                    ELSE "grant_inactive"
    IN  CASE decision = "grant_replay"   -> Write("update_revoked", TRUE)
          [] decision = "grant_inactive" -> Error("grant_inactive")
          [] OTHER                       -> Write("set_next", FALSE)

RevokeGrant(op) ==
    Write(IF GrantFound(grant) THEN "update_revoked" ELSE "nothing", FALSE)

RevokeGrantIfSecret(op) ==
    IF GrantFound(grant) /\ grantRevokePossessed(grant, op.expected)
    THEN Write("update_revoked", TRUE) ELSE Write("nothing", FALSE)

Closure(op) ==
    CASE op.kind = "redeem" -> RedeemCode(op)
      [] op.kind = "rotate" -> RotateGrant(op)
      [] op.kind = "revoke" -> RevokeGrant(op)
      [] OTHER              -> RevokeGrantIfSecret(op)

(* Variant: the closure does not reset its variable.                       *)
Attempt_KeepFlag(p) ==
    LET run == Closure(tx[p].op)
    IN  /\ tx[p].pc = "attempt"
        /\ tx' = [tx EXCEPT ![p] =
                    IF run.err # "none" THEN Done(run.err)
                    ELSE [@ EXCEPT !.pc = "commit", !.flag = @ \/ run.flag,
                                   !.plan = run.plan, !.stale = FALSE]]
        /\ UNCHANGED <<clock, code, grant, secrets>>

(* One run of the closure.  An error it returns ends the transaction.      *)
Attempt(p) ==
    LET run == Closure(tx[p].op)
    IN  /\ tx[p].pc = "attempt"
        /\ tx' = [tx EXCEPT ![p] =
                    IF run.err # "none" THEN Done(run.err)
                    ELSE [@ EXCEPT !.pc = "commit", !.flag = run.flag,
                                   !.plan = run.plan, !.stale = FALSE]]
        /\ UNCHANGED <<clock, code, grant, secrets>>

(* What the store method answers once RunTransaction returned nil.         *)
Answer(op, flag) ==
    CASE op.kind = "redeem" -> IF flag THEN "code_replay" ELSE "ok"
      [] op.kind = "rotate" -> IF flag THEN "grant_replay" ELSE "ok"
      [] op.kind = "revoke" -> "ok"
      [] OTHER              -> IF flag THEN "ok" ELSE "unchanged"

Written(plan, next) ==
    CASE plan = "merge_revoked"  -> IF GrantFound(grant)
                                    THEN revokeGrantRecord(grant) ELSE Tombstone
      [] plan = "update_revoked" -> revokeGrantRecord(grant)
      [] plan \in {"use_code", "set_next"} -> next
      [] OTHER                   -> grant

(* Variant: the attempt commits although what it read has changed, as a    *)
(* read outside the transaction would let it.                              *)
Commit_Blind(p) ==
    LET t == tx[p]
    IN  /\ t.pc = "commit"
        /\ code' = IF t.plan = "use_code" THEN [code EXCEPT !.status = "used"] ELSE code
        /\ grant' = Written(t.plan, t.op.next)
        /\ tx' = [StaleAfter(tx, t.plan = "use_code", t.plan # "nothing")
                    EXCEPT ![p] = Done(Answer(t.op, t.flag))]
        /\ UNCHANGED <<clock, secrets>>

(* The writes are applied, or none of them when the Create finds a grant.  *)
(* The answer may be lost.                                                 *)
Commit(p) ==
    LET t == tx[p]
        conflict == t.plan = "use_code" /\ GrantFound(grant)
        res == IF conflict THEN "conflict" ELSE Answer(t.op, t.flag)
    IN  /\ t.pc = "commit" /\ ~ t.stale
        /\ \E answer \in {res, "error"} :
             IF conflict
             THEN /\ tx' = [tx EXCEPT ![p] = Done(answer)]
                  /\ UNCHANGED <<code, grant>>
             ELSE /\ code' = IF t.plan = "use_code"
                             THEN [code EXCEPT !.status = "used"] ELSE code
                  /\ grant' = Written(t.plan, t.op.next)
                  /\ tx' = [StaleAfter(tx, t.plan = "use_code", t.plan # "nothing")
                              EXCEPT ![p] = Done(answer)]
        /\ UNCHANGED <<clock, secrets>>

(* Aborted: contention, or a document that was read has changed.           *)
Abort(p) ==
    /\ tx[p].pc = "commit"
    /\ LET tries == tx[p].tries + 1
       IN  tx' = [tx EXCEPT ![p] =
                    IF tries < MaxAttempts
                    THEN [@ EXCEPT !.pc = "attempt", !.tries = tries]
                    ELSE Done("error")]
    /\ UNCHANGED <<clock, code, grant, secrets>>

(* Any other error of a read or of the commit.                             *)
Fail(p) ==
    /\ tx[p].pc \in {"attempt", "commit"}
    /\ tx' = [tx EXCEPT ![p] = Done("error")]
    /\ UNCHANGED <<clock, code, grant, secrets>>

Return(p) ==
    /\ tx[p].pc = "done"
    /\ tx' = [tx EXCEPT ![p] = Idle]
    /\ UNCHANGED <<clock, code, grant, secrets>>

-----------------------------------------------------------------------------
(* The callback's Create, and deletions by the TTL policy.                 *)
PutCode ==
    /\ code.status = "none"
    /\ code' = [status |-> "active", exp |-> clock + CodeTTL, gexp |-> 0]
    /\ tx' = StaleAfter(tx, TRUE, FALSE)
    /\ UNCHANGED <<clock, grant, secrets>>

ExpireCode ==
    /\ CodeFound(code) /\ clock >= code.exp
    /\ code' = [code EXCEPT !.status = "gone"]
    /\ tx' = StaleAfter(tx, TRUE, FALSE)
    /\ UNCHANGED <<clock, grant, secrets>>

ExpireGrant ==
    /\ grant.exp > 0 /\ clock >= grant.exp
    /\ grant' = NoGrant
    /\ tx' = StaleAfter(tx, FALSE, TRUE)
    /\ UNCHANGED <<clock, code, secrets>>

Tick ==
    /\ clock < MaxTime
    /\ clock' = clock + 1
    /\ UNCHANGED <<code, grant, secrets, tx>>

Next ==
    \/ \E p \in Callers :
         Invoke(p) \/ Attempt(p) \/ Commit(p) \/ Abort(p) \/ Fail(p) \/ Return(p)
    \/ PutCode \/ ExpireCode \/ ExpireGrant \/ Tick

Spec == Init /\ [][Next]_vars

-----------------------------------------------------------------------------
(* Properties.                                                             *)

(* A call that answers "replay", or that it revoked the grant of the       *)
(* presented secret, has revoked it: the verdict of an aborted attempt     *)
(* never leaks into the answer.                                            *)
AnswerHonest ==
    [][\A p \in Callers :
         /\ tx[p].pc = "commit" /\ tx'[p].pc = "done"
         /\ \/ tx'[p].res \in {"code_replay", "grant_replay"}
            \/ tx[p].op.kind = "revoke_if" /\ tx'[p].res = "ok"
         => grant'.status = "revoked"]_vars

(* The store the callers see: an attempt that is still running has had no  *)
(* effect.                                                                 *)
callView ==
    [p \in Callers |->
       IF tx[p].pc \in {"attempt", "commit"}
       THEN [pc |-> "called", op |-> tx[p].op] ELSE tx[p]]

Store == INSTANCE AtomicStore WITH call <- callView

(* The transactions implement the atomic store: whatever the aborts,       *)
(* retries and lost answers, every call takes effect in one step on the    *)
(* documents as they are, and is answered by that step.                    *)
ImplementsStore == Store!Spec
===============================================================================
