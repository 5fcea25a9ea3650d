------------------------------ MODULE GrantRules ------------------------------
(***************************************************************************)
(* The OAuth grant records kept in Firestore and the transition rules      *)
(* applied to them: authsrv/store.go (records), the decision functions of  *)
(* authsrv/grants.go and the bodies of the transactions of                 *)
(* authsrv/firestore_store.go.                                             *)
(*                                                                         *)
(* A transaction body is a function of the documents it reads.  It returns *)
(* the documents it writes and the classified result of the store call.    *)
(* GrantLifecycle applies the body in one step; FirestoreTx runs it in     *)
(* attempts that may be aborted and retried.                               *)
(*                                                                         *)
(* Secrets are numbered in the order in which they are stored; 0 is the    *)
(* empty hash of a record that carries none.  Times are naturals; exp = 0  *)
(* is a missing expires_at field.                                          *)
(***************************************************************************)
EXTENDS Naturals

CodeStatus == {"none", "active", "used", "gone"}

(* "none": the callback has not created the code; "gone": collected by the *)
(* TTL policy.  Firestore answers NotFound for both.                       *)
CodeRecord == [status : CodeStatus, exp : Nat, gexp : Nat]
NoCode == [status |-> "none", exp |-> 0, gexp |-> 0]
CodeFound(rec) == rec.status \in {"active", "used"}

(* "zero" is the status "" of the empty grantRecord{} that the replay      *)
(* paths hand to the store as the successor record.                        *)
GrantStatus == {"absent", "active", "revoked", "zero"}
GrantRecord == [status : GrantStatus, secret : Nat, gen : Nat, exp : Nat]
NoGrant   == [status |-> "absent",  secret |-> 0, gen |-> 0, exp |-> 0]
ZeroGrant == [status |-> "zero",    secret |-> 0, gen |-> 0, exp |-> 0]
(* Variant: the merge leaves a document with no other field at all.        *)
Tombstone_StatusOnly == [status |-> "revoked"]

(* What Set(..., MergeAll) leaves when the grant document did not exist.   *)
Tombstone == [status |-> "revoked", secret |-> 0, gen |-> 0, exp |-> 0]

GrantFound(rec) == rec.status # "absent"

-----------------------------------------------------------------------------
(* Decisions (grants.go).                                                  *)

(* Variant: only the expiry is tested.                                     *)
grantActive_NoStatus(rec, now) == now < rec.exp

grantActive(rec, now) == rec.status = "active" /\ now < rec.exp

(* Expiry is tested before the status: a used code that has expired is     *)
(* not_found, not a replay.                                                *)
codeRedemptionDecision(rec, now) ==
    IF now >= rec.exp THEN "not_found"
    ELSE IF rec.status # "active" THEN "code_replay" ELSE "ok"

(* Variant: rotation without comparing the active secret.                  *)
grantRotationDecision_NoCompare(rec, expected, now) ==
    IF grantActive(rec, now) THEN "ok" ELSE "grant_inactive"

(* Variant: rotation of a revoked family.                                  *)
grantRotationDecision_NoStatus(rec, expected, now) ==
    IF now >= rec.exp THEN "grant_inactive"
    ELSE IF rec.secret # expected THEN "grant_replay" ELSE "ok"

grantRotationDecision(rec, expected, now) ==
    IF ~ grantActive(rec, now) THEN "grant_inactive"
    ELSE IF rec.secret # expected THEN "grant_replay" ELSE "ok"

revokeGrantRecord(rec) == [rec EXCEPT !.status = "revoked"]

(* No status or expiry condition: a retry of /revoke must still match.     *)
grantRevokePossessed(rec, expected) == rec.secret = expected

-----------------------------------------------------------------------------
(* Transaction bodies (firestore_store.go).                                *)

Result == {"ok", "not_found", "code_replay", "grant_replay",
           "grant_inactive", "unchanged", "conflict"}

(* Replay merges the revocation into the grant document, creating it when  *)
(* it is missing; success marks the code used and creates the grant, which *)
(* fails when the document already exists.                                 *)
RedeemCodeTx(code, grant, next, now) ==
    LET decision == IF CodeFound(code) THEN codeRedemptionDecision(code, now)
                                       ELSE "not_found"
        revoked  == IF GrantFound(grant) THEN revokeGrantRecord(grant)
                                         ELSE Tombstone
        out(c, g, res) == [code |-> c, grant |-> g, res |-> res]
    IN  CASE decision = "not_found"   -> out(code, grant, "not_found")
          [] decision = "code_replay" -> out(code, revoked, "code_replay")
          [] OTHER -> IF GrantFound(grant)
                      THEN out(code, grant, "conflict")
                      ELSE out([code EXCEPT !.status = "used"], next, "ok")

(* Variant: a replay is classified but its revocation is not written.      *)
RotateGrantTx_NoRevoke(grant, expected, next, now) ==
    LET decision == IF GrantFound(grant)
                    THEN grantRotationDecision(grant, expected, now)
                    ELSE "grant_inactive"
    IN  [grant |-> IF decision = "ok" THEN next ELSE grant, res |-> decision]

RotateGrantTx(grant, expected, next, now) ==
    LET decision == IF GrantFound(grant)
                    THEN grantRotationDecision(grant, expected, now)
                    ELSE "grant_inactive"
        written  == [ok             |-> next,
                     grant_replay   |-> revokeGrantRecord(grant),
                     grant_inactive |-> grant]
    IN  [grant |-> written[decision], res |-> decision]

RevokeGrantTx(grant) ==
    [grant |-> IF GrantFound(grant) THEN revokeGrantRecord(grant) ELSE grant,
     res   |-> "ok"]

(* Variant: possession is not checked again in the transaction.            *)
RevokeGrantIfSecretTx_NoRecheck(grant, expected) == RevokeGrantTx(grant)

RevokeGrantIfSecretTx(grant, expected) ==
    IF GrantFound(grant) /\ grantRevokePossessed(grant, expected)
    THEN [grant |-> revokeGrantRecord(grant), res |-> "ok"]
    ELSE [grant |-> grant, res |-> "unchanged"]
===============================================================================
