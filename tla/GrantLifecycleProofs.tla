------------------------- MODULE GrantLifecycleProofs -------------------------
(***************************************************************************)
(* Proofs about GrantLifecycle for any families, requests, lifetimes and   *)
(* faults: type correctness, the inductive invariant IndInv, and what      *)
(* follows from it.                                                        *)
(***************************************************************************)
EXTENDS GrantLifecycle, TLAPS

(* The initial family of an idle request exists.                           *)
LEMMA AnyFamilyType == AnyFamily \in Families
  BY ConstantsAssumption DEF AnyFamily

(* A request that has just started, or has just been answered, is typed.   *)
LEMMA NewRequestType ==
  ASSUME TypeOK, NEW pc \in Pcs, NEW f \in Families
  PROVE  NewRequest(pc, f) \in Request
  BY DEF TypeOK, NewRequest, Request, NoGrant, GrantRecord, GrantStatus,
         Outcomes

LEMMA AnswerType ==
  ASSUME TypeOK, NEW r \in Requests, NEW out \in Outcomes, Answer(r, out)
  PROVE  req' \in [Requests -> Request]
  BY DEF TypeOK, Answer, Request, NoGrant, GrantRecord, GrantStatus, Pcs

LEMMA GotoType ==
  ASSUME TypeOK, NEW r \in Requests, NEW pc \in Pcs, Goto(r, pc)
  PROVE  req' \in [Requests -> Request]
  BY DEF TypeOK, Goto, Request

(* The transaction bodies map records to records.                          *)
LEMMA RedeemCodeTxType ==
  ASSUME NEW c \in CodeRecord, NEW g \in GrantRecord,
         NEW next \in GrantRecord, NEW now \in Nat
  PROVE  /\ RedeemCodeTx(c, g, next, now).code \in CodeRecord
         /\ RedeemCodeTx(c, g, next, now).grant \in GrantRecord
  BY DEF RedeemCodeTx, revokeGrantRecord, Tombstone, CodeRecord, GrantRecord,
         CodeStatus, GrantStatus

LEMMA RotateGrantTxType ==
  ASSUME NEW g \in GrantRecord, NEW next \in GrantRecord,
         NEW expected \in Nat, NEW now \in Nat
  PROVE  RotateGrantTx(g, expected, next, now).grant \in GrantRecord
  BY DEF RotateGrantTx, grantRotationDecision, revokeGrantRecord, GrantRecord,
         GrantStatus

LEMMA RevokeTxType ==
  ASSUME NEW g \in GrantRecord, NEW expected \in Nat
  PROVE  /\ RevokeGrantTx(g).grant \in GrantRecord
         /\ RevokeGrantIfSecretTx(g, expected).grant \in GrantRecord
  BY DEF RevokeGrantTx, RevokeGrantIfSecretTx, revokeGrantRecord, GrantRecord,
         GrantStatus

LEMMA ZeroGrantType == ZeroGrant \in GrantRecord /\ NoGrant \in GrantRecord
  BY DEF ZeroGrant, NoGrant, GrantRecord, GrantStatus

-----------------------------------------------------------------------------
(* Type correctness.                                                       *)

LEMMA InitType == Init => TypeOK
  BY AnyFamilyType, ZeroGrantType
     DEF Init, TypeOK, NoCode, CodeRecord, CodeStatus, AccessToken, Request,
         Pcs, Outcomes

LEMMA EnvironmentType == TypeOK /\ Environment => TypeOK'
<1> SUFFICES ASSUME TypeOK, Environment PROVE TypeOK'
  OBVIOUS
<1>1. CASE Tick
  BY <1>1 DEF TypeOK, Tick, store, tokens, history
<1>2. ASSUME NEW f \in Families, ExpireCode(f) PROVE TypeOK'
  BY <1>2 DEF TypeOK, ExpireCode, CodeRecord, CodeStatus, tokens, history
<1>3. ASSUME NEW f \in Families, ExpireGrant(f) PROVE TypeOK'
  BY <1>3, ZeroGrantType DEF TypeOK, ExpireGrant, tokens, history
<1>4. ASSUME NEW f \in Families, PutCode(f) PROVE TypeOK'
  BY <1>4, ConstantsAssumption
     DEF TypeOK, PutCode, CodeRecord, CodeStatus, tokens, history
<1> QED
  BY <1>1, <1>2, <1>3, <1>4 DEF Environment

LEMMA StartType ==
  ASSUME TypeOK, NEW r \in Requests, Start(r)
  PROVE  TypeOK'
<1>1. ASSUME NEW f \in Families, StartExchange(r, f) PROVE TypeOK'
  BY <1>1, NewRequestType
     DEF TypeOK, StartExchange, Pcs, store, tokens, history
<1>2. ASSUME NEW t \in refreshes, StartRefresh(r, t) PROVE TypeOK'
  BY <1>2, NewRequestType
     DEF TypeOK, StartRefresh, Pcs, Request, store, tokens, history
<1>3. ASSUME NEW t \in refreshes, StartRevokeRefresh(r, t) PROVE TypeOK'
  BY <1>3, NewRequestType
     DEF TypeOK, StartRevokeRefresh, Pcs, Request, store, tokens, history
<1>4. ASSUME NEW a \in accesses, StartRevokeAccess(r, a) PROVE TypeOK'
  BY <1>4, NewRequestType
     DEF TypeOK, StartRevokeAccess, AccessToken, Pcs, store, tokens, history
<1>5. ASSUME NEW a \in accesses, StartVerify(r, a) PROVE TypeOK'
  <2>1. /\ a.fam \in Families /\ a.exp \in Nat /\ a.gexp \in Nat
    BY <1>5 DEF TypeOK, AccessToken
  <2>2. NewRequest("verify", a.fam) \in Request
    BY <2>1, NewRequestType DEF Pcs
  <2>3. [NewRequest("verify", a.fam) EXCEPT !.exp = a.exp, !.gexp = a.gexp]
          \in Request
    BY <2>1, <2>2 DEF Request
  <2> QED
    BY <1>5, <2>3 DEF TypeOK, StartVerify, store, tokens, history
<1> QED
  BY <1>1, <1>2, <1>3, <1>4, <1>5 DEF Start

LEMMA StepType ==
  ASSUME TypeOK, NEW r \in Requests, Step(r)
  PROVE  TypeOK'
<1> USE DEF store, tokens, history
<1> req[r] \in Request /\ req[r].fam \in Families
  BY DEF TypeOK, Request
<1>1. CASE GetCode(r)
  BY <1>1, AnswerType, GotoType
     DEF TypeOK, GetCode, Request, CodeRecord, Pcs, Outcomes
<1>2. CASE ReplayCode(r)
  <2> DEFINE tx == RedeemCodeTx(codes[req[r].fam], grants[req[r].fam],
                                ZeroGrant, req[r].now)
  <2>1. tx.code \in CodeRecord /\ tx.grant \in GrantRecord
    BY RedeemCodeTxType, ZeroGrantType DEF TypeOK, Request
  <2>2. req' \in [Requests -> Request]
    BY <1>2, AnswerType DEF ReplayCode, Outcomes
  <2> HIDE DEF tx
  <2> QED
    BY <1>2, <2>1, <2>2 DEF TypeOK, ReplayCode, tx
<1>3. CASE RedeemCode(r)
  <2> DEFINE next == [status |-> "active", secret |-> issued[req[r].fam] + 1,
                      gen |-> 1, exp |-> req[r].now + RefreshTTL]
  <2>1. next \in GrantRecord /\ next.secret \in Nat
    BY ConstantsAssumption DEF TypeOK, Request, GrantRecord, GrantStatus
  <2> DEFINE tx == RedeemCodeTx(codes[req[r].fam], grants[req[r].fam],
                                next, req[r].now)
  <2>2. tx.code \in CodeRecord /\ tx.grant \in GrantRecord
    BY <2>1, RedeemCodeTxType DEF TypeOK, Request
  <2>3. req' \in [Requests -> Request]
    BY <1>3, <2>1, AnswerType DEF TypeOK, RedeemCode, Request, Outcomes, Pcs
  <2>4. codes' \in [Families -> CodeRecord] /\ grants' \in [Families -> GrantRecord]
    <3> HIDE DEF tx
    <3> QED BY <1>3, <2>2 DEF TypeOK, RedeemCode, tx
  <2>5. /\ issued' \in [Families -> Nat] /\ birth' \in [Families -> Nat]
        /\ rotations' \subseteq Families \X Nat \X Nat /\ lost' \subseteq Families
    BY <1>3, <2>1 DEF TypeOK, RedeemCode, Request, Committed
  <2> QED
    BY <1>3, <2>3, <2>4, <2>5 DEF TypeOK, RedeemCode
<1>4. CASE Mint(r)
  BY <1>4, AnswerType, ConstantsAssumption
     DEF TypeOK, Mint, Request, AccessToken, Outcomes
<1>5. CASE PrepareRefresh(r)
  BY <1>5, AnswerType, GotoType
     DEF TypeOK, PrepareRefresh, Request, Pcs, Outcomes
<1>6. CASE ReplayGrant(r)
  <2> DEFINE tx == RotateGrantTx(grants[req[r].fam], req[r].secret,
                                 ZeroGrant, req[r].now)
  <2>1. tx.grant \in GrantRecord
    BY RotateGrantTxType, ZeroGrantType DEF TypeOK, Request
  <2>2. req' \in [Requests -> Request]
    BY <1>6, AnswerType DEF ReplayGrant, Outcomes
  <2> HIDE DEF tx
  <2> QED
    BY <1>6, <2>1, <2>2 DEF TypeOK, ReplayGrant, tx
<1>7. CASE IdpRefresh(r)
  BY <1>7, AnswerType, GotoType, ConstantsAssumption
     DEF TypeOK, IdpRefresh, Request, Pcs, Outcomes
<1>8. CASE RevokeFamily(r)
  BY <1>8, AnswerType, RevokeTxType
     DEF TypeOK, RevokeFamily, Request, Outcomes
<1>9. CASE RotateRefresh(r)
  <2> DEFINE next == [status |-> "active", secret |-> issued[req[r].fam] + 1,
                      gen |-> req[r].rec.gen + 1, exp |-> req[r].rec.exp]
  <2>1. next \in GrantRecord /\ next.secret \in Nat /\ req[r].rec.secret \in Nat
    BY DEF TypeOK, Request, GrantRecord, GrantStatus
  <2>2. req' \in [Requests -> Request]
    BY <1>9, <2>1, AnswerType DEF TypeOK, RotateRefresh, Request, Outcomes, Pcs
  <2> DEFINE tx == RotateGrantTx(grants[req[r].fam], req[r].rec.secret,
                                 next, req[r].now)
  <2>3. tx.grant \in GrantRecord
    BY <2>1, RotateGrantTxType DEF TypeOK, Request
  <2>4. grants' \in [Families -> GrantRecord]
    <3> HIDE DEF tx
    <3> QED BY <1>9, <2>3 DEF TypeOK, RotateRefresh, tx
  <2>5. /\ issued' \in [Families -> Nat]
        /\ rotations' \subseteq Families \X Nat \X Nat /\ lost' \subseteq Families
    BY <1>9, <2>1 DEF TypeOK, RotateRefresh, Request, Committed
  <2> QED
    BY <1>9, <2>2, <2>4, <2>5 DEF TypeOK, RotateRefresh
<1>10. CASE RevokeGrant(r)
  BY <1>10, AnswerType, GotoType, RevokeTxType
     DEF TypeOK, RevokeGrant, Request, Pcs, Outcomes
<1>11. CASE RevokeGet(r)
  BY <1>11, AnswerType, GotoType
     DEF TypeOK, RevokeGet, Request, Pcs, Outcomes
<1>12. CASE RevokeGrantIfSecret(r)
  <2> DEFINE tx == RevokeGrantIfSecretTx(grants[req[r].fam], req[r].secret)
  <2>1. tx.grant \in GrantRecord
    BY RevokeTxType DEF TypeOK, Request
  <2>2. req' \in [Requests -> Request]
    BY <1>12, AnswerType, GotoType DEF RevokeGrantIfSecret, Outcomes, Pcs
  <2> HIDE DEF tx
  <2> QED
    BY <1>12, <2>1, <2>2 DEF TypeOK, RevokeGrantIfSecret, tx
<1>13. CASE UpstreamRevoke(r)
  BY <1>13, AnswerType DEF TypeOK, UpstreamRevoke, Outcomes
<1>14. CASE VerifyAccess(r)
  BY <1>14, AnswerType DEF TypeOK, VerifyAccess, Request, Pcs, Outcomes
<1>15. ASSUME NEW pc \in Reads, ReadFails(r, pc) PROVE TypeOK'
  BY <1>15, AnswerType DEF TypeOK, ReadFails, Outcomes
<1> QED
  BY <1>1, <1>2, <1>3, <1>4, <1>5, <1>6, <1>7, <1>8, <1>9, <1>10, <1>11,
     <1>12, <1>13, <1>14, <1>15 DEF Step

(* The variables keep their types in every behaviour: no store call,       *)
(* answer or clock step produces a malformed record.                       *)
THEOREM TypeCorrect == Spec => []TypeOK
<1>1. TypeOK /\ [Next]_vars => TypeOK'
  <2>1. TypeOK /\ Next => TypeOK'
    BY EnvironmentType, StartType, StepType DEF Next
  <2>2. TypeOK /\ UNCHANGED vars => TypeOK'
    BY DEF TypeOK, vars
  <2> QED
    BY <2>1, <2>2
<1> QED
  BY InitType, <1>1, PTL DEF Spec

-----------------------------------------------------------------------------
(* What the transactions do to a grant record.                             *)

(* A record is weakened: unchanged, deleted, revoked or a tombstone.       *)
Weaker(g, h) ==
    h = g \/ h = NoGrant \/ h = revokeGrantRecord(g) \/ h = Tombstone

LEMMA RedeemCodeTxFacts ==
  ASSUME NEW c \in CodeRecord, NEW g \in GrantRecord,
         NEW next \in GrantRecord, NEW now \in Nat
  PROVE  LET tx == RedeemCodeTx(c, g, next, now)
         IN  /\ tx.res = "ok" => /\ c.status = "active"
                                 /\ g.status = "absent"
                                 /\ tx.code.status = "used"
                                 /\ tx.grant = next
             /\ tx.res # "ok" => /\ tx.code = c
                                 /\ \/ tx.grant = g
                                    \/ /\ c.status = "used"
                                       /\ Weaker(g, tx.grant)
  BY DEF RedeemCodeTx, CodeFound, codeRedemptionDecision, GrantFound, Weaker,
         CodeRecord, CodeStatus

LEMMA RotateGrantTxFacts ==
  ASSUME NEW g \in GrantRecord, NEW next \in GrantRecord,
         NEW expected \in Nat, NEW now \in Nat
  PROVE  LET tx == RotateGrantTx(g, expected, next, now)
         IN  /\ tx.res = "ok" => /\ grantActive(g, now)
                                 /\ g.secret = expected
                                 /\ tx.grant = next
             /\ tx.res # "ok" =>
                  \/ /\ tx.grant = g
                     /\ ~ grantActive(g, now)
                  \/ /\ tx.grant = revokeGrantRecord(g)
                     /\ g.status = "active" /\ g.secret # expected
  BY DEF RotateGrantTx, GrantFound, grantActive, grantRotationDecision,
         GrantRecord

LEMMA RevokeTxFacts ==
  ASSUME NEW g \in GrantRecord, NEW expected \in Nat
  PROVE  /\ RevokeGrantTx(g).grant.status # "active"
         /\ Weaker(g, RevokeGrantTx(g).grant)
         /\ Weaker(g, RevokeGrantIfSecretTx(g, expected).grant)
         /\ RevokeGrantIfSecretTx(g, expected).res = "ok"
              => RevokeGrantIfSecretTx(g, expected).grant.status # "active"
  BY DEF RevokeGrantTx, RevokeGrantIfSecretTx, revokeGrantRecord, GrantFound,
         Weaker, GrantRecord

(* Weakening keeps what the family invariants say of a record, provided a  *)
(* family that was never issued stays without a record.                    *)
LEMMA WeakerFacts ==
  ASSUME NEW g \in GrantRecord, NEW h, Weaker(g, h)
  PROVE  /\ h.status = "active" => h = g
         /\ h.status = "zero" => h = g
         /\ h.secret > 0 => /\ h.secret = g.secret
                            /\ h.gen = g.gen /\ h.exp = g.exp
  BY DEF Weaker, NoGrant, Tombstone, revokeGrantRecord, GrantRecord

-----------------------------------------------------------------------------
(* What every step leaves true of every family.  It is what a request can  *)
(* rely on while the others move, and it contains NoResurrection.          *)

Evolves ==
    \A f \in Families :
      /\ issued[f] <= issued'[f]
      /\ issued[f] > 0 => birth'[f] = birth[f]
      /\ issued[f] > 0 /\ grants[f].status # "active"
           => grants'[f].status # "active"
      /\ codes[f].status \in {"used", "gone"}
           => codes'[f].status \in {"used", "gone"}

(* The knowledge of a request is stable under the steps of the others.     *)
LEMMA KnowledgeIsStable ==
  ASSUME TypeOK, TypeOK', Evolves,
         NEW s \in Requests, Knows(s), req'[s] = req[s]
  PROVE  Knows(s)'
<1> /\ req[s] \in Request /\ req[s].fam \in Families
    /\ req[s].secret \in Nat
  BY DEF TypeOK, Request
<1> /\ issued[req[s].fam] \in Nat /\ issued'[req[s].fam] \in Nat
  BY DEF TypeOK
<1>1. (0 < req[s].secret /\ req[s].secret <= issued[req[s].fam])
        => issued[req[s].fam] > 0
  OBVIOUS
<1> QED
  BY <1>1 DEF Knows, Evolves

FamilyInv == NewestIsActive /\ CodeGuardsFirst /\ Chain /\ HeldWereIssued
             /\ ZeroNeverStored

(* Steps that change nothing but one request.                              *)
LEMMA OnlyRequests ==
  ASSUME TypeOK, FamilyInv, UNCHANGED <<clock, store, issued, tokens, history>>
  PROVE  FamilyInv' /\ Evolves
  BY DEF FamilyInv, NewestIsActive, CodeGuardsFirst, Chain, HeldWereIssued,
         ZeroNeverStored, Evolves, TypeOK, store, tokens, history

(* Steps that weaken the grant of one family that was issued.              *)
LEMMA OnlyWeakens ==
  ASSUME TypeOK, FamilyInv, NEW f \in Families, NEW g,
         Weaker(grants[f], g), g # grants[f] => issued[f] > 0,
         grants' = [grants EXCEPT ![f] = g],
         UNCHANGED <<codes, issued, tokens, rotations, birth>>
  PROVE  FamilyInv' /\ Evolves
<1> grants[f] \in GrantRecord
  BY DEF TypeOK
<1>1. /\ g.status = "active" => g = grants[f]
      /\ g.status = "zero" => g = grants[f]
      /\ g.secret > 0 => /\ g.secret = grants[f].secret
                         /\ g.gen = grants[f].gen /\ g.exp = grants[f].exp
  BY WeakerFacts
<1>2. \A e \in Families : e # f => grants'[e] = grants[e]
  BY DEF TypeOK
<1>3. grants'[f] = g
  BY DEF TypeOK
<1>4. NewestIsActive'
  BY <1>1, <1>2, <1>3 DEF FamilyInv, NewestIsActive
<1>5. CodeGuardsFirst'
  BY <1>2, <1>3 DEF FamilyInv, CodeGuardsFirst, TypeOK
<1>6. Chain' /\ HeldWereIssued'
  BY DEF FamilyInv, Chain, HeldWereIssued, tokens
<1>7. ZeroNeverStored'
  BY <1>1, <1>2, <1>3 DEF FamilyInv, ZeroNeverStored
<1>8. Evolves
  BY <1>1, <1>2, <1>3 DEF Evolves, TypeOK
<1> QED
  BY <1>4, <1>5, <1>6, <1>7, <1>8 DEF FamilyInv

-----------------------------------------------------------------------------
(* IndInv is inductive: the environment.                                   *)

LEMMA EnvironmentInv ==
  ASSUME TypeOK, TypeOK', IndInv, Environment
  PROVE  FamilyInv' /\ Evolves /\ UNCHANGED req
<1> FamilyInv
  BY DEF IndInv, FamilyInv
<1>1. CASE Tick
  BY <1>1 DEF Tick, FamilyInv, NewestIsActive, CodeGuardsFirst, Chain,
     HeldWereIssued, ZeroNeverStored, Evolves, TypeOK, store, tokens, history
<1>2. ASSUME NEW f \in Families, ExpireCode(f)
      PROVE  FamilyInv' /\ Evolves /\ UNCHANGED req
  BY <1>2 DEF ExpireCode, CodeFound, FamilyInv, NewestIsActive,
     CodeGuardsFirst, Chain, HeldWereIssued, ZeroNeverStored, Evolves, TypeOK,
     CodeRecord, tokens, history
<1>3. ASSUME NEW f \in Families, ExpireGrant(f)
      PROVE  FamilyInv' /\ Evolves /\ UNCHANGED req
  <2>1. Weaker(grants[f], NoGrant)
    BY DEF Weaker
  <2>2. issued[f] > 0
    BY <1>3 DEF ExpireGrant, FamilyInv, CodeGuardsFirst, NoGrant, TypeOK
  <2>3. /\ grants' = [grants EXCEPT ![f] = NoGrant]
        /\ UNCHANGED <<codes, issued, tokens, rotations, birth>>
    BY <1>3 DEF ExpireGrant, history
  <2> QED
    BY <1>3, <2>1, <2>2, <2>3, OnlyWeakens DEF ExpireGrant
<1>4. ASSUME NEW f \in Families, PutCode(f)
      PROVE  FamilyInv' /\ Evolves /\ UNCHANGED req
  BY <1>4 DEF PutCode, FamilyInv, NewestIsActive, CodeGuardsFirst, Chain,
     HeldWereIssued, ZeroNeverStored, Evolves, TypeOK, CodeRecord, tokens,
     history
<1> QED
  BY <1>1, <1>2, <1>3, <1>4 DEF Environment

-----------------------------------------------------------------------------
(* IndInv is inductive: requests.                                          *)

Others(r) == \A s \in Requests : s # r => req'[s] = req[s]

LEMMA AnswerInv ==
  ASSUME TypeOK, NEW r \in Requests, NEW out \in Outcomes, Answer(r, out),
         out # "accepted",
         out = "refresh_replayed" => /\ issued'[req[r].fam] > 0
                                     /\ grants'[req[r].fam].status # "active"
  PROVE  Knows(r)' /\ Others(r)
  BY DEF TypeOK, Answer, Knows, Others

(* A request that only moves on.                                           *)
LEMMA GotoFacts ==
  ASSUME TypeOK, NEW r \in Requests, NEW pc, Goto(r, pc)
  PROVE  /\ req'[r].pc = pc /\ Others(r)
         /\ req'[r].fam = req[r].fam /\ req'[r].out = req[r].out
         /\ req'[r].now = req[r].now /\ req'[r].secret = req[r].secret
         /\ req'[r].gexp = req[r].gexp /\ req'[r].rec = req[r].rec
  BY DEF TypeOK, Goto, Request, Others

LEMMA StartInv ==
  ASSUME TypeOK, TypeOK', IndInv, NEW r \in Requests, Start(r)
  PROVE  FamilyInv' /\ Evolves /\ Knows(r)' /\ Others(r)
<1> FamilyInv
  BY DEF IndInv, FamilyInv
<1> /\ UNCHANGED <<clock, store, issued, tokens, history>>
  BY DEF Start, StartExchange, StartRefresh, StartRevokeRefresh,
         StartRevokeAccess, StartVerify
<1>1. FamilyInv' /\ Evolves
  BY OnlyRequests
<1>2. Others(r)
  BY DEF Start, StartExchange, StartRefresh, StartRevokeRefresh,
         StartRevokeAccess, StartVerify, Others, TypeOK
<1>3. ASSUME NEW f \in Families, StartExchange(r, f) PROVE Knows(r)'
  BY <1>3 DEF StartExchange, NewRequest, Knows, TypeOK
<1>4. ASSUME NEW t \in refreshes, StartRefresh(r, t) PROVE Knows(r)'
  BY <1>4 DEF StartRefresh, NewRequest, Knows, TypeOK, FamilyInv,
     HeldWereIssued, store, tokens, history
<1>5. ASSUME NEW t \in refreshes, StartRevokeRefresh(r, t) PROVE Knows(r)'
  BY <1>5 DEF StartRevokeRefresh, NewRequest, Knows, TypeOK, FamilyInv,
     HeldWereIssued, store, tokens, history
<1>6. ASSUME NEW a \in accesses, StartRevokeAccess(r, a) PROVE Knows(r)'
  BY <1>6 DEF StartRevokeAccess, NewRequest, Knows, TypeOK, FamilyInv,
     HeldWereIssued, store, tokens, history
<1>7. ASSUME NEW a \in accesses, StartVerify(r, a) PROVE Knows(r)'
  BY <1>7 DEF StartVerify, NewRequest, Knows, TypeOK, FamilyInv,
     HeldWereIssued, store, tokens, history
<1> QED
  BY <1>1, <1>2, <1>3, <1>4, <1>5, <1>6, <1>7 DEF Start

(* Steps of a request that only read.                                      *)
ReadStep(r) ==
    \/ GetCode(r) \/ PrepareRefresh(r) \/ IdpRefresh(r) \/ RevokeGet(r)
    \/ UpstreamRevoke(r) \/ VerifyAccess(r)
    \/ \E pc \in Reads : ReadFails(r, pc)

LEMMA ReadStepInv ==
  ASSUME TypeOK, TypeOK', IndInv, NEW r \in Requests, ReadStep(r)
  PROVE  FamilyInv' /\ Evolves /\ Knows(r)' /\ Others(r)
<1> /\ FamilyInv /\ Knows(r)
  BY DEF IndInv, FamilyInv, RequestInv
<1> DEFINE f == req[r].fam
<1> /\ req[r] \in Request /\ f \in Families /\ grants[f] \in GrantRecord
    /\ req \in [Requests -> Request]
  BY DEF TypeOK, Request
<1> UNCHANGED <<clock, store, issued, tokens, history>>
  BY DEF ReadStep, GetCode, PrepareRefresh, IdpRefresh, RevokeGet,
         UpstreamRevoke, VerifyAccess, ReadFails
<1>1. FamilyInv' /\ Evolves
  BY OnlyRequests
<1> USE DEF store, history
<1>2. CASE GetCode(r)
  <2>1. CASE Answer(r, "rejected")
    BY <1>1, <2>1, AnswerInv DEF Outcomes
  <2>2. CASE codes[f].status = "used" /\ Goto(r, "replayCode")
    BY <1>1, <1>2, <2>2, GotoFacts DEF GetCode, Knows
  <2>3. CASE req' = [req EXCEPT ![r].pc = "redeem", ![r].gexp = codes[f].gexp]
    <3>1. /\ req'[r].pc = "redeem" /\ req'[r].out = req[r].out
      BY <2>3 DEF Request
    <3>2. Others(r)
      BY <2>3 DEF Others
    <3> QED
      BY <1>1, <1>2, <3>1, <3>2 DEF GetCode, Knows
  <2> QED
    BY <1>2, <2>1, <2>2, <2>3 DEF GetCode
<1>3. CASE PrepareRefresh(r)
  <2>1. CASE Answer(r, "rejected")
    BY <1>1, <2>1, AnswerInv DEF Outcomes
  <2>2. CASE /\ grantActive(grants[f], req[r].now)
             /\ grants[f].secret # req[r].secret /\ Goto(r, "replayGrant")
    <3>1. /\ grants[f].secret = issued[f]
          /\ grants[f].exp = birth[f] + RefreshTTL
          /\ req[r].now < grants[f].exp
      BY <2>2 DEF FamilyInv, NewestIsActive, grantActive
    <3> QED
      <4>1. /\ 0 < req[r].secret /\ req[r].secret <= issued[f]
            /\ req[r].out = "none" /\ req[r].secret # issued[f]
        BY <1>3, <2>2, <3>1 DEF PrepareRefresh, Knows
      <4>2. req[r].secret \in Nat /\ issued[f] \in Nat
        BY DEF TypeOK, Request
      <4>3. req[r].secret < issued[f]
        BY <4>1, <4>2
      <4> QED
        BY <1>1, <2>2, <3>1, <4>1, <4>3, GotoFacts DEF Knows
  <2>3. CASE /\ grantActive(grants[f], req[r].now)
             /\ grants[f].secret = req[r].secret
             /\ req' = [req EXCEPT ![r].pc = "idpRefresh", ![r].rec = grants[f]]
    <3>1. /\ grants[f].secret = issued[f] /\ grants[f].gen = issued[f]
          /\ grants[f].exp = birth[f] + RefreshTTL
          /\ req[r].now < grants[f].exp
      BY <2>3 DEF FamilyInv, NewestIsActive, grantActive
    <3> QED
      <4>1. /\ req'[r].pc = "idpRefresh" /\ req'[r].fam = f
            /\ req'[r].out = req[r].out /\ req'[r].now = req[r].now
            /\ req'[r].secret = req[r].secret /\ req'[r].rec = grants[f]
        BY <2>3 DEF Request
      <4>2. Others(r)
        BY <2>3 DEF Others
      <4> QED
        BY <1>1, <1>3, <2>3, <3>1, <4>1, <4>2 DEF PrepareRefresh, Knows
  <2> QED
    BY <1>1, <1>3, <2>1, <2>2, <2>3 DEF PrepareRefresh
<1>4. CASE IdpRefresh(r)
  <2>1. CASE Answer(r, "unavailable")
    BY <1>1, <2>1, AnswerInv DEF Outcomes
  <2>2. CASE Goto(r, "revokeFamily")
    BY <1>1, <1>4, <2>2, GotoFacts DEF IdpRefresh, Knows
  <2>3. ASSUME NEW ttl \in GoogleTTLs,
               req' = [req EXCEPT ![r].pc = "rotate", ![r].gexp = clock + ttl]
        PROVE  Knows(r)' /\ Others(r)
    <3>1. /\ req'[r].pc = "rotate" /\ req'[r].fam = f
          /\ req'[r].out = req[r].out /\ req'[r].now = req[r].now
          /\ req'[r].secret = req[r].secret /\ req'[r].rec = req[r].rec
      BY <2>3 DEF Request
    <3>2. Others(r)
      BY <2>3 DEF Others
    <3> QED
      BY <1>4, <3>1, <3>2 DEF IdpRefresh, Knows
  <2> QED
    BY <1>1, <1>4, <2>1, <2>2, <2>3 DEF IdpRefresh
<1>5. CASE RevokeGet(r)
  <2>1. CASE Answer(r, "noop")
    BY <1>1, <2>1, AnswerInv DEF Outcomes
  <2>2. CASE Goto(r, "revokeIf")
    BY <1>1, <1>5, <2>2, GotoFacts DEF RevokeGet, Knows
  <2> QED
    BY <1>5, <2>1, <2>2 DEF RevokeGet
<1>6. CASE UpstreamRevoke(r)
  BY <1>1, <1>6, AnswerInv DEF UpstreamRevoke, Outcomes
<1>7. CASE VerifyAccess(r)
  <2>1. CASE Answer(r, "rejected")
    BY <1>1, <2>1, AnswerInv DEF Outcomes
  <2>2. CASE /\ req[r].now < req[r].exp /\ grantActive(grants[f], req[r].now)
             /\ req' = [req EXCEPT ![r].pc = "idle", ![r].out = "accepted"]
    <3>1. /\ grants[f].status = "active"
          /\ req[r].now < birth[f] + RefreshTTL
      BY <2>2 DEF FamilyInv, NewestIsActive, grantActive
    <3> QED
      BY <1>1, <1>7, <2>2, <3>1 DEF VerifyAccess, Knows, Others, Request
  <2> QED
    BY <1>7, <2>1, <2>2 DEF VerifyAccess
<1>8. ASSUME NEW pc \in Reads, ReadFails(r, pc) PROVE Knows(r)' /\ Others(r)
  BY <1>8, AnswerInv DEF ReadFails, Outcomes
<1> QED
  BY <1>1, <1>2, <1>3, <1>4, <1>5, <1>6, <1>7, <1>8 DEF ReadStep

(* Steps of a request that can only weaken its family's grant.             *)
RevokeStep(r) ==
    \/ ReplayCode(r) \/ ReplayGrant(r) \/ RevokeFamily(r)
    \/ RevokeGrant(r) \/ RevokeGrantIfSecret(r)

LEMMA RevokeStepInv ==
  ASSUME TypeOK, TypeOK', IndInv, NEW r \in Requests, RevokeStep(r)
  PROVE  FamilyInv' /\ Evolves /\ Knows(r)' /\ Others(r)
<1> FamilyInv /\ Knows(r)
  BY DEF IndInv, FamilyInv, RequestInv
<1> DEFINE f == req[r].fam
<1> /\ req[r] \in Request /\ f \in Families /\ grants[f] \in GrantRecord
    /\ codes[f] \in CodeRecord /\ req \in [Requests -> Request]
    /\ req[r].secret \in Nat /\ req[r].now \in Nat /\ issued[f] \in Nat
  BY DEF TypeOK, Request
<1> UNCHANGED <<issued, tokens, rotations, birth>>
  BY DEF RevokeStep, ReplayCode, ReplayGrant, RevokeFamily, RevokeGrant,
         RevokeGrantIfSecret, history
<1>0. grants[f] # NoGrant => issued[f] > 0
  BY DEF FamilyInv, CodeGuardsFirst
<1>1. CASE ReplayCode(r)
  <2> DEFINE tx == RedeemCodeTx(codes[f], grants[f], ZeroGrant, req[r].now)
  <2>1. codes[f].status \in {"used", "gone"}
    BY <1>1 DEF ReplayCode, Knows
  <2>a. /\ tx.res = "ok" => codes[f].status = "active"
        /\ tx.res # "ok" => /\ tx.code = codes[f]
                            /\ \/ tx.grant = grants[f]
                               \/ /\ codes[f].status = "used"
                                  /\ Weaker(grants[f], tx.grant)
    BY RedeemCodeTxFacts, ZeroGrantType
  <2>2. tx.code = codes[f] /\ Weaker(grants[f], tx.grant)
    BY <2>1, <2>a DEF Weaker
  <2>3. tx.grant # grants[f] => issued[f] > 0
    BY <2>1, <2>a DEF FamilyInv, CodeGuardsFirst
  <2> HIDE DEF tx
  <2>4. PICK g : /\ Weaker(grants[f], g)
                 /\ g # grants[f] => issued[f] > 0
                 /\ grants' = [grants EXCEPT ![f] = g]
                 /\ codes' = codes
    <3>1. CASE UNCHANGED store
      BY <3>1 DEF Weaker, store, TypeOK
    <3>2. CASE /\ codes' = [codes EXCEPT ![f] = tx.code]
               /\ grants' = [grants EXCEPT ![f] = tx.grant]
      BY <2>2, <2>3, <3>2 DEF TypeOK
    <3> QED
      BY <1>1, <3>1, <3>2 DEF ReplayCode, tx
  <2> QED
    BY <1>1, <2>4, OnlyWeakens, AnswerInv DEF ReplayCode, Outcomes
<1>2. CASE ReplayGrant(r)
  <2> DEFINE tx == RotateGrantTx(grants[f], req[r].secret, ZeroGrant, req[r].now)
  <2>1. /\ req[r].secret < issued[f] /\ req[r].now < birth[f] + RefreshTTL
    BY <1>2 DEF ReplayGrant, Knows
  <2>2. grants[f].status = "active" => /\ grants[f].secret # req[r].secret
                                       /\ req[r].now < grants[f].exp
    BY <2>1 DEF FamilyInv, NewestIsActive
  <2>3. tx.res # "ok"
    BY <2>2, RotateGrantTxFacts, ZeroGrantType DEF grantActive
  <2>a. \/ tx.grant = grants[f] /\ ~ grantActive(grants[f], req[r].now)
        \/ tx.grant = revokeGrantRecord(grants[f])
    BY <2>3, RotateGrantTxFacts, ZeroGrantType
  <2>b. revokeGrantRecord(grants[f]).status = "revoked"
    BY DEF revokeGrantRecord, GrantRecord
  <2>4. tx.grant.status # "active" /\ Weaker(grants[f], tx.grant)
    BY <2>2, <2>a, <2>b DEF grantActive, Weaker
  <2>5. issued[f] > 0
    BY <2>1
  <2> HIDE DEF tx
  <2>6. CASE /\ grants' = [grants EXCEPT ![f] = tx.grant]
             /\ Answer(r, "refresh_replayed") \/ Answer(r, "unavailable")
    <3>1. grants'[f].status # "active"
      BY <2>4, <2>6 DEF TypeOK
    <3>2. FamilyInv' /\ Evolves
      BY <1>2, <2>4, <2>5, <2>6, OnlyWeakens DEF ReplayGrant
    <3> QED
      BY <2>5, <2>6, <3>1, <3>2, AnswerInv DEF Outcomes
  <2>7. CASE grants' = grants /\ Answer(r, "unavailable")
    <3>1. Weaker(grants[f], grants[f]) /\ grants' = [grants EXCEPT ![f] = grants[f]]
      BY <2>7 DEF Weaker, TypeOK
    <3> QED
      BY <1>2, <2>7, <3>1, OnlyWeakens, AnswerInv DEF ReplayGrant, Outcomes
  <2> QED
    BY <1>2, <2>6, <2>7 DEF ReplayGrant, Commits, tx
<1>3. CASE RevokeFamily(r)
  <2>1. PICK g : /\ Weaker(grants[f], g)
                 /\ g # grants[f] => issued[f] > 0
                 /\ grants' = [grants EXCEPT ![f] = g]
    <3>1. CASE grants' = grants
      BY <3>1 DEF Weaker, TypeOK
    <3>2. CASE grants' = [grants EXCEPT ![f] = RevokeGrantTx(grants[f]).grant]
      <4>1. grants[f] = NoGrant => RevokeGrantTx(grants[f]).grant = grants[f]
        BY DEF RevokeGrantTx, GrantFound, NoGrant
      <4> QED
        BY <1>0, <3>2, <4>1, RevokeTxFacts
    <3> QED
      BY <1>3, <3>1, <3>2 DEF RevokeFamily
  <2> QED
    BY <1>3, <2>1, OnlyWeakens, AnswerInv DEF RevokeFamily, Outcomes
<1>4. CASE RevokeGrant(r)
  <2> DEFINE g == RevokeGrantTx(grants[f]).grant
  <2>1. /\ Weaker(grants[f], g) /\ g.status # "active" /\ issued[f] > 0
        /\ req[r].out = "none"
    BY <1>4, RevokeTxFacts DEF RevokeGrant, Knows
  <2> HIDE DEF g
  <2>2. CASE grants' = [grants EXCEPT ![f] = g] /\ Goto(r, "upstreamRevoke")
    <3>1. grants'[f].status # "active"
      BY <2>1, <2>2 DEF TypeOK
    <3>2. FamilyInv' /\ Evolves
      BY <1>4, <2>1, <2>2, OnlyWeakens DEF RevokeGrant
    <3> QED
      BY <2>1, <2>2, <3>1, <3>2, GotoFacts DEF Knows
  <2>3. CASE grants' = [grants EXCEPT ![f] = g] /\ Answer(r, "unavailable")
    BY <1>4, <2>1, <2>3, OnlyWeakens, AnswerInv DEF RevokeGrant, Outcomes
  <2>4. CASE grants' = grants /\ Answer(r, "unavailable")
    <3>1. Weaker(grants[f], grants[f]) /\ grants' = [grants EXCEPT ![f] = grants[f]]
      BY <2>4 DEF Weaker, TypeOK
    <3> QED
      BY <1>4, <2>4, <3>1, OnlyWeakens, AnswerInv DEF RevokeGrant, Outcomes
  <2> QED
    BY <1>4, <2>2, <2>3, <2>4 DEF RevokeGrant, Commits, g
<1>5. CASE RevokeGrantIfSecret(r)
  <2> DEFINE tx == RevokeGrantIfSecretTx(grants[f], req[r].secret)
  <2>1. /\ Weaker(grants[f], tx.grant) /\ issued[f] > 0
        /\ tx.res = "ok" => tx.grant.status # "active"
        /\ req[r].out = "none"
    BY <1>5, RevokeTxFacts DEF RevokeGrantIfSecret, Knows
  <2> HIDE DEF tx
  <2>2. ASSUME NEW out \in {"unavailable", "noop", "revoked"}, Answer(r, out),
               grants' \in {grants, [grants EXCEPT ![f] = tx.grant]}
        PROVE  FamilyInv' /\ Evolves /\ Knows(r)' /\ Others(r)
    <3>1. Knows(r)' /\ Others(r)
      BY <2>2, AnswerInv DEF Outcomes
    <3>2. CASE grants' = grants
      <4>1. Weaker(grants[f], grants[f]) /\ grants' = [grants EXCEPT ![f] = grants[f]]
        BY <3>2 DEF Weaker, TypeOK
      <4> QED
        BY <1>5, <3>1, <4>1, OnlyWeakens DEF RevokeGrantIfSecret
    <3>3. CASE grants' = [grants EXCEPT ![f] = tx.grant]
      BY <1>5, <2>1, <3>1, <3>3, OnlyWeakens DEF RevokeGrantIfSecret
    <3> QED
      BY <2>2, <3>2, <3>3
  <2>3. CASE /\ grants' = [grants EXCEPT ![f] = tx.grant] /\ tx.res = "ok"
             /\ Goto(r, "upstreamRevoke")
    <3>1. grants'[f].status # "active"
      BY <2>1, <2>3 DEF TypeOK
    <3>2. FamilyInv' /\ Evolves
      BY <1>5, <2>1, <2>3, OnlyWeakens DEF RevokeGrantIfSecret
    <3> QED
      BY <2>1, <2>3, <3>1, <3>2, GotoFacts DEF Knows
  <2> QED
    BY <1>5, <2>2, <2>3 DEF RevokeGrantIfSecret, Commits, tx
<1> QED
  BY <1>1, <1>2, <1>3, <1>4, <1>5 DEF RevokeStep

(* The two steps that store a new secret.                                  *)
LEMMA RedeemCodeInv ==
  ASSUME TypeOK, TypeOK', IndInv, NEW r \in Requests, RedeemCode(r)
  PROVE  FamilyInv' /\ Evolves /\ Knows(r)' /\ Others(r)
<1> FamilyInv /\ Knows(r)
  BY DEF IndInv, FamilyInv, RequestInv
<1> DEFINE f == req[r].fam
           next == [status |-> "active", secret |-> issued[f] + 1, gen |-> 1,
                    exp |-> req[r].now + RefreshTTL]
           tx == RedeemCodeTx(codes[f], grants[f], next, req[r].now)
<1> /\ req[r] \in Request /\ f \in Families /\ grants[f] \in GrantRecord
    /\ codes[f] \in CodeRecord /\ req \in [Requests -> Request]
    /\ req[r].now \in Nat /\ issued[f] \in Nat
  BY DEF TypeOK, Request
<1>1. next \in GrantRecord
  BY ConstantsAssumption DEF GrantRecord, GrantStatus
<1>2. /\ tx.res = "ok" => /\ codes[f].status = "active"
                          /\ tx.code.status = "used" /\ tx.grant = next
      /\ tx.res # "ok" => /\ tx.code = codes[f]
                          /\ \/ tx.grant = grants[f]
                             \/ /\ codes[f].status = "used"
                                /\ Weaker(grants[f], tx.grant)
  BY <1>1, RedeemCodeTxFacts
<1>3. codes[f].status = "used" => issued[f] > 0
  BY DEF FamilyInv, CodeGuardsFirst
<1>4. PICK mode \in TxModes :
        /\ IF Commits(mode)
           THEN /\ codes'  = [codes EXCEPT ![f] = tx.code]
                /\ grants' = [grants EXCEPT ![f] = tx.grant]
           ELSE UNCHANGED store
        /\ IF Commits(mode) /\ tx.res = "ok"
           THEN /\ Committed(f, 0, next, mode)
                /\ birth' = [birth EXCEPT ![f] = req[r].now]
           ELSE UNCHANGED <<issued, history>>
        /\ \/ \E out \in {"unavailable", "code_reused", "rejected"} :
                 Answer(r, out)
           \/ /\ mode = "ack" /\ tx.res = "ok"
              /\ req' = [req EXCEPT ![r].pc = "mint", ![r].secret = next.secret]
  BY DEF RedeemCode
<1>5. UNCHANGED tokens
  BY DEF RedeemCode, tokens
<1> HIDE DEF tx
<1>6. CASE Commits(mode) /\ tx.res = "ok"
  <2>1. /\ issued[f] = 0 /\ codes[f].status = "active"
        /\ next.secret = 1 /\ next.gen = 1 /\ next.status = "active"
        /\ next.exp = req[r].now + RefreshTTL
    BY <1>2, <1>6 DEF FamilyInv, CodeGuardsFirst
  <2> HIDE DEF next
  <2>2. /\ issued'[f] = 1 /\ birth'[f] = req[r].now
        /\ codes'[f].status = "used" /\ grants'[f] = next
        /\ \A e \in Families : e # f => /\ issued'[e] = issued[e]
                                       /\ birth'[e] = birth[e]
                                       /\ codes'[e] = codes[e]
                                       /\ grants'[e] = grants[e]
    BY <1>2, <1>4, <1>6, <2>1 DEF Committed, TypeOK
  <2>3. rotations' = rotations \cup {<<f, 0, 1>>}
    BY <1>4, <1>6, <2>1 DEF Committed
  <2>4. NewestIsActive' /\ CodeGuardsFirst' /\ ZeroNeverStored'
    BY <2>1, <2>2 DEF FamilyInv, NewestIsActive, CodeGuardsFirst, ZeroNeverStored
  <2>5. Chain'
    <3> SUFFICES ASSUME NEW x \in rotations'
                 PROVE  x[3] = x[2] + 1 /\ x[3] <= issued'[x[1]]
      BY DEF Chain
    <3>1. CASE x = <<f, 0, 1>>
      BY <2>2, <3>1
    <3>2. CASE x \in rotations
      <4>1. x[3] = x[2] + 1 /\ x[3] <= issued[x[1]] /\ x[1] \in Families
            /\ x[2] \in Nat
        BY <3>2 DEF FamilyInv, Chain, TypeOK
      <4> QED
        BY <2>1, <2>2, <4>1
    <3> QED
      BY <2>3, <3>1, <3>2
  <2>6. HeldWereIssued'
    <3>1. ASSUME NEW t \in refreshes PROVE t[1] # f
      BY <2>1 DEF FamilyInv, HeldWereIssued, TypeOK
    <3>2. ASSUME NEW a \in accesses PROVE a.fam # f
      BY <2>1 DEF FamilyInv, HeldWereIssued, TypeOK
    <3> QED
      BY <1>5, <2>2, <3>1, <3>2
         DEF FamilyInv, HeldWereIssued, TypeOK, tokens, AccessToken
  <2>7. Evolves
    BY <2>1, <2>2 DEF Evolves, TypeOK
  <2>8. Knows(r)' /\ Others(r)
    <3>1. CASE \E out \in {"unavailable", "code_reused", "rejected"} : Answer(r, out)
      BY <3>1, AnswerInv DEF Outcomes
    <3>2. CASE req' = [req EXCEPT ![r].pc = "mint", ![r].secret = next.secret]
      <4>1. /\ req'[r].pc = "mint" /\ req'[r].secret = 1
            /\ req'[r].fam = f /\ req'[r].out = req[r].out /\ Others(r)
        BY <2>1, <3>2 DEF Others, Request
      <4>2. req[r].out = "none"
        BY DEF RedeemCode, Knows
      <4> QED
        BY <2>2, <4>1, <4>2 DEF Knows
    <3> QED
      BY <1>4, <3>1, <3>2
  <2> QED
    BY <2>4, <2>5, <2>6, <2>7, <2>8 DEF FamilyInv
<1>7. CASE ~ (Commits(mode) /\ tx.res = "ok")
  <2>1. UNCHANGED <<issued, rotations, birth>>
    BY <1>4, <1>7 DEF history
  <2>2. Knows(r)' /\ Others(r)
    BY <1>4, <1>7, AnswerInv DEF Commits, Outcomes
  <2>3. PICK g : /\ Weaker(grants[f], g)
                 /\ g # grants[f] => issued[f] > 0
                 /\ grants' = [grants EXCEPT ![f] = g]
                 /\ codes' = codes
    <3>1. CASE UNCHANGED store
      BY <3>1 DEF Weaker, store, TypeOK
    <3>2. CASE /\ codes' = [codes EXCEPT ![f] = tx.code]
               /\ grants' = [grants EXCEPT ![f] = tx.grant]
               /\ tx.res # "ok"
      BY <1>2, <1>3, <3>2 DEF Weaker, TypeOK
    <3> QED
      BY <1>4, <1>7, <3>1, <3>2
  <2> QED
    BY <1>5, <2>1, <2>2, <2>3, OnlyWeakens
<1> QED
  BY <1>6, <1>7

LEMMA RotateRefreshInv ==
  ASSUME TypeOK, TypeOK', IndInv, NEW r \in Requests, RotateRefresh(r)
  PROVE  FamilyInv' /\ Evolves /\ Knows(r)' /\ Others(r)
<1> FamilyInv /\ Knows(r)
  BY DEF IndInv, FamilyInv, RequestInv
<1> DEFINE f == req[r].fam
           rec == req[r].rec
           next == [status |-> "active", secret |-> issued[f] + 1,
                    gen |-> rec.gen + 1, exp |-> rec.exp]
           tx == RotateGrantTx(grants[f], rec.secret, next, req[r].now)
<1> /\ req[r] \in Request /\ f \in Families /\ grants[f] \in GrantRecord
    /\ req \in [Requests -> Request] /\ rec \in GrantRecord
    /\ req[r].now \in Nat /\ issued[f] \in Nat
  BY DEF TypeOK, Request
<1>1. next \in GrantRecord /\ rec.secret \in Nat
  BY DEF GrantRecord, GrantStatus
<1>2. /\ tx.res = "ok" => /\ grantActive(grants[f], req[r].now)
                          /\ grants[f].secret = rec.secret
                          /\ tx.grant = next
      /\ tx.res # "ok" =>
           \/ /\ tx.grant = grants[f]
              /\ ~ grantActive(grants[f], req[r].now)
           \/ /\ tx.grant = revokeGrantRecord(grants[f])
              /\ grants[f].status = "active" /\ grants[f].secret # rec.secret
  BY <1>1, RotateGrantTxFacts
<1>3. /\ req[r].out = "none" /\ 0 < rec.secret /\ rec.secret <= issued[f]
      /\ rec.gen = rec.secret /\ rec.exp = birth[f] + RefreshTTL
      /\ req[r].now < rec.exp
  BY DEF RotateRefresh, Knows
<1>4. PICK mode \in TxModes :
        /\ grants' = IF Commits(mode)
                     THEN [grants EXCEPT ![f] = tx.grant] ELSE grants
        /\ IF Commits(mode) /\ tx.res = "ok"
           THEN Committed(f, rec.secret, next, mode)
           ELSE UNCHANGED <<issued, rotations, lost>>
        /\ IF mode # "ack" THEN Answer(r, "unavailable")
           ELSE IF tx.res # "ok" THEN Answer(r, "refresh_replayed")
           ELSE req' = [req EXCEPT ![r].pc = "mint", ![r].secret = next.secret]
  BY DEF RotateRefresh
<1>5. UNCHANGED <<codes, refreshes, accesses, birth>>
  BY DEF RotateRefresh, tokens
<1> HIDE DEF tx
<1>6. CASE Commits(mode) /\ tx.res = "ok"
  <2>1. /\ grants[f].status = "active" /\ rec.secret = issued[f]
        /\ issued[f] > 0
    BY <1>2, <1>3, <1>6 DEF FamilyInv, NewestIsActive, grantActive
  <2>2. /\ next.secret = issued[f] + 1 /\ next.gen = issued[f] + 1
        /\ next.exp = birth[f] + RefreshTTL /\ next.status = "active"
    BY <1>3, <2>1
  <2> HIDE DEF next
  <2>3. /\ issued'[f] = issued[f] + 1 /\ grants'[f] = next
        /\ \A e \in Families : e # f => /\ issued'[e] = issued[e]
                                       /\ grants'[e] = grants[e]
    BY <1>2, <1>4, <1>6, <2>2 DEF Committed, TypeOK
  <2>4. rotations' = rotations \cup {<<f, issued[f], issued[f] + 1>>}
    BY <1>4, <1>6, <2>1, <2>2 DEF Committed
  <2>5. NewestIsActive' /\ ZeroNeverStored'
    BY <1>5, <2>2, <2>3 DEF FamilyInv, NewestIsActive, ZeroNeverStored
  <2>6. CodeGuardsFirst'
    BY <1>5, <2>1, <2>3 DEF FamilyInv, CodeGuardsFirst
  <2>7. Chain'
    <3> SUFFICES ASSUME NEW x \in rotations'
                 PROVE  x[3] = x[2] + 1 /\ x[3] <= issued'[x[1]]
      BY DEF Chain
    <3>1. CASE x = <<f, issued[f], issued[f] + 1>>
      BY <2>3, <3>1
    <3>2. CASE x \in rotations
      <4>1. x[3] = x[2] + 1 /\ x[3] <= issued[x[1]] /\ x[1] \in Families
            /\ x[2] \in Nat
        BY <3>2 DEF FamilyInv, Chain, TypeOK
      <4> QED
        BY <2>3, <4>1 DEF TypeOK
    <3> QED
      BY <2>4, <3>1, <3>2
  <2>8. HeldWereIssued'
    BY <1>5, <2>3 DEF FamilyInv, HeldWereIssued, TypeOK, AccessToken
  <2>9. Evolves
    BY <1>5, <2>1, <2>3 DEF Evolves, TypeOK
  <2>10. Knows(r)' /\ Others(r)
    <3>1. CASE Answer(r, "unavailable")
      BY <3>1, AnswerInv DEF Outcomes
    <3>2. CASE req' = [req EXCEPT ![r].pc = "mint", ![r].secret = next.secret]
      <4>1. /\ req'[r].pc = "mint" /\ req'[r].secret = issued[f] + 1
            /\ req'[r].fam = f /\ req'[r].out = req[r].out /\ Others(r)
        BY <2>2, <3>2 DEF Others, Request
      <4> QED
        BY <1>3, <2>3, <4>1 DEF Knows
    <3> QED
      BY <1>4, <1>6, <3>1, <3>2
  <2> QED
    BY <2>5, <2>6, <2>7, <2>8, <2>9, <2>10 DEF FamilyInv
<1>7. CASE ~ (Commits(mode) /\ tx.res = "ok")
  <2>1. UNCHANGED <<issued, rotations>>
    BY <1>4, <1>7
  <2>2. issued[f] > 0
    BY <1>1, <1>3
  <2>3. grants[f].status = "active" => req[r].now < grants[f].exp
    BY <1>3 DEF FamilyInv, NewestIsActive
  <2>4. revokeGrantRecord(grants[f]).status = "revoked"
    BY DEF revokeGrantRecord, GrantRecord
  <2>5. tx.res # "ok" => /\ Weaker(grants[f], tx.grant)
                         /\ tx.grant.status # "active"
    BY <1>2, <2>3, <2>4 DEF Weaker, grantActive
  <2>6. PICK g : /\ Weaker(grants[f], g)
                 /\ grants' = [grants EXCEPT ![f] = g]
                 /\ mode = "ack" => g.status # "active"
    <3>1. CASE Commits(mode)
      BY <1>4, <1>7, <2>5, <3>1
    <3>2. CASE ~ Commits(mode)
      BY <1>4, <3>2 DEF Commits, Weaker, TypeOK
    <3> QED
      BY <3>1, <3>2
  <2>7. FamilyInv' /\ Evolves
    BY <1>5, <2>1, <2>2, <2>6, OnlyWeakens DEF tokens
  <2>8. Knows(r)' /\ Others(r)
    <3>1. CASE mode = "ack"
      <4>1. grants'[f].status # "active" /\ issued'[f] > 0
        BY <2>1, <2>2, <2>6, <3>1 DEF TypeOK
      <4> QED
        BY <1>4, <1>7, <3>1, <4>1, AnswerInv DEF Commits, Outcomes
    <3>2. CASE mode # "ack"
      BY <1>4, <3>2, AnswerInv DEF Outcomes
    <3> QED
      BY <3>1, <3>2
  <2> QED
    BY <2>7, <2>8
<1> QED
  BY <1>6, <1>7

(* Delivery of the minted pair.                                            *)
LEMMA MintInv ==
  ASSUME TypeOK, TypeOK', IndInv, NEW r \in Requests, Mint(r)
  PROVE  FamilyInv' /\ Evolves /\ Knows(r)' /\ Others(r)
<1> FamilyInv /\ Knows(r)
  BY DEF IndInv, FamilyInv, RequestInv
<1> DEFINE f == req[r].fam
<1>0. /\ f \in Families /\ req[r].secret \in Nat /\ req[r].gexp \in Nat
      /\ clock \in Nat /\ issued[f] \in Nat
  BY DEF TypeOK, Request
<1>1. Knows(r)' /\ Others(r)
  BY AnswerInv DEF Mint, Outcomes
<1>2. Evolves
  BY DEF Evolves, Mint, TypeOK, store
<1>3. /\ 0 < req[r].secret /\ req[r].secret <= issued[f]
  BY DEF Mint, Knows
<1>4. HeldWereIssued'
  <2>1. \A t \in refreshes' \ refreshes : t = <<f, req[r].secret>>
    BY DEF Mint, tokens
  <2>2. \A a \in accesses' \ accesses : a.fam = f /\ a.exp <= a.gexp
    BY <1>0, ConstantsAssumption DEF Mint, tokens
  <2>3. issued' = issued
    BY DEF Mint
  <2> QED
    BY <1>0, <1>3, <2>1, <2>2, <2>3 DEF FamilyInv, HeldWereIssued
<1>5. NewestIsActive' /\ CodeGuardsFirst' /\ Chain' /\ ZeroNeverStored'
  BY DEF Mint, FamilyInv, NewestIsActive, CodeGuardsFirst, Chain,
         ZeroNeverStored, store
<1> QED
  BY <1>1, <1>2, <1>4, <1>5 DEF FamilyInv

-----------------------------------------------------------------------------
(* The theorems.                                                           *)

LEMMA InitInv == Init => IndInv
  BY AnyFamilyType
     DEF Init, IndInv, NewestIsActive, CodeGuardsFirst, Chain, HeldWereIssued,
         RequestInv, Knows, ZeroNeverStored, NoGrant, NoCode

LEMMA NextInv ==
  ASSUME TypeOK, TypeOK', IndInv, [Next]_vars
  PROVE  IndInv' /\ Evolves
<1>1. ASSUME NEW r \in Requests, Start(r) \/ Step(r)
      PROVE  FamilyInv' /\ Evolves /\ Knows(r)' /\ Others(r)
  BY <1>1, StartInv, ReadStepInv, RevokeStepInv, RedeemCodeInv,
     RotateRefreshInv, MintInv
     DEF Step, ReadStep, RevokeStep
<1>2. CASE UNCHANGED vars
  <2>1. FamilyInv' /\ Evolves
    BY <1>2, OnlyRequests DEF vars, store, tokens, history, IndInv, FamilyInv
  <2>2. RequestInv'
    BY <1>2, <2>1, KnowledgeIsStable DEF vars, IndInv, RequestInv
  <2> QED
    BY <2>1, <2>2 DEF IndInv, FamilyInv
<1>3. CASE Environment
  <2>1. RequestInv'
    BY <1>3, EnvironmentInv, KnowledgeIsStable DEF IndInv, RequestInv
  <2> QED
    BY <1>3, <2>1, EnvironmentInv DEF IndInv, FamilyInv
<1>4. ASSUME NEW r \in Requests, Start(r) \/ Step(r)
      PROVE  IndInv' /\ Evolves
  <2>1. RequestInv'
    BY <1>1, <1>4, KnowledgeIsStable DEF IndInv, RequestInv, Others
  <2> QED
    BY <1>1, <1>4, <2>1 DEF IndInv, FamilyInv
<1> QED
  BY <1>2, <1>3, <1>4 DEF Next

(* The inductive invariant: every stored secret has the number of its      *)
(* generation, the newest is the active one, and what a request remembers  *)
(* from an earlier read stays valid while others run.                      *)
THEOREM Inductive == Spec => [](TypeOK /\ IndInv)
<1>1. Init => TypeOK /\ IndInv
  BY InitType, InitInv
<1>2. TypeOK /\ TypeOK' /\ IndInv /\ [Next]_vars => IndInv'
  BY NextInv
<1> QED
  BY <1>1, <1>2, TypeCorrect, PTL DEF Spec

(* Redemption and rotation store at most one successor per spent secret.   *)
THEOREM RotationHasOneWinner == Spec => []OneSuccessor
<1>1. TypeOK /\ IndInv => OneSuccessor
  BY DEF TypeOK, IndInv, Chain, OneSuccessor
<1> QED
  BY <1>1, Inductive, PTL

(* The empty record of the replay paths is never written.                  *)
THEOREM ReplayNeverErases == Spec => []ZeroNeverStored
<1>1. IndInv => ZeroNeverStored
  BY DEF IndInv
<1> QED
  BY <1>1, Inductive, PTL

(* A family once inactive is inactive for good.                            *)
THEOREM RevocationIsFinal == Spec => NoResurrection
<1>1. TypeOK /\ TypeOK' /\ IndInv /\ [Next]_vars
        => [\A f \in Families :
              issued[f] > 0 /\ grants[f].status # "active"
                => grants'[f].status # "active"]_vars
  BY NextInv DEF Evolves
<1> QED
  BY <1>1, Inductive, PTL DEF Spec, NoResurrection

(* refresh_token_replayed is answered only for an inactive family.         *)
THEOREM ReplayedFamilyIsRevoked == Spec => []ReplayedMeansRevoked
<1>1. IndInv => ReplayedMeansRevoked
  BY DEF IndInv, RequestInv, Knows, ReplayedMeansRevoked
<1> QED
  BY <1>1, Inductive, PTL

(* A request that starts after the revocation of its family is not         *)
(* accepted by VerifyAccess.                                               *)
THEOREM AcceptanceIsSound == Spec => []NoAcceptAfterRevocation
<1>1. IndInv => NoAcceptAfterRevocation
  BY DEF IndInv, RequestInv, Knows, NoAcceptAfterRevocation
<1> QED
  BY <1>1, Inductive, PTL

(* Acceptance stays within the lifetimes of the embedded Google token and  *)
(* of the family: no rotation extends either.                              *)
THEOREM LifetimesBound == Spec => []AcceptWithinLifetimes
<1>1. IndInv => AcceptWithinLifetimes
  BY DEF IndInv, RequestInv, Knows, AcceptWithinLifetimes
<1> QED
  BY <1>1, Inductive, PTL

(* /revoke turns to Google only after the store has cut local access.      *)
THEOREM GoogleComesLast == Spec => []LocalRevokeFirst
<1>1. IndInv => LocalRevokeFirst
  BY DEF IndInv, RequestInv, Knows, LocalRevokeFirst
<1> QED
  BY <1>1, Inductive, PTL

-----------------------------------------------------------------------------
(* What a step of one request leaves to the others.                        *)

(* A step is a step of one request, which moves only that request, or one  *)
(* that moves none.                                                        *)
LEMMA OneRequestMoves ==
  ASSUME TypeOK, TypeOK', IndInv, [Next]_vars
  PROVE  \/ UNCHANGED req
         \/ \E r \in Requests : (Start(r) \/ Step(r)) /\ Others(r)
<1>1. ASSUME NEW r \in Requests, Start(r) \/ Step(r) PROVE Others(r)
  BY <1>1, StartInv, ReadStepInv, RevokeStepInv, RedeemCodeInv,
     RotateRefreshInv, MintInv
     DEF Step, ReadStep, RevokeStep
<1>2. Environment => UNCHANGED req
  BY EnvironmentInv
<1> QED
  BY <1>1, <1>2 DEF Next, vars

(* A spent secret is older than the newest one of its family.              *)
LEMMA SpentIsOld ==
  ASSUME TypeOK, IndInv, NEW x \in rotations
  PROVE  x[2] < issued[x[1]]
<1>1. /\ x[1] \in Families /\ x[2] \in Nat /\ x[3] \in Nat
      /\ issued[x[1]] \in Nat
  BY DEF TypeOK
<1>2. x[3] = x[2] + 1 /\ x[3] <= issued[x[1]]
  BY DEF IndInv, Chain
<1> QED
  BY <1>1, <1>2

(* RevokeGet and RevokeGrantIfSecret on a rotated-away token write         *)
(* nothing: the second compares the secret again in its transaction.       *)
LEMMA SpentTokenStep ==
  ASSUME TypeOK, IndInv, NEW r \in Requests, Start(r) \/ Step(r),
         req[r].pc \in {"revokeGet", "revokeIf"},
         NEW x \in rotations, x[1] = req[r].fam, x[2] = req[r].secret
  PROVE  UNCHANGED grants
<1>1. CASE req[r].pc = "revokeGet"
  BY <1>1 DEF Start, StartExchange, StartRefresh, StartRevokeRefresh,
     StartRevokeAccess, StartVerify, Step, GetCode, ReplayCode, RedeemCode,
     Mint, PrepareRefresh, ReplayGrant, IdpRefresh, RevokeFamily,
     RotateRefresh, RevokeGrant, RevokeGet, RevokeGrantIfSecret,
     UpstreamRevoke, VerifyAccess, ReadFails, store
<1>2. CASE req[r].pc = "revokeIf"
  <2> DEFINE f == req[r].fam
             tx == RevokeGrantIfSecretTx(grants[f], req[r].secret)
  <2>1. RevokeGrantIfSecret(r)
    BY <1>2 DEF Start, StartExchange, StartRefresh, StartRevokeRefresh,
       StartRevokeAccess, StartVerify, Step, GetCode, ReplayCode, RedeemCode,
       Mint, PrepareRefresh, ReplayGrant, IdpRefresh, RevokeFamily,
       RotateRefresh, RevokeGrant, RevokeGet, UpstreamRevoke, VerifyAccess,
       ReadFails, Reads
  <2>2. /\ f \in Families /\ grants[f] \in GrantRecord
        /\ req[r].secret \in Nat /\ issued[f] \in Nat
    BY DEF TypeOK, Request
  <2>3. 0 < req[r].secret /\ req[r].secret < issued[f]
    BY <1>2, SpentIsOld DEF IndInv, RequestInv, Knows
  <2>4. grants[f].secret # req[r].secret
    BY <2>2, <2>3 DEF IndInv, NewestIsActive, GrantRecord
  <2>5. tx.grant = grants[f]
    BY <2>4 DEF RevokeGrantIfSecretTx, grantRevokePossessed
  <2> HIDE DEF tx
  <2> QED
    BY <2>1, <2>2, <2>5 DEF RevokeGrantIfSecret, TypeOK, tx
<1> QED
  BY <1>1, <1>2

(* A rotated-away refresh token at /revoke changes no grant, whatever      *)
(* rotates between the two store calls of the handler.                     *)
THEOREM SpentTokenIsNoop == Spec => SpentTokenRevokesNothing
<1>1. TypeOK /\ TypeOK' /\ IndInv /\ [Next]_vars
        => [\A r \in Requests :
              /\ req[r].pc \in {"revokeGet", "revokeIf"}
              /\ req'[r] # req[r]
              /\ \E x \in rotations : x[1] = req[r].fam /\ x[2] = req[r].secret
              => UNCHANGED grants]_vars
  BY OneRequestMoves, SpentTokenStep DEF Others
<1> QED
  BY <1>1, TypeCorrect, Inductive, PTL DEF Spec, SpentTokenRevokesNothing

-----------------------------------------------------------------------------
(* The newest secret is with a client, on its way to one, or lost.         *)

(* A step that stores no secret keeps the active one.                      *)
LEMMA SameActiveSecret ==
  ASSUME TypeOK, IndInv, IndInv', Evolves, NEW f \in Families,
         issued'[f] = issued[f], grants'[f].status = "active"
  PROVE  grants[f].status = "active" /\ grants[f].secret = grants'[f].secret
<1>1. /\ grants'[f].secret = issued[f] /\ grants'[f].secret > 0
  BY DEF IndInv, NewestIsActive
<1>2. grants[f].status = "active"
  BY <1>1 DEF Evolves
<1> QED
  BY <1>1, <1>2 DEF IndInv, NewestIsActive

Reaches(f) ==
    \/ <<f, grants[f].secret>> \in refreshes
    \/ f \in lost
    \/ \E r \in Requests : /\ req[r].pc = "mint" /\ req[r].fam = f
                           /\ req[r].secret = grants[f].secret

(* Requests that store nothing and mint nothing keep what is on its way.   *)
LEMMA ReachesStable ==
  ASSUME TypeOK, TypeOK', IndInv, IndInv', Evolves, ActiveSecretReachable,
         UNCHANGED <<issued, tokens, lost>>,
         \A s \in Requests : req[s].pc = "mint" => req'[s] = req[s]
  PROVE  ActiveSecretReachable'
<1> SUFFICES ASSUME NEW f \in Families, grants'[f].status = "active"
             PROVE  Reaches(f)'
  BY DEF ActiveSecretReachable, Reaches
<1>1. /\ grants[f].status = "active"
      /\ grants'[f].secret = grants[f].secret
  BY SameActiveSecret
<1>2. Reaches(f)
  BY <1>1 DEF ActiveSecretReachable, Reaches
<1> QED
  BY <1>1, <1>2 DEF Reaches, tokens

(* Mint hands the secret over, or records that it was lost.                *)
LEMMA ReachesMint ==
  ASSUME TypeOK, TypeOK', IndInv, IndInv', Evolves, ActiveSecretReachable,
         NEW r \in Requests, Mint(r), Others(r)
  PROVE  ActiveSecretReachable'
<1> SUFFICES ASSUME NEW f \in Families, grants'[f].status = "active"
             PROVE  Reaches(f)'
  BY DEF ActiveSecretReachable, Reaches
<1>1. UNCHANGED <<grants, issued>>
  BY DEF Mint, store
<1>2. Reaches(f)
  BY <1>1 DEF ActiveSecretReachable, Reaches
<1>3. refreshes \subseteq refreshes' /\ lost \subseteq lost'
  BY DEF Mint, tokens
<1>4. CASE req[r].fam = f /\ req[r].secret = grants[f].secret
  BY <1>1, <1>4 DEF Mint, Reaches
<1>5. CASE ~ (req[r].fam = f /\ req[r].secret = grants[f].secret)
  BY <1>1, <1>2, <1>3, <1>5 DEF Reaches, Others
<1> QED
  BY <1>4, <1>5

(* A transaction that stores a secret sends its request to Mint, or loses  *)
(* its acknowledgement.                                                    *)
LEMMA ReachesStored ==
  ASSUME TypeOK, TypeOK', IndInv, IndInv', Evolves, ActiveSecretReachable,
         NEW r \in Requests, RedeemCode(r) \/ RotateRefresh(r), Others(r)
  PROVE  ActiveSecretReachable'
<1> DEFINE e == req[r].fam
<1>0. /\ req[r].pc # "mint" /\ e \in Families /\ issued[e] \in Nat
      /\ req \in [Requests -> Request] /\ UNCHANGED tokens
  BY DEF RedeemCode, RotateRefresh, TypeOK, Request, tokens
<1>1. CASE UNCHANGED <<issued, lost>>
  BY <1>0, <1>1, ReachesStable DEF Others
<1>2. ASSUME NEW mode \in {"ack", "lost_ack"},
             issued' = [issued EXCEPT ![e] = issued[e] + 1],
             lost' = IF mode = "lost_ack" THEN lost \cup {e} ELSE lost \ {e},
             mode = "ack" =>
               req' = [req EXCEPT ![r].pc = "mint", ![r].secret = issued[e] + 1]
      PROVE  ActiveSecretReachable'
  <2>1. /\ mode \in {"ack", "lost_ack"}
        /\ issued' = [issued EXCEPT ![e] = issued[e] + 1]
        /\ lost' = IF mode = "lost_ack" THEN lost \cup {e} ELSE lost \ {e}
        /\ mode = "ack" =>
             req' = [req EXCEPT ![r].pc = "mint", ![r].secret = issued[e] + 1]
    BY <1>2
  <2> SUFFICES ASSUME NEW f \in Families, grants'[f].status = "active"
               PROVE  Reaches(f)'
    BY DEF ActiveSecretReachable, Reaches
  <2>2. CASE f = e
    <3>1. grants'[f].secret = issued[e] + 1
      BY <1>0, <2>1, <2>2 DEF IndInv, NewestIsActive, TypeOK
    <3>2. CASE mode = "ack"
      <4>1. /\ req'[r].pc = "mint" /\ req'[r].fam = e
            /\ req'[r].secret = issued[e] + 1
        BY <1>0, <2>1, <3>2 DEF Request
      <4> QED
        BY <2>2, <3>1, <4>1 DEF Reaches
    <3>3. CASE mode = "lost_ack"
      BY <2>1, <2>2, <3>3 DEF Reaches
    <3> QED
      BY <2>1, <3>2, <3>3
  <2>3. CASE f # e
    <3>1. issued'[f] = issued[f] /\ (f \in lost => f \in lost')
      BY <2>1, <2>3 DEF TypeOK
    <3>2. /\ grants[f].status = "active"
          /\ grants'[f].secret = grants[f].secret
      BY <3>1, SameActiveSecret
    <3>3. Reaches(f)
      BY <3>2 DEF ActiveSecretReachable, Reaches
    <3> QED
      BY <1>0, <3>1, <3>2, <3>3 DEF Reaches, Others, tokens
  <2> QED
    BY <2>2, <2>3
<1>3. CASE RedeemCode(r)
  BY <1>1, <1>2, <1>3 DEF RedeemCode, Committed, Commits, history
<1>4. CASE RotateRefresh(r)
  BY <1>1, <1>2, <1>4 DEF RotateRefresh, Committed, Commits, history
<1> QED
  BY <1>3, <1>4

(* No race of exchanges, rotations, revocations and lost answers leaves an *)
(* active family whose secret nobody will be given.                        *)
THEOREM NobodyIsLockedOut == Spec => []ActiveSecretReachable
<1>1. Init => ActiveSecretReachable
  BY DEF Init, ActiveSecretReachable, NoGrant
<1>2. /\ TypeOK /\ TypeOK' /\ IndInv /\ IndInv' /\ ActiveSecretReachable
      /\ [Next]_vars
      => ActiveSecretReachable'
  <2> SUFFICES ASSUME TypeOK, TypeOK', IndInv, IndInv', ActiveSecretReachable,
                      [Next]_vars
               PROVE  ActiveSecretReachable'
    OBVIOUS
  <2>0. Evolves
    BY NextInv
  <2>1. CASE UNCHANGED vars
    BY <2>0, <2>1, ReachesStable DEF vars, tokens
  <2>2. CASE Environment
    BY <2>0, <2>2, EnvironmentInv, ReachesStable
       DEF Environment, Tick, ExpireCode, ExpireGrant, PutCode, tokens, history
  <2>3. ASSUME NEW r \in Requests, Start(r) \/ Step(r)
        PROVE  ActiveSecretReachable'
    <3>1. Others(r)
      BY <2>3, StartInv, ReadStepInv, RevokeStepInv, RedeemCodeInv,
         RotateRefreshInv, MintInv
         DEF Step, ReadStep, RevokeStep
    <3>2. CASE Start(r) \/ ReadStep(r) \/ RevokeStep(r)
      <4>1. UNCHANGED <<issued, tokens, lost>> /\ req[r].pc # "mint"
        BY <3>2 DEF Start, StartExchange, StartRefresh, StartRevokeRefresh,
           StartRevokeAccess, StartVerify, ReadStep, GetCode, PrepareRefresh,
           IdpRefresh, RevokeGet, UpstreamRevoke, VerifyAccess, ReadFails,
           Reads, RevokeStep, ReplayCode, ReplayGrant, RevokeFamily,
           RevokeGrant, RevokeGrantIfSecret, history
      <4> QED
        BY <2>0, <3>1, <4>1, ReachesStable DEF Others
    <3>3. CASE RedeemCode(r) \/ RotateRefresh(r)
      BY <2>0, <3>1, <3>3, ReachesStored
    <3>4. CASE Mint(r)
      BY <2>0, <3>1, <3>4, ReachesMint
    <3> QED
      BY <2>3, <3>2, <3>3, <3>4 DEF Step, ReadStep, RevokeStep
  <2> QED
    BY <2>1, <2>2, <2>3 DEF Next
<1> QED
  BY <1>1, <1>2, TypeCorrect, Inductive, PTL DEF Spec
===============================================================================
