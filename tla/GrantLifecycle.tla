---------------------------- MODULE GrantLifecycle ----------------------------
(***************************************************************************)
(* The OAuth grant lifecycle of authsrv: authorization codes, refresh      *)
(* token families and access tokens, as the handlers of /token, /revoke    *)
(* and the bearer check of /mcp operate on them (grants.go, token.go,      *)
(* revoke.go, verifier.go) over the Firestore store (firestore_store.go).  *)
(*                                                                         *)
(* Every HTTP request is a process.  A request captures the time once, at  *)
(* its start, and uses that value in every later store call; between two   *)
(* calls other requests, clock ticks and the TTL policy interleave.  Store *)
(* calls and Google's answers may fail, and a transaction may commit       *)
(* although its caller sees an error.                                      *)
(*                                                                         *)
(* Clients hold tokens they were given and may present any of them, any    *)
(* number of times, concurrently.                                          *)
(***************************************************************************)
EXTENDS GrantRules

CONSTANTS
    Families,    \* grant families; one authorization code belongs to each
    Requests,    \* concurrent HTTP requests
    CodeTTL,     \* codeTTL
    RefreshTTL,  \* cfg.refreshTokenTTL(), absolute per family
    AccessTTL,   \* accessTokenTTL
    GoogleTTLs,  \* remaining lifetimes of the access tokens Google returns
    Faults,      \* subset of {"fail", "lost_ack"}: how store calls may fail
    MaxTime,     \* bound on the clock
    MaxSecrets   \* bound on the secrets stored per family

ASSUME ConstantsAssumption ==
    /\ Families # {}
    /\ CodeTTL \in Nat \ {0} /\ RefreshTTL \in Nat \ {0} /\ AccessTTL \in Nat
    /\ GoogleTTLs \subseteq Nat
    /\ Faults \subseteq {"fail", "lost_ack"}
    /\ MaxTime \in Nat /\ MaxSecrets \in Nat

VARIABLES
    clock,      \* a.now() of every instance
    codes,      \* oauth_codes documents, by family
    grants,     \* oauth_grants documents, by family
    issued,     \* number of refresh secrets ever stored, by family
    refreshes,  \* refresh tokens <<family, secret>> handed to clients
    accesses,   \* access tokens handed to clients
    req,        \* the requests
    rotations,  \* history: <<family, spent secret, new secret>>; 0 is the code
    birth,      \* history: time captured by the exchange that made the family
    lost        \* history: families whose newest secret never reached a client

store   == <<codes, grants>>
tokens  == <<refreshes, accesses>>
history == <<rotations, birth, lost>>
vars    == <<clock, codes, grants, issued, refreshes, accesses, req,
             rotations, birth, lost>>

AccessToken == [fam : Families, exp : Nat, gexp : Nat]

Pcs == {"idle", "getCode", "replayCode", "redeem", "getGrant", "replayGrant",
        "idpRefresh", "revokeFamily", "rotate", "mint", "revokeGrant",
        "revokeGet", "revokeIf", "upstreamRevoke", "verify"}

(* How a request was answered.  "rejected" stands for every 4xx answer     *)
(* that is not told apart below, "unavailable" for 503.                    *)
Outcomes == {"none", "rejected", "unavailable", "code_reused",
             "refresh_replayed", "issued", "noop", "revoked", "accepted"}

(* fam, secret, exp, gexp: the presented credential or the one to be       *)
(* minted; now: the captured time; rec: the grant record read by           *)
(* PrepareRefresh; dead (history): the family was not active at the start. *)
Request == [pc : Pcs, fam : Families, now : Nat, secret : Nat, exp : Nat,
            gexp : Nat, rec : GrantRecord, out : Outcomes, dead : BOOLEAN]

AnyFamily == CHOOSE f \in Families : TRUE

NewRequest(pc, f) ==
    [pc |-> pc, fam |-> f, now |-> clock, secret |-> 0, exp |-> 0, gexp |-> 0,
     rec |-> NoGrant, out |-> "none", dead |-> grants[f].status # "active"]

(* The request is answered; only the answer and the family are kept.       *)
Answer(r, out) ==
    req' = [req EXCEPT ![r] = [pc |-> "idle", fam |-> req[r].fam, now |-> 0,
                               secret |-> 0, exp |-> 0, gexp |-> 0,
                               rec |-> NoGrant, out |-> out, dead |-> FALSE]]

Goto(r, pc) == req' = [req EXCEPT ![r].pc = pc]

Init ==
    /\ clock = 0
    /\ codes  = [f \in Families |-> NoCode]
    /\ grants = [f \in Families |-> NoGrant]
    /\ issued = [f \in Families |-> 0]
    /\ refreshes = {} /\ accesses = {}
    /\ req = [r \in Requests |->
                [pc |-> "idle", fam |-> AnyFamily, now |-> 0, secret |-> 0,
                 exp |-> 0, gexp |-> 0, rec |-> NoGrant, out |-> "none",
                 dead |-> FALSE]]
    /\ rotations = {} /\ birth = [f \in Families |-> 0] /\ lost = {}

-----------------------------------------------------------------------------
(* Environment: time, the Firestore TTL policy, a completed login.         *)

Tick ==
    /\ clock < MaxTime
    /\ clock' = clock + 1
    /\ UNCHANGED <<store, issued, tokens, req, history>>

(* Documents whose expires_at has passed are deleted some time later.      *)
ExpireCode(f) ==
    /\ CodeFound(codes[f]) /\ clock >= codes[f].exp
    /\ codes' = [codes EXCEPT ![f].status = "gone"]
    /\ UNCHANGED <<clock, grants, issued, tokens, req, history>>

ExpireGrant(f) ==
    /\ grants[f].exp > 0 /\ clock >= grants[f].exp
    /\ grants' = [grants EXCEPT ![f] = NoGrant]
    /\ UNCHANGED <<clock, codes, issued, tokens, req, history>>

(* The end of handleCallback: a code is stored for a new random family.    *)
PutCode(f) ==
    /\ codes[f].status = "none"
    /\ \E ttl \in GoogleTTLs :
         codes' = [codes EXCEPT ![f] = [status |-> "active",
                                        exp    |-> clock + CodeTTL,
                                        gexp   |-> clock + ttl]]
    /\ UNCHANGED <<clock, grants, issued, tokens, req, history>>

-----------------------------------------------------------------------------
(* A store call fails without effect, or (transactions) commits while the  *)
(* caller sees an error.                                                   *)

ReadFails(r, pc) ==
    /\ "fail" \in Faults
    /\ req[r].pc = pc
    /\ Answer(r, "unavailable")
    /\ UNCHANGED <<clock, store, issued, tokens, history>>

TxModes == {"ack"} \cup Faults
Commits(mode) == mode \in {"ack", "lost_ack"}

(* A transaction of request r stored next as the successor of secret old.  *)
Committed(f, old, next, mode) ==
    /\ issued'    = [issued EXCEPT ![f] = next.secret]
    /\ rotations' = rotations \cup {<<f, old, next.secret>>}
    /\ lost'      = IF mode = "lost_ack" THEN lost \cup {f} ELSE lost \ {f}

-----------------------------------------------------------------------------
(* POST /token, grant_type=authorization_code.                             *)

StartExchange(r, f) ==
    /\ req[r].pc = "idle"
    /\ codes[f].status # "none"
    /\ req' = [req EXCEPT ![r] = NewRequest("getCode", f)]
    /\ UNCHANGED <<clock, store, issued, tokens, history>>

(* GetCode and the prechecks.  Replay is reported before expiry.  The      *)
(* binding, PKCE, blob and resource checks may reject any request.         *)
GetCode(r) ==
    LET f == req[r].fam
        code == codes[f]
    IN  /\ req[r].pc = "getCode"
        /\ \/ ~ CodeFound(code) /\ Answer(r, "rejected")
           \/ code.status = "used" /\ Goto(r, "replayCode")
           \/ code.status = "active" /\ Answer(r, "rejected")
           \/ /\ code.status = "active" /\ req[r].now < code.exp
              /\ req' = [req EXCEPT ![r].pc = "redeem", ![r].gexp = code.gexp]
        /\ UNCHANGED <<clock, store, issued, tokens, history>>

(* The best-effort revocation of a replayed code; its error is ignored.    *)
ReplayCode(r) ==
    LET f == req[r].fam
        tx == RedeemCodeTx(codes[f], grants[f], ZeroGrant, req[r].now)
    IN  /\ req[r].pc = "replayCode"
        /\ \E mode \in TxModes :
             IF Commits(mode)
             THEN /\ codes'  = [codes EXCEPT ![f] = tx.code]
                  /\ grants' = [grants EXCEPT ![f] = tx.grant]
             ELSE UNCHANGED store
        /\ Answer(r, "code_reused")
        /\ UNCHANGED <<clock, issued, tokens, history>>

RedeemCode(r) ==
    LET f    == req[r].fam
        next == [status |-> "active", secret |-> issued[f] + 1, gen |-> 1,
                 exp |-> req[r].now + RefreshTTL]
        tx   == RedeemCodeTx(codes[f], grants[f], next, req[r].now)
    IN  /\ req[r].pc = "redeem"
        /\ \E mode \in TxModes :
             /\ IF Commits(mode)
                THEN /\ codes'  = [codes EXCEPT ![f] = tx.code]
                     /\ grants' = [grants EXCEPT ![f] = tx.grant]
                ELSE UNCHANGED store
             /\ IF Commits(mode) /\ tx.res = "ok"
                THEN /\ Committed(f, 0, next, mode)
                     /\ birth' = [birth EXCEPT ![f] = req[r].now]
                ELSE UNCHANGED <<issued, history>>
             /\ \/ mode # "ack" /\ Answer(r, "unavailable")
                \/ /\ mode = "ack"
                   /\ \/ tx.res = "conflict" /\ Answer(r, "unavailable")
                      \/ tx.res = "code_replay" /\ Answer(r, "code_reused")
                      \/ tx.res = "not_found" /\ Answer(r, "rejected")
                      \/ /\ tx.res = "ok"
                         /\ req' = [req EXCEPT ![r].pc = "mint",
                                               ![r].secret = next.secret]
        /\ UNCHANGED <<clock, tokens>>

(* writeMintedTokens.  The access token is capped by Google's expiry; an   *)
(* already expired Google token rejects the request after the commit.  The *)
(* response may not reach the client.                                      *)
Mint(r) ==
    LET f   == req[r].fam
        cap == clock + AccessTTL
        exp == IF req[r].gexp < cap THEN req[r].gexp ELSE cap
        undelivered == IF grants[f].secret = req[r].secret THEN {f} ELSE {}
    IN  /\ req[r].pc = "mint"
        /\ \/ /\ exp <= clock
              /\ Answer(r, "rejected")
              /\ lost' = lost \cup undelivered
              /\ UNCHANGED tokens
           \/ /\ exp > clock
              /\ Answer(r, "issued")
              /\ refreshes' = refreshes \cup {<<f, req[r].secret>>}
              /\ accesses' = accesses \cup
                   {[fam |-> f, exp |-> exp, gexp |-> req[r].gexp]}
              /\ UNCHANGED lost
           \/ /\ exp > clock /\ "lost_ack" \in Faults
              /\ Answer(r, "issued")
              /\ lost' = lost \cup undelivered
              /\ UNCHANGED tokens
        /\ UNCHANGED <<clock, store, issued, rotations, birth>>

-----------------------------------------------------------------------------
(* POST /token, grant_type=refresh_token.                                  *)

StartRefresh(r, t) ==
    /\ req[r].pc = "idle"
    /\ req' = [req EXCEPT ![r] =
                 [NewRequest("getGrant", t[1]) EXCEPT !.secret = t[2]]]
    /\ UNCHANGED <<clock, store, issued, tokens, history>>

(* PrepareRefresh up to its second store call: inactive families and       *)
(* failed blob, client or domain checks are rejected; a secret that is not *)
(* the active one goes on to revoke the family.                            *)
PrepareRefresh(r) ==
    LET rec == grants[req[r].fam]
        live == GrantFound(rec) /\ grantActive(rec, req[r].now)
    IN  /\ req[r].pc = "getGrant"
        /\ \/ ~ live /\ Answer(r, "rejected")
           \/ live /\ rec.secret # req[r].secret /\ Goto(r, "replayGrant")
           \/ live /\ rec.secret = req[r].secret /\ Answer(r, "rejected")
           \/ /\ live /\ rec.secret = req[r].secret
              /\ req' = [req EXCEPT ![r].pc = "idpRefresh", ![r].rec = rec]
        /\ UNCHANGED <<clock, store, issued, tokens, history>>

(* RotateGrant called with the spent secret and an empty successor, to     *)
(* revoke the family.                                                      *)
ReplayGrant(r) ==
    LET f  == req[r].fam
        tx == RotateGrantTx(grants[f], req[r].secret, ZeroGrant, req[r].now)
    IN  /\ req[r].pc = "replayGrant"
        /\ \E mode \in TxModes :
             /\ grants' = IF Commits(mode)
                          THEN [grants EXCEPT ![f] = tx.grant] ELSE grants
             /\ Answer(r, IF mode = "ack" THEN "refresh_replayed"
                                          ELSE "unavailable")
        /\ UNCHANGED <<clock, codes, issued, tokens, history>>

(* Google's refresh and the pinned-project access check.  The bound        *)
(* MaxSecrets makes Google refuse when enough secrets were stored.         *)
IdpRefresh(r) ==
    /\ req[r].pc = "idpRefresh"
    /\ \/ /\ issued[req[r].fam] < MaxSecrets
          /\ \E ttl \in GoogleTTLs :
               req' = [req EXCEPT ![r].pc = "rotate", ![r].gexp = clock + ttl]
       \/ Goto(r, "revokeFamily")   \* RetrieveError, or access lost
       \/ Answer(r, "unavailable")  \* transient failure of either call
    /\ UNCHANGED <<clock, store, issued, tokens, history>>

(* RevokeFamily, best effort, then 400.                                    *)
RevokeFamily(r) ==
    LET f == req[r].fam
    IN  /\ req[r].pc = "revokeFamily"
        /\ \E mode \in TxModes :
             grants' = IF Commits(mode)
                       THEN [grants EXCEPT ![f] = RevokeGrantTx(grants[f]).grant]
                       ELSE grants
        /\ Answer(r, "rejected")
        /\ UNCHANGED <<clock, codes, issued, tokens, history>>

(* Variant: every rotation starts a new refresh lifetime.                  *)
RotateRefresh_SlidingExpiry(r) ==
    LET f    == req[r].fam
        next == [status |-> "active", secret |-> issued[f] + 1,
                 gen |-> req[r].rec.gen + 1, exp |-> req[r].now + RefreshTTL]
        tx   == RotateGrantTx(grants[f], req[r].rec.secret, next, req[r].now)
    IN  /\ req[r].pc = "rotate" /\ tx.res = "ok"
        /\ grants' = [grants EXCEPT ![f] = tx.grant]
        /\ Committed(f, req[r].rec.secret, next, "ack")
        /\ req' = [req EXCEPT ![r].pc = "mint", ![r].secret = next.secret]
        /\ UNCHANGED <<clock, codes, tokens, birth>>

(* Variant: the response repeats the presented refresh token.              *)
RotateRefresh_OldToken(r) ==
    LET f    == req[r].fam
        next == [status |-> "active", secret |-> issued[f] + 1,
                 gen |-> req[r].rec.gen + 1, exp |-> req[r].rec.exp]
        tx   == RotateGrantTx(grants[f], req[r].rec.secret, next, req[r].now)
    IN  /\ req[r].pc = "rotate" /\ tx.res = "ok"
        /\ grants' = [grants EXCEPT ![f] = tx.grant]
        /\ Committed(f, req[r].rec.secret, next, "ack")
        /\ Goto(r, "mint")
        /\ UNCHANGED <<clock, codes, tokens, birth>>

(* The successor record is computed from the record PrepareRefresh read;   *)
(* the family's expiry is carried over, never extended.                    *)
RotateRefresh(r) ==
    LET f    == req[r].fam
        rec  == req[r].rec
        next == [status |-> "active", secret |-> issued[f] + 1,
                 gen |-> rec.gen + 1, exp |-> rec.exp]
        tx   == RotateGrantTx(grants[f], rec.secret, next, req[r].now)
    IN  /\ req[r].pc = "rotate"
        /\ \E mode \in TxModes :
             /\ grants' = IF Commits(mode)
                          THEN [grants EXCEPT ![f] = tx.grant] ELSE grants
             /\ IF Commits(mode) /\ tx.res = "ok"
                THEN Committed(f, rec.secret, next, mode)
                ELSE UNCHANGED <<issued, rotations, lost>>
             /\ IF mode # "ack" THEN Answer(r, "unavailable")
                ELSE IF tx.res # "ok" THEN Answer(r, "refresh_replayed")
                ELSE req' = [req EXCEPT ![r].pc = "mint",
                                        ![r].secret = next.secret]
        /\ UNCHANGED <<clock, codes, tokens, birth>>

-----------------------------------------------------------------------------
(* POST /revoke.                                                           *)

(* An access token, expired or not, revokes its family.                    *)
StartRevokeAccess(r, a) ==
    /\ req[r].pc = "idle"
    /\ req' = [req EXCEPT ![r] = NewRequest("revokeGrant", a.fam)]
    /\ UNCHANGED <<clock, store, issued, tokens, history>>

(* Variant: Google is called although the local revocation failed.         *)
RevokeGrant_IgnoreError(r) ==
    LET f == req[r].fam
    IN  /\ req[r].pc = "revokeGrant"
        /\ \E mode \in TxModes :
             grants' = IF Commits(mode)
                       THEN [grants EXCEPT ![f] = RevokeGrantTx(grants[f]).grant]
                       ELSE grants
        /\ Goto(r, "upstreamRevoke")
        /\ UNCHANGED <<clock, codes, issued, tokens, history>>

RevokeGrant(r) ==
    LET f == req[r].fam
    IN  /\ req[r].pc = "revokeGrant"
        /\ \E mode \in TxModes :
             /\ grants' = IF Commits(mode)
                          THEN [grants EXCEPT ![f] = RevokeGrantTx(grants[f]).grant]
                          ELSE grants
             /\ IF mode = "ack" THEN Goto(r, "upstreamRevoke")
                                ELSE Answer(r, "unavailable")
        /\ UNCHANGED <<clock, codes, issued, tokens, history>>

StartRevokeRefresh(r, t) ==
    /\ req[r].pc = "idle"
    /\ req' = [req EXCEPT ![r] =
                 [NewRequest("revokeGet", t[1]) EXCEPT !.secret = t[2]]]
    /\ UNCHANGED <<clock, store, issued, tokens, history>>

RevokeGet(r) ==
    LET rec == grants[req[r].fam]
        possessed == GrantFound(rec) /\ rec.secret = req[r].secret
    IN  /\ req[r].pc = "revokeGet"
        /\ IF possessed THEN Goto(r, "revokeIf") ELSE Answer(r, "noop")
        /\ UNCHANGED <<clock, store, issued, tokens, history>>

(* Possession is checked again in the transaction.  Without a readable     *)
(* Google token there is no upstream call.                                 *)
RevokeGrantIfSecret(r) ==
    LET f  == req[r].fam
        tx == RevokeGrantIfSecretTx(grants[f], req[r].secret)
    IN  /\ req[r].pc = "revokeIf"
        /\ \E mode \in TxModes :
             /\ grants' = IF Commits(mode)
                          THEN [grants EXCEPT ![f] = tx.grant] ELSE grants
             /\ \/ mode # "ack" /\ Answer(r, "unavailable")
                \/ mode = "ack" /\ tx.res # "ok" /\ Answer(r, "noop")
                \/ /\ mode = "ack" /\ tx.res = "ok"
                   /\ Goto(r, "upstreamRevoke") \/ Answer(r, "revoked")
        /\ UNCHANGED <<clock, codes, issued, tokens, history>>

(* Google's revocation; a failure asks the client to retry.                *)
UpstreamRevoke(r) ==
    /\ req[r].pc = "upstreamRevoke"
    /\ Answer(r, "revoked") \/ Answer(r, "unavailable")
    /\ UNCHANGED <<clock, store, issued, tokens, history>>

-----------------------------------------------------------------------------
(* The bearer check of an MCP request.                                     *)

StartVerify(r, a) ==
    /\ req[r].pc = "idle"
    /\ req' = [req EXCEPT ![r] = [NewRequest("verify", a.fam)
                                    EXCEPT !.exp = a.exp, !.gexp = a.gexp]]
    /\ UNCHANGED <<clock, store, issued, tokens, history>>

(* The domain check may reject any request.  An accepted request keeps its *)
(* data for the properties below.                                          *)
VerifyAccess(r) ==
    LET rec == grants[req[r].fam]
    IN  /\ req[r].pc = "verify"
        /\ \/ Answer(r, "rejected")
           \/ /\ req[r].now < req[r].exp
              /\ GrantFound(rec) /\ grantActive(rec, req[r].now)
              /\ req' = [req EXCEPT ![r].pc = "idle", ![r].out = "accepted"]
        /\ UNCHANGED <<clock, store, issued, tokens, history>>

-----------------------------------------------------------------------------
Reads == {"getCode", "getGrant", "revokeGet", "verify"}

Step(r) ==
    \/ GetCode(r) \/ ReplayCode(r) \/ RedeemCode(r) \/ Mint(r)
    \/ PrepareRefresh(r) \/ ReplayGrant(r) \/ IdpRefresh(r)
    \/ RevokeFamily(r) \/ RotateRefresh(r)
    \/ RevokeGrant(r) \/ RevokeGet(r) \/ RevokeGrantIfSecret(r)
    \/ UpstreamRevoke(r) \/ VerifyAccess(r)
    \/ \E pc \in Reads : ReadFails(r, pc)

Start(r) ==
    \/ \E f \in Families : StartExchange(r, f)
    \/ \E t \in refreshes : StartRefresh(r, t) \/ StartRevokeRefresh(r, t)
    \/ \E a \in accesses : StartRevokeAccess(r, a) \/ StartVerify(r, a)

Environment ==
    \/ Tick
    \/ \E f \in Families : ExpireCode(f) \/ ExpireGrant(f) \/ PutCode(f)

Next == Environment \/ \E r \in Requests : Start(r) \/ Step(r)

Spec == Init /\ [][Next]_vars

-----------------------------------------------------------------------------
(* Properties.                                                             *)

TypeOK ==
    /\ clock \in Nat
    /\ codes \in [Families -> CodeRecord]
    /\ grants \in [Families -> GrantRecord]
    /\ issued \in [Families -> Nat]
    /\ refreshes \subseteq Families \X Nat
    /\ accesses \subseteq AccessToken
    /\ req \in [Requests -> Request]
    /\ rotations \subseteq Families \X Nat \X Nat
    /\ birth \in [Families -> Nat]
    /\ lost \subseteq Families

(* Redemption and rotation have one winner: whatever requests race with    *)
(* the same code or refresh token, and whatever they read before their     *)
(* transaction, at most one successor secret is ever stored for it.        *)
OneSuccessor ==
    \A x, y \in rotations : x[1] = y[1] /\ x[2] = y[2] => x = y

(* The empty successor record handed to RedeemCode and RotateGrant by the  *)
(* two replay paths is never written: the value the caller found spent is  *)
(* still spent when the transaction runs.                                  *)
ZeroNeverStored == \A f \in Families : grants[f].status # "zero"

(* A family that exists and is not active never becomes active again: no   *)
(* stale record, retry, TTL deletion or late redemption resurrects it.     *)
NoResurrection ==
    [][\A f \in Families :
         issued[f] > 0 /\ grants[f].status # "active"
           => grants'[f].status # "active"]_vars

(* An answer refresh_token_replayed ("refresh token replay revoked this    *)
(* grant family") is given only when the family is inactive for good.      *)
ReplayedMeansRevoked ==
    \A r \in Requests :
      req[r].out = "refresh_replayed" => grants[req[r].fam].status # "active"

(* What RUNBOOK.md promises of a consumed authorization code: when the     *)
(* replay is answered, the family is no longer active.                     *)
CodeReuseMeansRevoked ==
    \A r \in Requests :
      req[r].out = "code_reused" => grants[req[r].fam].status # "active"

(* A bearer token is not accepted by a request that started after its      *)
(* family was revoked, expired or deleted.                                 *)
NoAcceptAfterRevocation ==
    \A r \in Requests : req[r].out = "accepted" => ~ req[r].dead

(* An accepted request started before the embedded Google token expired,   *)
(* and before the end of the family's absolute lifetime, counted from the  *)
(* code exchange: rotations never extend it.                               *)
AcceptWithinLifetimes ==
    \A r \in Requests :
      req[r].out = "accepted" =>
        /\ req[r].now < req[r].gexp
        /\ req[r].now < birth[req[r].fam] + RefreshTTL

(* A refresh token that has been rotated away is a no-op at /revoke, even  *)
(* when the rotation happens between the handler's read and its write.     *)
SpentTokenRevokesNothing ==
    [][\A r \in Requests :
         /\ req[r].pc \in {"revokeGet", "revokeIf"}
         /\ req'[r] # req[r]
         /\ \E x \in rotations : x[1] = req[r].fam /\ x[2] = req[r].secret
         => UNCHANGED grants]_vars

(* Google's revocation is called only when local access is already cut.    *)
LocalRevokeFirst ==
    \A r \in Requests :
      req[r].pc = "upstreamRevoke" => grants[req[r].fam].status # "active"

(* The active secret of a family is known to a client or about to be sent  *)
(* to one, unless an acknowledgement or a response was lost or Google      *)
(* handed out an expired token: no race locks a client out of a family     *)
(* that stays active.                                                      *)
ActiveSecretReachable ==
    \A f \in Families :
      grants[f].status = "active" =>
        \/ <<f, grants[f].secret>> \in refreshes
        \/ f \in lost
        \/ \E r \in Requests : /\ req[r].pc = "mint" /\ req[r].fam = f
                               /\ req[r].secret = grants[f].secret

-----------------------------------------------------------------------------
(* The inductive invariant behind these properties.  Every stored secret   *)
(* is numbered by the generation that stored it, the newest is the active  *)
(* one, and a request that found a secret spent keeps a smaller number.    *)

(* A secret-carrying grant holds the newest secret and its generation.     *)
NewestIsActive ==
    \A f \in Families :
      /\ grants[f].status = "active" => grants[f].secret > 0
      /\ grants[f].secret > 0 => /\ grants[f].secret = issued[f]
                                 /\ grants[f].gen = issued[f]
                                 /\ grants[f].exp = birth[f] + RefreshTTL

(* A code is redeemable exactly as long as nothing was issued for it.      *)
CodeGuardsFirst ==
    \A f \in Families :
      /\ codes[f].status \in {"none", "active"} => issued[f] = 0
      /\ codes[f].status = "used" => issued[f] > 0
      /\ issued[f] = 0 => grants[f] = NoGrant

(* Successors are numbered consecutively from the code (0).                *)
Chain ==
    \A x \in rotations : x[3] = x[2] + 1 /\ x[3] <= issued[x[1]]

(* No client holds a secret that was not stored yet.                       *)
HeldWereIssued ==
    /\ \A t \in refreshes : 0 < t[2] /\ t[2] <= issued[t[1]]
    /\ \A a \in accesses : issued[a.fam] > 0 /\ a.exp <= a.gexp

(* What a request knows about its family, whatever the others do.          *)
Knows(r) ==
    LET q == req[r]
        f == q.fam
    IN  /\ q.pc # "idle" => q.out = "none"
        /\ q.pc \in {"getGrant", "replayGrant", "idpRefresh", "rotate",
                     "revokeGet", "revokeIf", "mint"}
              => 0 < q.secret /\ q.secret <= issued[f]
        /\ q.pc = "replayCode" => codes[f].status \in {"used", "gone"}
        /\ q.pc = "replayGrant" => /\ q.secret < issued[f]
                                   /\ q.now < birth[f] + RefreshTTL
        /\ q.pc \in {"idpRefresh", "rotate"} =>
              /\ q.rec.secret = q.secret /\ q.rec.gen = q.secret
              /\ q.rec.exp = birth[f] + RefreshTTL
              /\ q.now < q.rec.exp
        /\ q.pc \in {"revokeGrant", "verify", "upstreamRevoke"}
              => issued[f] > 0
        /\ q.pc = "upstreamRevoke" => grants[f].status # "active"
        /\ q.pc = "verify" => /\ q.exp <= q.gexp
                              /\ q.dead => grants[f].status # "active"
        /\ q.out = "refresh_replayed" =>
              issued[f] > 0 /\ grants[f].status # "active"
        /\ q.out = "accepted" =>
              /\ issued[f] > 0 /\ ~ q.dead
              /\ q.now < q.gexp /\ q.now < birth[f] + RefreshTTL

RequestInv == \A r \in Requests : Knows(r)

IndInv == /\ NewestIsActive /\ CodeGuardsFirst /\ Chain /\ HeldWereIssued
          /\ RequestInv /\ ZeroNeverStored
===============================================================================
