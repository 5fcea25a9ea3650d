------------------------------ MODULE AtomicStore ------------------------------
(***************************************************************************)
(* What the handlers expect of oauthStateStore (authsrv/store.go): a call  *)
(* takes effect in one step, at some moment between its start and its      *)
(* answer, and the answer classifies that step.  A call that failed had no *)
(* effect or the effect of one such step; its caller cannot tell.          *)
(*                                                                         *)
(* One family: its authorization code and its grant.  GrantLifecycle uses  *)
(* the store in this form; FirestoreTx implements it.                      *)
(***************************************************************************)
EXTENDS GrantRules

CONSTANTS
    Callers,    \* concurrent store calls
    CodeTTL,    \* codeTTL
    RefreshTTL, \* cfg.refreshTokenTTL()
    MaxTime,    \* bound on the clock
    MaxSecrets  \* bound on the secrets handed to store calls

VARIABLES
    clock,    \* the callers' time
    code,     \* the oauth_codes document
    grant,    \* the oauth_grants document
    secrets,  \* number of secrets drawn by callers
    call      \* the calls

vars == <<clock, code, grant, secrets, call>>

Idle == [pc |-> "idle"]
Called(op) == [pc |-> "called", op |-> op]
Done(res) == [pc |-> "done", res |-> res]

Init ==
    /\ clock = 0
    /\ code = NoCode /\ grant = NoGrant /\ secrets = 0
    /\ call = [p \in Callers |-> Idle]

(* The documents after an operation, and its result.                       *)
Effect(op, c, g) ==
    LET onGrant(tx) == [code |-> c, grant |-> tx.grant, res |-> tx.res]
    IN  CASE op.kind = "redeem" -> RedeemCodeTx(c, g, op.next, op.now)
          [] op.kind = "rotate" -> onGrant(RotateGrantTx(g, op.expected, op.next, op.now))
          [] op.kind = "revoke" -> onGrant(RevokeGrantTx(g))
          [] OTHER              -> onGrant(RevokeGrantIfSecretTx(g, op.expected))

(* A caller presents any secret drawn so far; a redemption or a rotation   *)
(* brings a fresh one.                                                     *)
Invoke(p) ==
    /\ call[p] = Idle
    /\ \E kind \in {"redeem", "rotate", "revoke", "revoke_if"},
          expected \in 0..MaxSecrets :
         LET brings == kind \in {"redeem", "rotate"}
             next == [status |-> "active", secret |-> secrets + 1, gen |-> 1,
                      exp |-> clock + RefreshTTL]
         IN  /\ expected <= secrets
             /\ expected = 0 <=> kind \in {"redeem", "revoke"}
             /\ brings => secrets < MaxSecrets
             /\ secrets' = IF brings THEN secrets + 1 ELSE secrets
             /\ call' = [call EXCEPT ![p] =
                           Called([kind |-> kind, expected |-> expected,
                                   next |-> IF brings THEN next ELSE NoGrant,
                                   now |-> clock])]
    /\ UNCHANGED <<clock, code, grant>>

(* The operation takes effect; the answer may be lost.                     *)
Perform(p) ==
    /\ call[p].pc = "called"
    /\ LET out == Effect(call[p].op, code, grant)
       IN  /\ code' = out.code
           /\ grant' = out.grant
           /\ \E res \in {out.res, "error"} :
                call' = [call EXCEPT ![p] = Done(res)]
    /\ UNCHANGED <<clock, secrets>>

Fail(p) ==
    /\ call[p].pc = "called"
    /\ call' = [call EXCEPT ![p] = Done("error")]
    /\ UNCHANGED <<clock, code, grant, secrets>>

Return(p) ==
    /\ call[p].pc = "done"
    /\ call' = [call EXCEPT ![p] = Idle]
    /\ UNCHANGED <<clock, code, grant, secrets>>

(* The callback's Create, and deletions by the TTL policy.                 *)
PutCode ==
    /\ code.status = "none"
    /\ code' = [status |-> "active", exp |-> clock + CodeTTL, gexp |-> 0]
    /\ UNCHANGED <<clock, grant, secrets, call>>

ExpireCode ==
    /\ CodeFound(code) /\ clock >= code.exp
    /\ code' = [code EXCEPT !.status = "gone"]
    /\ UNCHANGED <<clock, grant, secrets, call>>

ExpireGrant ==
    /\ grant.exp > 0 /\ clock >= grant.exp
    /\ grant' = NoGrant
    /\ UNCHANGED <<clock, code, secrets, call>>

Tick ==
    /\ clock < MaxTime
    /\ clock' = clock + 1
    /\ UNCHANGED <<code, grant, secrets, call>>

Next ==
    \/ \E p \in Callers : Invoke(p) \/ Perform(p) \/ Fail(p) \/ Return(p)
    \/ PutCode \/ ExpireCode \/ ExpireGrant \/ Tick

Spec == Init /\ [][Next]_vars
===============================================================================
