--------------------------- MODULE AuthorizationFlow ---------------------------
(***************************************************************************)
(* A login: dynamic registration (authsrv/dcr.go), the authorization       *)
(* request and its consent form (authorize.go), and the callback from      *)
(* Google (callback.go), over the authorization states and codes of        *)
(* firestore_store.go and the blobs of seal.go, sealed with the key ring   *)
(* of keys.go.                                                             *)
(*                                                                         *)
(* A callback is a process, split at its store calls and its calls to      *)
(* Google; /authorize and /authorize/confirm make one store call each and  *)
(* are one step.  The browser may go back, post the form twice and repeat  *)
(* the callback.  Two releases with different key rings serve at the same  *)
(* time while traffic shifts (deploy/rollout.sh); a process may die        *)
(* between any two steps.                                                  *)
(*                                                                         *)
(* codes, sent and refused are history: no guard reads them.               *)
(***************************************************************************)
EXTENDS Naturals, Sequences, FiniteSets, RedirectRules

CONSTANTS
    Flows,             \* logins: the state tokens that can be drawn
    Handlers,          \* callback requests in progress
    Rings,             \* Rings[n]: the key ring, a sequence, of release n
    URIs,              \* redirect URIs that clients present
    Registrations,     \* sets of redirect URIs presented for registration
    MaxClients,        \* client ids issued
    SkipConsent,       \* AUTH_SKIP_CONSENT
    Pinned,            \* whether the deployment is pinned to a project
    StateTTL, MaxTime, \* lifetime of a state; bound on the clock
    Faults             \* outcomes of a store call beside "ack"

(* The key ring.  The first key seals; any key of the ring opens.          *)
Ring(n) == {Rings[n][i] : i \in DOMAIN Rings[n]}
sealKey(n) == Rings[n][1]
Keys == UNION {Ring(n) : n \in DOMAIN Rings}

ASSUME FlowAssumption ==
    /\ Rings \in Seq(Seq(Keys)) /\ Rings # <<>>
    /\ \A n \in DOMAIN Rings : Rings[n] # <<>>
    /\ \A u \in URIs \cup UNION Registrations : IsURI(u)
    /\ SkipConsent \in BOOLEAN /\ Pinned \in BOOLEAN
    /\ StateTTL \in Nat /\ MaxTime \in Nat /\ MaxClients \in Nat
    /\ Faults \subseteq {"fail", "lost_ack"}

VARIABLES
    clock,
    oldest, newest,  \* the releases that serve
    clients,         \* client ids issued
    login,           \* documents oauth_states
    page,            \* where the browser has got with a login
    call,            \* the callbacks
    codes,           \* how many codes were stored for a login
    sent,            \* redirects back to clients
    refused          \* sealing key and release of undecryptable states

store == <<clients, login, page>>
history == <<codes, sent, refused>>
vars == <<clock, oldest, newest, clients, login, page, call, codes, sent, refused>>

NoLogin == [status |-> "none"]
Idle == [pc |-> "idle"]

(* stateClaims and the document around them.  key and iat belong to the    *)
(* sealed blob.                                                            *)
NewState(n, client, uri) ==
    [status |-> "active", exp |-> clock + StateTTL,
     key |-> sealKey(n), iat |-> clock, client |-> client, uri |-> uri]

StateFound(f) == login[f].status \in {"active", "used"}

(* Variant: a blob is opened with the sealing key only.                    *)
openBlob_SealKeyOnly(blob, n) ==
    IF blob.key # sealKey(n) THEN "unknown_key"
    ELSE IF clock > blob.iat + StateTTL THEN "expired" ELSE "ok"

(* What openBlob finds, with the ring of release n.                        *)
openBlob(blob, n) ==
    IF blob.key \notin Ring(n) THEN "unknown_key"
    ELSE IF clock > blob.iat + StateTTL THEN "expired" ELSE "ok"

(* The releases among which traffic is split.                              *)
Serving == oldest..newest

Redirect(f, uri, what) == sent' = sent \cup {[flow |-> f, to |-> uri, what |-> what]}

Init ==
    /\ clock = 0 /\ oldest = 1 /\ newest = 1
    /\ clients = {} /\ sent = {} /\ refused = {}
    /\ login = [f \in Flows |-> NoLogin]
    /\ page = [f \in Flows |-> "none"]
    /\ call = [h \in Handlers |-> Idle]
    /\ codes = [f \in Flows |-> 0]

-----------------------------------------------------------------------------
(* Registration and the authorization request.                             *)

(* Nothing is stored: the client id itself, signed, carries the URIs.      *)
(* Other metadata errors issue nothing either.                             *)
handleRegister(n) ==
    /\ Cardinality(clients) < MaxClients
    /\ \E uris \in Registrations :
         /\ uris # {} /\ \A u \in uris : allowed(u)
         /\ clients' = clients \cup {[uris |-> uris, key |-> sealKey(n)]}
    /\ UNCHANGED <<clock, oldest, newest, login, page, call, codes, sent, refused>>

(* What /authorize checks before it trusts the redirect target.            *)
Trusted(n, client, uri) ==
    /\ client.key \in Ring(n)
    /\ matchRegistered(client.uris, uri)
    /\ allowed(uri)

(* An error page; the browser is not redirected.                           *)
RefuseAuthorize(n) ==
    /\ \E client \in clients, uri \in URIs : ~ Trusted(n, client, uri)
    /\ UNCHANGED vars

(* A request that breaks the protocol, or whose state cannot be stored, is *)
(* answered at the redirect URI.  Of a lost answer only the document stays.*)
handleAuthorize(n) ==
    \E f \in Flows, client \in clients, uri \in URIs :
      /\ Trusted(n, client, uri)
      /\ login[f] = NoLogin
      /\ \/ /\ Redirect(f, uri, "error")
            /\ UNCHANGED <<login, page>>
         \/ /\ login' = [login EXCEPT ![f] = NewState(n, client, uri)]
            /\ page' = [page EXCEPT ![f] = IF SkipConsent THEN "google" ELSE "consent"]
            /\ UNCHANGED sent
         \/ /\ "lost_ack" \in Faults
            /\ login' = [login EXCEPT ![f] = NewState(n, client, uri)]
            /\ Redirect(f, uri, "error")
            /\ UNCHANGED page
      /\ UNCHANGED <<clock, oldest, newest, clients, call, codes, refused>>

(* The consent form.  It names the state and does not consume it: only a   *)
(* state that is active and not expired goes on to Google.  Every other    *)
(* answer is an error page.                                                *)
handleAuthorizeConfirm(f) ==
    /\ page[f] \in {"consent", "google"}
    /\ login[f].status = "active" /\ clock < login[f].exp
    /\ page' = [page EXCEPT ![f] = "google"]
    /\ UNCHANGED <<clock, oldest, newest, clients, login, call, codes, sent, refused>>

-----------------------------------------------------------------------------
(* The callback.                                                           *)
At(h, pc) == call[h].pc = pc
Goto(h, pc) == call' = [call EXCEPT ![h].pc = pc]
End(h) == call' = [call EXCEPT ![h] = Idle]

(* Google sends the browser back with a code, an error or neither.  The    *)
(* time is captured before the transaction.                                *)
StartCallback(h, n) ==
    /\ call[h] = Idle
    /\ \E f \in Flows, reply \in {"code", "no_code"} :
         /\ page[f] = "google"
         /\ call' = [call EXCEPT ![h] =
                       [pc |-> "use_state", flow |-> f, rel |-> n,
                        now |-> clock, reply |-> reply]]
    /\ UNCHANGED <<clock, oldest, newest, store, history>>

(* Variant: the state is looked up as on the consent page, not consumed.   *)
UseAuthorizationState_ReadOnly(h) ==
    LET f == call[h].flow
    IN  /\ At(h, "use_state")
        /\ StateFound(f) /\ login[f].status = "active" /\ call[h].now < login[f].exp
        /\ Goto(h, "exchange")
        /\ UNCHANGED <<clock, oldest, newest, store, history>>

(* The transaction found nothing to use, or the call failed without        *)
(* effect: an error page.                                                  *)
StateRejected(h) ==
    LET f == call[h].flow
    IN  /\ At(h, "use_state")
        /\ \/ ~ StateFound(f)
           \/ call[h].now >= login[f].exp
           \/ login[f].status # "active"
           \/ "fail" \in Faults
        /\ End(h)
        /\ UNCHANGED <<clock, oldest, newest, store, history>>

(* The state is marked used, whatever becomes of the callback.  Then the   *)
(* claims are opened; without them there is no redirect target.            *)
UseAuthorizationState(h) ==
    LET f == call[h].flow
        opened == openBlob(login[f], call[h].rel)
    IN  /\ At(h, "use_state")
        /\ StateFound(f) /\ login[f].status = "active" /\ call[h].now < login[f].exp
        /\ login' = [login EXCEPT ![f].status = "used"]
        /\ \/ "lost_ack" \in Faults /\ End(h) /\ UNCHANGED <<sent, refused>>
           \/ /\ opened # "ok"
              /\ End(h)
              /\ refused' = IF opened = "unknown_key"
                            THEN refused \cup {[key |-> login[f].key, rel |-> call[h].rel]}
                            ELSE refused
              /\ UNCHANGED sent
           \/ /\ opened = "ok" /\ call[h].reply = "no_code"
              /\ End(h) /\ Redirect(f, login[f].uri, "error") /\ UNCHANGED refused
           \/ /\ opened = "ok" /\ call[h].reply = "code"
              /\ Goto(h, "exchange") /\ UNCHANGED <<sent, refused>>
        /\ UNCHANGED <<clock, oldest, newest, clients, page, codes>>

(* Google's code exchange and everything checked of its answer: the        *)
(* refresh token, the id token, the verified email, domain and scopes.     *)
Exchange(h) ==
    LET f == call[h].flow
    IN  /\ At(h, "exchange")
        /\ \/ Goto(h, IF Pinned THEN "access" ELSE "put_code") /\ UNCHANGED sent
           \/ End(h) /\ Redirect(f, login[f].uri, "error")
        /\ UNCHANGED <<clock, oldest, newest, store, codes, refused>>

(* testIamPermissions: access, no access, or undetermined.                 *)
checkProjectAccess(h) ==
    LET f == call[h].flow
    IN  /\ At(h, "access")
        /\ \/ Goto(h, "put_code") /\ UNCHANGED sent
           \/ End(h) /\ Redirect(f, login[f].uri, "error")
        /\ UNCHANGED <<clock, oldest, newest, store, codes, refused>>

(* The code document is created, or not; the answer may be lost.           *)
PutCode(h) ==
    LET f == call[h].flow
    IN  /\ At(h, "put_code")
        /\ End(h)
        /\ \/ codes' = [codes EXCEPT ![f] = @ + 1] /\ Redirect(f, login[f].uri, "code")
           \/ /\ "lost_ack" \in Faults
              /\ codes' = [codes EXCEPT ![f] = @ + 1] /\ Redirect(f, login[f].uri, "error")
           \/ /\ "fail" \in Faults
              /\ UNCHANGED codes /\ Redirect(f, login[f].uri, "error")
        /\ UNCHANGED <<clock, oldest, newest, store, refused>>

-----------------------------------------------------------------------------
(* The environment.                                                        *)

(* The process dies, or the browser gives up and the context is cancelled. *)
Crash(h) ==
    /\ ~ At(h, "idle")
    /\ End(h)
    /\ UNCHANGED <<clock, oldest, newest, store, history>>

(* The TTL policy may delete a document once its expiry has passed.        *)
ExpireState(f) ==
    /\ StateFound(f) /\ clock >= login[f].exp
    /\ login' = [login EXCEPT ![f].status = "gone"]
    /\ UNCHANGED <<clock, oldest, newest, clients, page, call, history>>

(* A rollout: the new release takes a share of the traffic, then all of    *)
(* it, or is rolled back.                                                  *)
Deploy ==
    /\ oldest = newest /\ newest < Len(Rings)
    /\ newest' = newest + 1
    /\ UNCHANGED <<clock, oldest, store, call, history>>

Promote ==
    /\ oldest < newest
    /\ oldest' = newest
    /\ UNCHANGED <<clock, newest, store, call, history>>

Rollback ==
    /\ oldest < newest
    /\ newest' = oldest
    /\ UNCHANGED <<clock, oldest, store, call, history>>

Tick ==
    /\ clock < MaxTime
    /\ clock' = clock + 1
    /\ UNCHANGED <<oldest, newest, store, call, history>>

Callback(h) ==
    \/ StateRejected(h) \/ UseAuthorizationState(h)
    \/ Exchange(h) \/ checkProjectAccess(h) \/ PutCode(h)

Next ==
    \/ \E n \in Serving :
         handleRegister(n) \/ handleAuthorize(n) \/ RefuseAuthorize(n)
    \/ \E f \in Flows : handleAuthorizeConfirm(f) \/ ExpireState(f)
    \/ \E h \in Handlers, n \in Serving : StartCallback(h, n)
    \/ \E h \in Handlers : Callback(h) \/ Crash(h)
    \/ Deploy \/ Promote \/ Rollback
    \/ Tick

Spec == Init /\ [][Next]_vars

-----------------------------------------------------------------------------
(* A login ends in at most one authorization code, and a client is handed  *)
(* a code only if it was stored, however often the browser repeats the     *)
(* callback and wherever it is answered (callback.go:18, callback.go:123). *)
OneCodePerLogin ==
    \A f \in Flows :
      /\ codes[f] <= 1
      /\ \A s \in sent : s.flow = f /\ s.what = "code" => codes[f] = 1

(* The server sends a browser only to a URI that some client registered,   *)
(* up to the port of a loopback; never over plain http but to a loopback,  *)
(* nor elsewhere than to a listed URI; also when the target comes out of   *)
(* the stored state (callback.go:34, authorize.go:33, redirect.go:71).     *)
RedirectsTrusted ==
    \A s \in sent :
      LET loopback == s.to.scheme = "http" /\ s.to.host \in LoopbackHosts
      IN  /\ s.to.clean /\ (loopback \/ s.to \in Exact)
          /\ \E c \in clients : \E u \in c.uris :
               s.to = IF loopback THEN [u EXCEPT !.port = s.to.port] ELSE u

(* A new key is made known a release before it seals: traffic is not split *)
(* between releases of which "either revision cannot accept the other      *)
(* revision's OAuth artifacts" (deploy/RUNBOOK.md:41).                     *)
KeysAnnounced == \A n \in DOMAIN Rings : n > 1 => sealKey(n) \in Ring(n - 1)

(* Rotating the key ring costs no login but those whose key was dropped: a *)
(* callback cannot open a state only if an earlier release knew its key    *)
(* (seal.go:110, keys.go:105).                                             *)
RotationKeepsLogins ==
    \A r \in refused : \E n \in DOMAIN Rings : n < r.rel /\ r.key \in Ring(n)
===============================================================================
