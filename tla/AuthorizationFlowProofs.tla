------------------------ MODULE AuthorizationFlowProofs ------------------------
(***************************************************************************)
(* Proofs about AuthorizationFlow for any logins, callbacks, releases, key *)
(* rings, clients and redirect URIs: a login ends in at most one code, a   *)
(* browser is sent only where it may be, and a rollout of the key ring     *)
(* costs no login whose key is still in the ring.                          *)
(***************************************************************************)
EXTENDS AuthorizationFlow, TLAPS

ClientRecord == [uris : Registrations, key : Keys]

LoginRecord ==
    [status : {"active", "used", "gone"}, exp : Nat, key : Keys, iat : Nat,
     client : ClientRecord, uri : URIs]

CallRecord ==
    [pc : {"use_state", "exchange", "access", "put_code"}, flow : Flows,
     rel : DOMAIN Rings, now : Nat, reply : {"code", "no_code"}]

Releases ==
    /\ oldest \in DOMAIN Rings /\ newest \in DOMAIN Rings
    /\ oldest <= newest /\ newest <= oldest + 1

FlowType ==
    /\ clock \in Nat /\ Releases
    /\ clients \subseteq ClientRecord
    /\ login \in [Flows -> {NoLogin} \cup LoginRecord]
    /\ page \in [Flows -> {"none", "consent", "google"}]
    /\ call \in [Handlers -> {Idle} \cup CallRecord]

(* The browser has a page of a login, and a callback is running, only when *)
(* the state was stored.                                                   *)
StateStored ==
    /\ \A f \in Flows : page[f] # "none" => login[f] # NoLogin
    /\ \A h \in Handlers : call[h] # Idle => login[call[h].flow] # NoLogin

TypeInv == FlowType /\ StateStored

-----------------------------------------------------------------------------
(* The key ring.                                                           *)

LEMMA RingFacts ==
  ASSUME NEW n \in DOMAIN Rings
  PROVE  n \in Nat /\ sealKey(n) \in Ring(n) /\ sealKey(n) \in Keys
<1>1. n \in 1 .. Len(Rings) /\ Rings[n] \in Seq(Keys) /\ Rings[n] # <<>>
  BY FlowAssumption
<1>2. 1 \in DOMAIN Rings[n]
  BY <1>1
<1> QED
  BY <1>1, <1>2 DEF Ring, sealKey, Keys

LEMMA ServingFacts ==
  ASSUME Releases, NEW n \in Serving
  PROVE  n \in DOMAIN Rings /\ oldest <= n /\ n <= oldest + 1
  BY FlowAssumption DEF Releases, Serving

LEMMA RingCount ==
  DOMAIN Rings = 1 .. Len(Rings) /\ Len(Rings) \in Nat /\ Len(Rings) # 0
  BY FlowAssumption

-----------------------------------------------------------------------------
(* What the steps leave behind is typed.                                   *)

LEMMA NewStateType ==
  ASSUME TypeInv, NEW n \in DOMAIN Rings, NEW client \in clients,
         NEW uri \in URIs
  PROVE  NewState(n, client, uri) \in LoginRecord
  BY RingFacts, FlowAssumption DEF TypeInv, FlowType, NewState, LoginRecord

LEMMA GotoType ==
  ASSUME TypeInv, NEW h \in Handlers, call[h] # Idle,
         NEW pc \in {"exchange", "access", "put_code"}, Goto(h, pc)
  PROVE  /\ call' \in [Handlers -> {Idle} \cup CallRecord]
         /\ \A g \in Handlers : call'[g] # Idle =>
              /\ call[g] # Idle
              /\ call'[g].flow = call[g].flow
              /\ call'[g].rel = call[g].rel
  BY DEF TypeInv, FlowType, Goto, CallRecord

LEMMA EndType ==
  ASSUME TypeInv, NEW h \in Handlers, End(h)
  PROVE  /\ call' \in [Handlers -> {Idle} \cup CallRecord]
         /\ \A g \in Handlers : call'[g] # Idle =>
              /\ call[g] # Idle
              /\ call'[g] = call[g]
  BY DEF TypeInv, FlowType, End

LEMMA Busy ==
  ASSUME NEW h \in Handlers, NEW pc, pc # "idle", At(h, pc)
  PROVE  call[h] # Idle
  BY DEF At, Idle

LEMMA FlowInit == Init => TypeInv
  BY RingCount DEF Init, TypeInv, FlowType, StateStored, Releases, Idle, NoLogin

LEMMA FlowNext == TypeInv /\ [Next]_vars => TypeInv'
<1> SUFFICES ASSUME TypeInv, [Next]_vars PROVE TypeInv'
  OBVIOUS
<1> USE DEF TypeInv, FlowType, StateStored
<1>1. ASSUME NEW n \in Serving, handleRegister(n) PROVE TypeInv'
  <2>1. sealKey(n) \in Keys
    BY ServingFacts, RingFacts
  <2>2. clients' \subseteq ClientRecord
    BY <1>1, <2>1 DEF handleRegister, ClientRecord
  <2> QED
    BY <1>1, <2>2 DEF handleRegister, Releases
<1>2. ASSUME NEW n \in Serving, handleAuthorize(n) PROVE TypeInv'
  <2>1. PICK f \in Flows, client \in clients, uri \in URIs :
          /\ login[f] = NoLogin
          /\ \/ login' = login /\ page' = page
             \/ /\ login' = [login EXCEPT ![f] = NewState(n, client, uri)]
                /\ page' \in {page, [page EXCEPT ![f] = "google"],
                             [page EXCEPT ![f] = "consent"]}
    BY <1>2 DEF handleAuthorize
  <2>2. NewState(n, client, uri) \in LoginRecord
    BY ServingFacts, NewStateType
  <2>3. \A rec \in LoginRecord : rec # NoLogin
    BY DEF NoLogin, LoginRecord
  <2>4. /\ login' \in [Flows -> {NoLogin} \cup LoginRecord]
        /\ page' \in [Flows -> {"none", "consent", "google"}]
        /\ StateStored'
    BY <1>2, <2>1, <2>2, <2>3 DEF handleAuthorize, CallRecord
  <2> QED
    BY <1>2, <2>4 DEF handleAuthorize, Releases
<1>3. ASSUME NEW n \in Serving, RefuseAuthorize(n) PROVE TypeInv'
  BY <1>3 DEF RefuseAuthorize, vars, Releases
<1>4. ASSUME NEW f \in Flows, handleAuthorizeConfirm(f) PROVE TypeInv'
  BY <1>4 DEF handleAuthorizeConfirm, Releases, NoLogin
<1>5. ASSUME NEW f \in Flows, ExpireState(f) PROVE TypeInv'
  BY <1>5 DEF ExpireState, StateFound, history, Releases, NoLogin, LoginRecord
<1>6. ASSUME NEW h \in Handlers, NEW n \in Serving, StartCallback(h, n)
      PROVE  TypeInv'
  BY <1>6, ServingFacts DEF StartCallback, store, history, Releases, CallRecord
<1>7. ASSUME NEW h \in Handlers, StateRejected(h) PROVE TypeInv'
  BY <1>7, EndType DEF StateRejected, store, history, Releases
<1>8. ASSUME NEW h \in Handlers, UseAuthorizationState(h) PROVE TypeInv'
  <2>1. call[h] # Idle
    BY <1>8, Busy DEF UseAuthorizationState
  <2>2. /\ login' \in [Flows -> {NoLogin} \cup LoginRecord]
        /\ \A f \in Flows : login[f] # NoLogin => login'[f] # NoLogin
    BY <1>8, <2>1
       DEF UseAuthorizationState, LoginRecord, CallRecord, NoLogin, StateFound
  <2>3. Goto(h, "exchange") \/ End(h)
    BY <1>8 DEF UseAuthorizationState
  <2>4. /\ call' \in [Handlers -> {Idle} \cup CallRecord]
        /\ \A g \in Handlers : call'[g] # Idle =>
             call[g] # Idle /\ call'[g].flow = call[g].flow
    BY <2>1, <2>3, GotoType, EndType
  <2>5. StateStored'
    BY <1>8, <2>2, <2>4 DEF UseAuthorizationState, CallRecord
  <2> QED
    BY <1>8, <2>2, <2>4, <2>5 DEF UseAuthorizationState, Releases
<1>9. ASSUME NEW h \in Handlers, Exchange(h) \/ checkProjectAccess(h) PROVE TypeInv'
  BY <1>9, Busy, GotoType, EndType DEF Exchange, checkProjectAccess, store, Releases
<1>10. ASSUME NEW h \in Handlers, PutCode(h) \/ Crash(h) PROVE TypeInv'
  BY <1>10, EndType DEF PutCode, Crash, store, history, Releases
<1>11. CASE Deploy \/ Promote \/ Rollback
  BY <1>11, RingCount DEF Deploy, Promote, Rollback, store, history, Releases
<1>12. CASE Tick
  BY <1>12 DEF Tick, store, history, Releases
<1>13. CASE UNCHANGED vars
  BY <1>13 DEF vars, Releases
<1> QED
  BY <1>1, <1>2, <1>3, <1>4, <1>5, <1>6, <1>7, <1>8, <1>9, <1>10, <1>11,
     <1>12, <1>13 DEF Next, Callback

-----------------------------------------------------------------------------
(* One code per login.  The callback that has consumed a state is alone on *)
(* the way to Google and back, and no code of that login is stored yet;    *)
(* whoever comes later finds the state used or gone.                       *)
Spent(f) == login[f].status \in {"used", "gone"}
AtGoogle(h) == call[h].pc \in {"exchange", "access", "put_code"}

OneCodeInv ==
    /\ codes \in [Flows -> {0, 1}]
    /\ \A f \in Flows : codes[f] = 1 => Spent(f)
    /\ \A s \in sent : s.what = "code" => codes[s.flow] = 1
    /\ \A h \in Handlers : AtGoogle(h) =>
         /\ Spent(call[h].flow) /\ codes[call[h].flow] = 0
         /\ \A g \in Handlers :
              AtGoogle(g) /\ call[g].flow = call[h].flow => g = h

LEMMA OneCodeInit == Init => OneCodeInv
  BY DEF Init, OneCodeInv, AtGoogle, Idle

(* A call that is not at Google is untouched by the other steps.           *)
LEMMA OneCodeQuiet ==
  ASSUME OneCodeInv, codes' = codes,
         \A f \in Flows : Spent(f) => Spent(f)',
         \A s \in sent' : s \in sent \/ s.what = "error",
         \A h \in Handlers :
           AtGoogle(h)' => AtGoogle(h) /\ call'[h].flow = call[h].flow,
         \A h \in Handlers : AtGoogle(h) => call[h].flow \in Flows
  PROVE  OneCodeInv'
  BY DEF OneCodeInv

LEMMA OneCodeNext == TypeInv /\ OneCodeInv /\ [Next]_vars => OneCodeInv'
<1> SUFFICES ASSUME TypeInv, OneCodeInv, [Next]_vars PROVE OneCodeInv'
  OBVIOUS
<1>a. \A h \in Handlers : AtGoogle(h) => call[h].flow \in Flows
  BY DEF TypeInv, FlowType, AtGoogle, CallRecord, Idle
<1>1. CASE /\ UNCHANGED <<call, codes>>
           /\ \A f \in Flows : Spent(f) => Spent(f)'
           /\ \A s \in sent' : s \in sent \/ s.what = "error"
  BY <1>1, <1>a, OneCodeQuiet DEF AtGoogle
<1>2. ASSUME NEW n \in Serving, handleAuthorize(n) PROVE OneCodeInv'
  BY <1>1, <1>2 DEF handleAuthorize, Spent, NoLogin, Redirect, TypeInv, FlowType
<1>3. ASSUME NEW f \in Flows, ExpireState(f) PROVE OneCodeInv'
  BY <1>1, <1>3
     DEF ExpireState, Spent, history, TypeInv, FlowType, LoginRecord
<1>4. ASSUME NEW h \in Handlers, NEW n \in Serving, StartCallback(h, n)
      PROVE  OneCodeInv'
  BY <1>4, <1>a, OneCodeQuiet
     DEF StartCallback, store, history, Spent, AtGoogle, TypeInv, FlowType
<1>5. ASSUME NEW h \in Handlers, StateRejected(h) \/ Crash(h) PROVE OneCodeInv'
  BY <1>5, <1>a, OneCodeQuiet
     DEF StateRejected, Crash, End, Idle, store, history, Spent, AtGoogle,
         TypeInv, FlowType
<1>6. ASSUME NEW h \in Handlers, UseAuthorizationState(h) PROVE OneCodeInv'
  <2>0. PICK f \in Flows : f = call[h].flow
    BY <1>6, Busy DEF UseAuthorizationState, TypeInv, FlowType, CallRecord
  <2>1. /\ ~ AtGoogle(h) /\ login[f].status = "active"
        /\ login' = [login EXCEPT ![f].status = "used"]
        /\ codes' = codes
        /\ \A s \in sent' : s \in sent \/ s.what = "error"
    BY <1>6, <2>0 DEF UseAuthorizationState, AtGoogle, At, Redirect
  <2>a. login[f] \in LoginRecord /\ call[h] \in CallRecord
    BY <1>6, <2>0, <2>1, Busy DEF TypeInv, FlowType, NoLogin, UseAuthorizationState
  <2>b. login'[f].status = "used" /\ \A d \in Flows : d # f => login'[d] = login[d]
    BY <2>1, <2>a DEF TypeInv, FlowType, LoginRecord
  <2>2. Spent(f)' /\ ~ Spent(f) /\ \A d \in Flows : Spent(d) => Spent(d)'
    <3>1. Spent(f)' /\ ~ Spent(f)
      BY <2>1, <2>b DEF Spent
    <3> QED
      BY <2>b, <3>1 DEF Spent
  <2>3. codes[f] = 0 /\ \A g \in Handlers : AtGoogle(g) => call[g].flow # f
    BY <2>1, <2>2 DEF OneCodeInv
  <2>4. \A g \in Handlers : g # h => call'[g] = call[g]
    BY <1>6 DEF UseAuthorizationState, End, Goto, TypeInv, FlowType
  <2>5. AtGoogle(h)' => call'[h].flow = f
    <3>1. CASE Goto(h, "exchange")
      BY <3>1, <2>0, <2>a DEF Goto, TypeInv, FlowType, CallRecord
    <3>2. CASE End(h)
      BY <3>2, EndType DEF End, TypeInv, FlowType, AtGoogle, Idle
    <3> QED
      BY <1>6, <3>1, <3>2 DEF UseAuthorizationState
  <2> QED
    BY <2>1, <2>2, <2>3, <2>4, <2>5, <1>a DEF OneCodeInv, AtGoogle
<1>7. ASSUME NEW h \in Handlers, Exchange(h) \/ checkProjectAccess(h)
      PROVE  OneCodeInv'
  <2>1. AtGoogle(h) /\ call[h] # Idle
    BY <1>7, Busy DEF Exchange, checkProjectAccess, AtGoogle, At
  <2>2. \A g \in Handlers : AtGoogle(g)' => AtGoogle(g) /\ call'[g].flow = call[g].flow
    BY <1>7, <2>1 DEF Exchange, checkProjectAccess, End, Goto, AtGoogle, Idle,
                      TypeInv, FlowType, CallRecord
  <2> QED
    BY <1>7, <2>2, <1>a, OneCodeQuiet
       DEF Exchange, checkProjectAccess, store, Redirect, Spent
<1>8. ASSUME NEW h \in Handlers, PutCode(h) PROVE OneCodeInv'
  <2>0. PICK f \in Flows : f = call[h].flow
    BY <1>8, Busy DEF PutCode, TypeInv, FlowType, CallRecord
  <2>1. AtGoogle(h) /\ Spent(f) /\ codes[f] = 0
    BY <1>8, <2>0 DEF PutCode, AtGoogle, At, OneCodeInv
  <2>2. /\ ~ AtGoogle(h)'
        /\ \A g \in Handlers : g # h => call'[g] = call[g]
        /\ login' = login
    BY <1>8 DEF PutCode, End, AtGoogle, Idle, TypeInv, FlowType, store
  <2>3. CASE codes' = codes /\ Redirect(f, login[f].uri, "error")
    BY <2>2, <2>3, <1>a, OneCodeQuiet DEF AtGoogle, Spent, Redirect
  <2>4. CASE codes' = [codes EXCEPT ![f] = 1]
    <3>1. \A s \in sent' : s.what = "code" => s \in sent \/ s.flow = f
      BY <1>8, <2>0 DEF PutCode, Redirect
    <3>2. \A g \in Handlers : AtGoogle(g)' => AtGoogle(g) /\ call'[g].flow # f
      BY <2>0, <2>1, <2>2 DEF OneCodeInv, AtGoogle
    <3> QED
      BY <2>1, <2>2, <2>4, <3>1, <3>2, <1>a DEF OneCodeInv, AtGoogle, Spent
  <2> QED
    BY <1>8, <2>0, <2>1, <2>3, <2>4 DEF PutCode
<1>9. CASE \/ \E n \in Serving : handleRegister(n) \/ RefuseAuthorize(n)
           \/ \E f \in Flows : handleAuthorizeConfirm(f)
           \/ Deploy \/ Promote \/ Rollback \/ Tick
           \/ UNCHANGED vars
  BY <1>1, <1>9
     DEF handleRegister, RefuseAuthorize, handleAuthorizeConfirm, Deploy,
         Promote, Rollback, Tick, vars, store, history, Spent
<1> QED
  BY <1>2, <1>3, <1>4, <1>5, <1>6, <1>7, <1>8, <1>9 DEF Next, Callback

-----------------------------------------------------------------------------
(* Redirect targets.  Every stored state, and every redirect, names a URI  *)
(* that may be redirected to; clients are never taken back.                *)
GoodTarget(uri) ==
    LET loopback == uri.scheme = "http" /\ uri.host \in LoopbackHosts
    IN  /\ uri.clean /\ (loopback \/ uri \in Exact)
        /\ \E c \in clients : \E u \in c.uris :
             uri = IF loopback THEN [u EXCEPT !.port = uri.port] ELSE u

TargetInv ==
    /\ \A f \in Flows : login[f] # NoLogin => GoodTarget(login[f].uri)
    /\ \A s \in sent : GoodTarget(s.to)

(* Two URIs that differ in the port only, and URIs that do not differ.     *)
LEMMA SamePort ==
  ASSUME NEW u, NEW v, IsURI(u), IsURI(v),
         u.scheme = v.scheme, u.host = v.host, u.rest = v.rest, u.clean = v.clean
  PROVE  u = [v EXCEPT !.port = u.port]
  BY DEF IsURI

LEMMA TrustedIsGood ==
  ASSUME TypeInv, NEW n, NEW client \in clients, NEW uri \in URIs,
         Trusted(n, client, uri)
  PROVE  GoodTarget(uri)
<1> DEFINE loopback == uri.scheme = "http" /\ uri.host \in LoopbackHosts
<1>1. IsURI(uri) /\ \A u \in client.uris : IsURI(u)
  BY FlowAssumption DEF TypeInv, FlowType, ClientRecord
<1>2. uri.clean /\ (loopback \/ uri \in Exact)
  BY DEF Trusted, allowed, isLoopbackHost
<1>3. \E u \in client.uris :
        uri = IF loopback THEN [u EXCEPT !.port = uri.port] ELSE u
  <2>1. CASE uri \in client.uris
    BY <2>1, <1>1, SamePort
  <2>2. ASSUME LoopbackURI(uri), NEW r \in client.uris, LoopbackURI(r),
               r.host = uri.host, r.rest = uri.rest
        PROVE  \E u \in client.uris :
                 uri = IF loopback THEN [u EXCEPT !.port = uri.port] ELSE u
    <3>1. uri.clean = r.clean /\ uri.scheme = r.scheme /\ loopback
      BY <1>1, <2>2 DEF LoopbackURI, isLoopbackHost, IsURI
    <3>2. uri = [r EXCEPT !.port = uri.port]
      BY <1>1, <2>2, <3>1, SamePort
    <3> QED
      BY <3>1, <3>2
  <2> QED
    BY <2>1, <2>2 DEF Trusted, matchRegistered
<1> QED
  BY <1>2, <1>3 DEF GoodTarget

LEMMA TargetsStay ==
  ASSUME clients \subseteq clients', NEW uri, GoodTarget(uri)
  PROVE  GoodTarget(uri)'
  BY DEF GoodTarget

LEMMA TargetNext == TypeInv /\ TargetInv /\ [Next]_vars => TargetInv'
<1> SUFFICES ASSUME TypeInv, TargetInv, [Next]_vars PROVE TargetInv'
  OBVIOUS
<1>1. CASE /\ clients \subseteq clients'
           /\ \A f \in Flows : login'[f] # NoLogin =>
                \/ login[f] # NoLogin /\ login'[f].uri = login[f].uri
                \/ GoodTarget(login'[f].uri)
           /\ \A s \in sent' : s \in sent \/ GoodTarget(s.to)
  <2>1. \A uri : GoodTarget(uri) => GoodTarget(uri)'
    BY <1>1, TargetsStay
  <2> QED
    BY <1>1, <2>1 DEF TargetInv
<1>2. ASSUME NEW n \in Serving, handleAuthorize(n) PROVE TargetInv'
  <2>1. PICK f \in Flows, client \in clients, uri \in URIs :
          /\ Trusted(n, client, uri)
          /\ login' \in {login, [login EXCEPT ![f] = NewState(n, client, uri)]}
          /\ \A s \in sent' : s \in sent \/ s.to = uri
    BY <1>2 DEF handleAuthorize, Redirect
  <2>2. GoodTarget(uri) /\ NewState(n, client, uri).uri = uri
    BY <2>1, TrustedIsGood DEF NewState
  <2> QED
    BY <1>1, <1>2, <2>1, <2>2 DEF handleAuthorize, TypeInv, FlowType
<1>3. ASSUME NEW f \in Flows, ExpireState(f) PROVE TargetInv'
  BY <1>1, <1>3
     DEF ExpireState, StateFound, NoLogin, history, TypeInv, FlowType, LoginRecord
<1>4. ASSUME NEW h \in Handlers, UseAuthorizationState(h) PROVE TargetInv'
  <2>0. PICK f \in Flows : f = call[h].flow
    BY <1>4, Busy DEF UseAuthorizationState, TypeInv, FlowType, CallRecord
  <2>1. login[f] \in LoginRecord /\ login[f] # NoLogin
    BY <1>4, <2>0 DEF UseAuthorizationState, TypeInv, FlowType, NoLogin
  <2>2. GoodTarget(login[f].uri)
    BY <2>1 DEF TargetInv
  <2>3. login' = [login EXCEPT ![f] = [login[f] EXCEPT !.status = "used"]]
    BY <1>4, <2>0 DEF UseAuthorizationState
  <2>4. login'[f].uri = login[f].uri /\ \A d \in Flows : d # f => login'[d] = login[d]
    BY <2>1, <2>3 DEF TypeInv, FlowType, LoginRecord
  <2> QED
    BY <1>1, <1>4, <2>0, <2>1, <2>2, <2>4 DEF UseAuthorizationState, Redirect
<1>5. ASSUME NEW h \in Handlers, Exchange(h) \/ checkProjectAccess(h) \/ PutCode(h)
      PROVE  TargetInv'
  <2>1. call[h] # Idle
    BY <1>5, Busy DEF Exchange, checkProjectAccess, PutCode
  <2>2. GoodTarget(login[call[h].flow].uri)
    BY <2>1 DEF TypeInv, FlowType, StateStored, CallRecord, TargetInv
  <2> QED
    BY <1>1, <1>5, <2>2
       DEF Exchange, checkProjectAccess, PutCode, Redirect, store
<1>6. CASE UNCHANGED <<login, sent>> /\ clients \subseteq clients'
  BY <1>1, <1>6
<1>7. CASE \/ \E n \in Serving : handleRegister(n) \/ RefuseAuthorize(n)
           \/ \E f \in Flows : handleAuthorizeConfirm(f)
           \/ \E h \in Handlers, n \in Serving : StartCallback(h, n)
           \/ \E h \in Handlers : StateRejected(h) \/ Crash(h)
           \/ Deploy \/ Promote \/ Rollback \/ Tick
           \/ UNCHANGED vars
  BY <1>6, <1>7
     DEF handleRegister, RefuseAuthorize, handleAuthorizeConfirm, StartCallback,
         StateRejected, Crash, Deploy, Promote, Rollback, Tick, vars, store, history
<1> QED
  BY <1>2, <1>3, <1>4, <1>5, <1>7 DEF Next, Callback

-----------------------------------------------------------------------------
(* Rollouts.  A state was sealed by a release that served, which was at    *)
(* most one ahead of the oldest one; a callback runs on a release at most  *)
(* one behind the sealing one.                                             *)
SealedUpTo(m, key) == \E n \in DOMAIN Rings : n <= m /\ key = sealKey(n)

KeyInv ==
    /\ \A f \in Flows : login[f] # NoLogin => SealedUpTo(oldest + 1, login[f].key)
    /\ \A h \in Handlers : call[h] # Idle =>
         SealedUpTo(call[h].rel + 1, login[call[h].flow].key)
    /\ RotationKeepsLogins

LEMMA SealedLater ==
  ASSUME NEW m \in Nat, NEW n \in Nat, m <= n, NEW key, SealedUpTo(m, key)
  PROVE  SealedUpTo(n, key)
  BY RingCount DEF SealedUpTo

(* What release n cannot open it has never heard of, and the next release  *)
(* seals only with what n knows: an earlier one knew it.                   *)
LEMMA UnknownKeyIsDropped ==
  ASSUME KeysAnnounced, NEW n \in DOMAIN Rings, NEW key,
         SealedUpTo(n + 1, key), key \notin Ring(n)
  PROVE  \E m \in DOMAIN Rings : m < n /\ key \in Ring(m)
<1>1. PICK m \in DOMAIN Rings : m <= n + 1 /\ key = sealKey(m)
  BY DEF SealedUpTo
<1>2. m \in Nat /\ n \in Nat /\ n >= 1 /\ key \in Ring(m)
  BY <1>1, RingFacts, RingCount
<1>3. m # n
  BY <1>2
<1>4. m # n + 1
  <2> SUFFICES ASSUME m = n + 1 PROVE FALSE
    OBVIOUS
  <2>1. m > 1 /\ m - 1 = n
    BY <1>2
  <2> QED
    BY <1>1, <2>1 DEF KeysAnnounced
<1> QED
  BY <1>1, <1>2, <1>3, <1>4

LEMMA KeyNext ==
  ASSUME KeysAnnounced
  PROVE  TypeInv /\ KeyInv /\ [Next]_vars => KeyInv'
<1> SUFFICES ASSUME TypeInv, KeyInv, [Next]_vars PROVE KeyInv'
  OBVIOUS
<1>a. oldest \in Nat /\ oldest' \in Nat /\ TypeInv'
  BY FlowNext, RingCount DEF TypeInv, FlowType, Releases
<1>1. CASE /\ oldest' >= oldest
           /\ \A f \in Flows : login'[f] # NoLogin =>
                \/ login[f] # NoLogin /\ login'[f].key = login[f].key
                \/ SealedUpTo(oldest + 1, login'[f].key)
           /\ \A f \in Flows : login[f] # NoLogin => login'[f].key = login[f].key
           /\ \A h \in Handlers : call'[h] # Idle =>
                \/ /\ call[h] # Idle
                   /\ call'[h].flow = call[h].flow /\ call'[h].rel = call[h].rel
                \/ SealedUpTo(call'[h].rel + 1, login'[call'[h].flow].key)
           /\ RotationKeepsLogins'
  <2>1. ASSUME NEW f \in Flows, login'[f] # NoLogin
        PROVE  SealedUpTo(oldest' + 1, login'[f].key)
    <3>1. SealedUpTo(oldest + 1, login'[f].key)
      BY <1>1, <2>1 DEF KeyInv
    <3> QED
      BY <1>1, <1>a, <3>1, SealedLater
  <2>2. ASSUME NEW h \in Handlers, call'[h] # Idle
        PROVE  SealedUpTo(call'[h].rel + 1, login'[call'[h].flow].key)
    BY <1>1, <2>2 DEF KeyInv, TypeInv, FlowType, StateStored, CallRecord
  <2> QED
    BY <1>1, <2>1, <2>2 DEF KeyInv, SealedUpTo
<1>2. CASE /\ oldest' >= oldest
           /\ \A f \in Flows : login[f] = NoLogin => login'[f] = NoLogin
           /\ \A f \in Flows : login[f] # NoLogin => login'[f].key = login[f].key
           /\ \A h \in Handlers : call'[h] # Idle =>
                /\ call[h] # Idle
                /\ call'[h].flow = call[h].flow /\ call'[h].rel = call[h].rel
           /\ refused' = refused
  BY <1>1, <1>2 DEF KeyInv, RotationKeepsLogins
<1>3. ASSUME NEW n \in Serving, handleAuthorize(n) PROVE KeyInv'
  <2>1. PICK f \in Flows, client \in clients, uri \in URIs :
          /\ login[f] = NoLogin
          /\ login' \in {login, [login EXCEPT ![f] = NewState(n, client, uri)]}
    BY <1>3 DEF handleAuthorize
  <2>2. NewState(n, client, uri).key = sealKey(n)
    BY DEF NewState
  <2>3. SealedUpTo(oldest + 1, sealKey(n))
    BY ServingFacts DEF SealedUpTo, TypeInv, FlowType
  <2>4. /\ \A d \in Flows : login'[d] # NoLogin =>
             \/ login[d] # NoLogin /\ login'[d].key = login[d].key
             \/ SealedUpTo(oldest + 1, login'[d].key)
        /\ \A d \in Flows : login[d] # NoLogin => login'[d].key = login[d].key
    BY <2>1, <2>2, <2>3 DEF TypeInv, FlowType
  <2> QED
    BY <1>1, <1>3, <1>a, <2>4 DEF handleAuthorize, RotationKeepsLogins, KeyInv
<1>4. ASSUME NEW f \in Flows, ExpireState(f) PROVE KeyInv'
  BY <1>2, <1>4, <1>a
     DEF ExpireState, StateFound, NoLogin, history, TypeInv, FlowType, LoginRecord
<1>5. ASSUME NEW h \in Handlers, NEW n \in Serving, StartCallback(h, n)
      PROVE  KeyInv'
  <2>1. PICK f \in Flows, reply \in {"code", "no_code"} :
          /\ page[f] = "google"
          /\ call' = [call EXCEPT ![h] = [pc |-> "use_state", flow |-> f, rel |-> n,
                                         now |-> clock, reply |-> reply]]
    BY <1>5 DEF StartCallback
  <2>2. SealedUpTo(n + 1, login[f].key)
    <3>1. SealedUpTo(oldest + 1, login[f].key)
      BY <2>1 DEF KeyInv, TypeInv, StateStored
    <3>2. n \in Nat /\ oldest + 1 <= n + 1
      BY ServingFacts, RingCount DEF TypeInv, FlowType, Releases
    <3> QED
      BY <1>a, <3>1, <3>2, SealedLater
  <2> QED
    BY <1>1, <1>5, <1>a, <2>1, <2>2
       DEF StartCallback, store, history, TypeInv, FlowType, KeyInv,
           RotationKeepsLogins
<1>6. ASSUME NEW h \in Handlers, UseAuthorizationState(h) PROVE KeyInv'
  <2>0. PICK f \in Flows : f = call[h].flow
    BY <1>6, Busy DEF UseAuthorizationState, TypeInv, FlowType, CallRecord
  <2>1. /\ login[f] \in LoginRecord /\ login[f] # NoLogin
        /\ call[h] \in CallRecord /\ call[h] # Idle
    BY <1>6, <2>0, Busy DEF UseAuthorizationState, TypeInv, FlowType, NoLogin
  <2>2. login' = [login EXCEPT ![f] = [login[f] EXCEPT !.status = "used"]]
    BY <1>6, <2>0 DEF UseAuthorizationState
  <2>3. /\ login'[f].key = login[f].key
        /\ \A d \in Flows : d # f => login'[d] = login[d]
    BY <2>1, <2>2 DEF TypeInv, FlowType, LoginRecord
  <2>4. \A g \in Handlers : call'[g] # Idle =>
          /\ call[g] # Idle
          /\ call'[g].flow = call[g].flow /\ call'[g].rel = call[g].rel
    <3>1. Goto(h, "exchange") \/ End(h)
      BY <1>6 DEF UseAuthorizationState
    <3> QED
      BY <2>1, <3>1, GotoType, EndType
  <2>5. RotationKeepsLogins'
    <3>1. CASE refused' = refused
      BY <3>1 DEF KeyInv, RotationKeepsLogins
    <3>2. CASE /\ openBlob(login[f], call[h].rel) = "unknown_key"
               /\ refused' = refused
                    \cup {[key |-> login[f].key, rel |-> call[h].rel]}
      <4>1. login[f].key \notin Ring(call[h].rel)
        BY <3>2 DEF openBlob
      <4>2. SealedUpTo(call[h].rel + 1, login[f].key) /\ call[h].rel \in DOMAIN Rings
        BY <2>0, <2>1 DEF KeyInv, CallRecord
      <4>3. \E m \in DOMAIN Rings : m < call[h].rel /\ login[f].key \in Ring(m)
        BY <4>1, <4>2, UnknownKeyIsDropped
      <4> QED
        BY <3>2, <4>3 DEF KeyInv, RotationKeepsLogins
    <3> QED
      BY <1>6, <2>0, <3>1, <3>2 DEF UseAuthorizationState
  <2> QED
    BY <1>1, <1>6, <1>a, <2>1, <2>3, <2>4, <2>5 DEF UseAuthorizationState
<1>7. ASSUME NEW h \in Handlers,
             \/ StateRejected(h) \/ Exchange(h) \/ checkProjectAccess(h)
             \/ PutCode(h) \/ Crash(h)
      PROVE  KeyInv'
  <2>1. call[h] # Idle
    BY <1>7, Busy
       DEF StateRejected, Exchange, checkProjectAccess, PutCode, Crash, At, Idle
  <2>2. \A g \in Handlers : call'[g] # Idle =>
          /\ call[g] # Idle
          /\ call'[g].flow = call[g].flow /\ call'[g].rel = call[g].rel
    BY <1>7, <2>1, GotoType, EndType
       DEF StateRejected, Exchange, checkProjectAccess, PutCode, Crash
  <2> QED
    BY <1>2, <1>7, <1>a, <2>2
       DEF StateRejected, Exchange, checkProjectAccess, PutCode, Crash, store, history
<1>8. CASE \/ \E n \in Serving : handleRegister(n) \/ RefuseAuthorize(n)
           \/ \E f \in Flows : handleAuthorizeConfirm(f)
           \/ Deploy \/ Promote \/ Rollback \/ Tick
           \/ UNCHANGED vars
  BY <1>2, <1>8, <1>a, RingCount
     DEF handleRegister, RefuseAuthorize, handleAuthorizeConfirm, Deploy, Promote,
         Rollback, Tick, vars, store, history, TypeInv, FlowType, Releases
<1> QED
  BY <1>3, <1>4, <1>5, <1>6, <1>7, <1>8 DEF Next, Callback

-----------------------------------------------------------------------------
(* The theorems.                                                           *)

(* The type of every variable, and that a page or a callback presupposes a *)
(* stored state (authorize.go, callback.go).                               *)
THEOREM FlowTyped == Spec => []TypeInv
  BY FlowInit, FlowNext, PTL DEF Spec

(* A login ends in at most one stored code, and the browser is handed a    *)
(* code only when it was stored (callback.go:18, callback.go:123).         *)
THEOREM CodeIsSingle == Spec => []OneCodePerLogin
<1>1. OneCodeInv => OneCodePerLogin
  BY DEF OneCodeInv, OneCodePerLogin
<1> QED
  BY <1>1, FlowTyped, OneCodeInit, OneCodeNext, PTL DEF Spec

(* Every redirect goes to a registered URI that the policy allows          *)
(* (callback.go:34, authorize.go:33, redirect.go:71).                      *)
THEOREM RedirectsAreTrusted == Spec => []RedirectsTrusted
<1>1. Init => TargetInv
  BY DEF Init, TargetInv
<1>2. TargetInv => RedirectsTrusted
  BY DEF TargetInv, RedirectsTrusted, GoodTarget
<1> QED
  BY <1>1, <1>2, FlowTyped, TargetNext, PTL DEF Spec

(* If every release opens what the next one seals, a login is lost to a    *)
(* rollout only when its key was dropped (seal.go:110, keys.go:105).       *)
THEOREM RolloutKeepsLogins ==
  ASSUME KeysAnnounced
  PROVE  Spec => []RotationKeepsLogins
<1>1. Init => KeyInv
  BY DEF Init, KeyInv, RotationKeepsLogins
<1>2. KeyInv => RotationKeepsLogins
  BY DEF KeyInv
<1> QED
  BY <1>1, <1>2, FlowTyped, KeyNext, PTL DEF Spec
===============================================================================
