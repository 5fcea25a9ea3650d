----------------------------- MODULE UserPoolProofs -----------------------------
(***************************************************************************)
(* Proofs about UserPool for any users, requests, entries and limits: the  *)
(* five safety properties, from one inductive invariant.                   *)
(***************************************************************************)
EXTENDS UserPool, FiniteSetTheorems, TLAPS

EntryRecord ==
    [user : Users, build : {"building", "ready", "failed"},
     conn : {"none", "open", "closed", "twice"}, age : Nat,
     inflight : Int, calls : Int, ts : Tokens]

Pcs == {"wait", "evict", "build", "discard", "slot", "serve", "release"}

RequestRecord ==
    [pc : Pcs, user : Users, tok : Tokens, entry : Entries,
     victim : Entries \cup {NoEntry}]

PoolType ==
    /\ pool \in [Users -> Entries \cup {NoEntry}]
    /\ entry \in [Entries -> {Garbage} \cup EntryRecord]
    /\ req \in [Requests -> {Idle} \cup RequestRecord]
    /\ swept \subseteq Entries /\ taken \subseteq Entries /\ toClose \subseteq Entries
    /\ server \in {"up", "closing", "closed"}

Live(e) == entry[e] # Garbage
Victims == {req[r].victim : r \in {q \in Requests : InUse(q)}} \ {NoEntry}

(* Who refers to an entry knows whose it is.                               *)
Structure ==
    /\ \A u \in Users : pool[u] # NoEntry =>
         Live(pool[u]) /\ entry[pool[u]].user = u
    /\ \A r \in Requests : InUse(r) =>
         /\ Live(req[r].entry) /\ entry[req[r].entry].user = req[r].user
         /\ req[r].victim # NoEntry <=> req[r].pc = "evict"

(* Singleflight: one request builds an entry, and its place in the code    *)
(* tells how far the build is.                                             *)
Building(r) == req[r].pc \in {"evict", "build", "discard"}

Builds ==
    \A r \in Requests :
      /\ req[r].pc \in {"evict", "build"} => entry[req[r].entry].build = "building"
      /\ req[r].pc = "discard" => entry[req[r].entry].build = "failed"
      /\ req[r].pc \in {"slot", "serve"} => entry[req[r].entry].build = "ready"
      /\ \A q \in Requests :
           Building(r) /\ Building(q) /\ req[q].entry = req[r].entry => q = r

(* Clients exist once the build has succeeded, and are closed once.        *)
Conns ==
    \A e \in Entries : Live(e) =>
      entry[e].conn \in IF entry[e].build = "ready" THEN {"open", "closed"}
                                                    ELSE {"none"}

(* An entry that somebody is going to close is in the hands of one closer: *)
(* the pool, the janitor, Close, or one newcomer; and it is not closed yet.*)
InCare == Pooled \cup swept \cup toClose \cup Victims

Unclosed == \A e \in InCare : Live(e) /\ entry[e].conn # "closed"

Evicted == \A e \in swept \cup Victims : entry[e].build = "ready"

OneCloser ==
    /\ Pooled \cap (swept \cup toClose \cup Victims) = {}
    /\ swept \cap (toClose \cup Victims) = {} /\ toClose \cap Victims = {}
    /\ \A r, q \in Requests :
         InUse(r) /\ InUse(q) /\ req[r].victim = req[q].victim
           => r = q \/ req[r].victim = NoEntry

TakenFirst ==
    /\ toClose \subseteq taken
    /\ server = "up" => taken = {}

Custody == Unclosed /\ Evicted /\ OneCloser /\ TakenFirst

(* The counters are what they claim to be.                                 *)
Servers(e) == {r \in Holders(e) : req[r].pc = "serve"}

Counts ==
    \A e \in Entries :
      /\ IsFiniteSet(Holders(e))
      /\ Live(e) => /\ entry[e].inflight = Cardinality(Holders(e))
                    /\ entry[e].calls = Cardinality(Servers(e))
                    /\ entry[e].calls <= MaxCalls

(* Before the shutdown, a pooled entry is what its user's requests share.  *)
Shared ==
    server = "up" =>
      /\ \A r \in Requests :
           InUse(r) /\ (entry[req[r].entry].build # "failed" \/ req[r].pc = "discard")
             => pool[req[r].user] = req[r].entry
      /\ \A u \in Users :
           pool[u] # NoEntry /\ entry[pool[u]].build = "failed"
             => \E r \in Holders(pool[u]) : req[r].pc = "discard"

PoolInv ==
    PoolType /\ Structure /\ Builds /\ Conns /\ Custody /\ Counts /\ Shared
      /\ NothingLeaks

-----------------------------------------------------------------------------
(* What the steps do to records.                                           *)

LEMMA InUseTyped ==
  ASSUME PoolType, NEW r \in Requests
  PROVE  InUse(r) <=> req[r] \in RequestRecord
  BY DEF PoolType, InUse, Idle, RequestRecord, Pcs

LEMMA LiveTyped ==
  ASSUME PoolType, NEW e \in Entries
  PROVE  Live(e) <=> entry[e] \in EntryRecord
  BY DEF PoolType, Live, Garbage, EntryRecord

(* A request goes on to another place in the code.                         *)
Moved(r, pc) ==
    /\ req' \in [Requests -> {Idle} \cup RequestRecord]
    /\ req'[r].pc = pc /\ req'[r].user = req[r].user
    /\ req'[r].entry = req[r].entry /\ req'[r].victim = req[r].victim
    /\ \A q \in Requests : q # r => req'[q] = req[q]

LEMMA MoveEffect ==
  ASSUME PoolType, NEW r \in Requests, InUse(r), NEW pc \in Pcs,
         req' = [req EXCEPT ![r].pc = pc]
  PROVE  Moved(r, pc)
<1>1. req[r] \in RequestRecord
  BY InUseTyped
<1> QED
  BY <1>1 DEF Moved, PoolType, RequestRecord

(* An entry whose time stamp or token source may have changed, but nothing *)
(* that the invariant speaks of.                                           *)
SameBuild(e) ==
    /\ Live(e)' = Live(e)
    /\ entry'[e].user = entry[e].user /\ entry'[e].build = entry[e].build
SameConn(e) == entry'[e].conn = entry[e].conn
SameCounts(e) ==
    entry'[e].inflight = entry[e].inflight /\ entry'[e].calls = entry[e].calls

Untouched(e) == SameBuild(e) /\ SameConn(e) /\ SameCounts(e)

LEMMA UntouchedIfSame ==
  ASSUME NEW e, entry'[e] = entry[e]
  PROVE  Untouched(e)
  BY DEF Untouched, SameBuild, SameConn, SameCounts, Live

LEMMA InCareTyped ==
  ASSUME PoolType
  PROVE  InCare \subseteq Entries
<1>1. \A r \in Requests : InUse(r) => req[r].victim \in Entries \cup {NoEntry}
  BY InUseTyped DEF RequestRecord
<1> QED
  BY <1>1 DEF InCare, PoolType, Pooled, Victims

-----------------------------------------------------------------------------
(* The counters.                                                           *)

LEMMA ServersFinite ==
  ASSUME NEW e, IsFiniteSet(Holders(e))
  PROVE  IsFiniteSet(Servers(e)) /\ Cardinality(Servers(e)) <= Cardinality(Holders(e))
  BY FS_Subset DEF Servers

(* The same requests hold the same entries.                                *)
SameHolders(e) == Holders(e)' = Holders(e) /\ Servers(e)' = Servers(e)

LEMMA CountsKept ==
  ASSUME Counts, \A e \in Entries : SameHolders(e),
         \A e \in Entries : SameCounts(e) /\ Live(e)' = Live(e)
  PROVE  Counts'
  BY DEF Counts, SameHolders, SameCounts, Live

LEMMA HoldersKept ==
  ASSUME \A q \in Requests :
           \/ req'[q] = req[q]
           \/ /\ req[q].pc # "idle" /\ req'[q].pc # "idle"
              /\ req[q].pc # "serve" /\ req'[q].pc # "serve"
              /\ req'[q].entry = req[q].entry
  PROVE  \A e \in Entries : SameHolders(e)
  BY DEF SameHolders, Holders, Servers, InUse

LEMMA Recount ==
  ASSUME NEW S, IsFiniteSet(S), NEW T, NEW r, T = S \cup {r} \/ T = S \ {r}
  PROVE  /\ IsFiniteSet(T)
         /\ (r \in S <=> r \in T) => Cardinality(T) = Cardinality(S)
         /\ r \notin S /\ r \in T => Cardinality(T) = Cardinality(S) + 1
         /\ r \in S /\ r \notin T => Cardinality(T) = Cardinality(S) - 1
<1>1. CASE T = S
  BY <1>1
<1>2. CASE r \notin S /\ T = S \cup {r}
  BY <1>2, FS_AddElement
<1>3. CASE r \in S /\ T = S \ {r}
  BY <1>3, FS_RemoveElement
<1> QED
  BY <1>1, <1>2, <1>3

(* One request takes or gives back what it has of one entry.               *)
LEMMA CountsStep ==
  ASSUME PoolInv, NEW r \in Requests, NEW e \in Entries, Live(e), Live(e)',
         \A q \in Requests : q # r => req'[q] = req[q],
         \A d \in Entries : d # e => Untouched(d),
         InUse(r) => req[r].entry = e, InUse(r)' => req'[r].entry = e,
         (InUse(r) <=> InUse(r)') => entry'[e].inflight = entry[e].inflight,
         ~ InUse(r) /\ InUse(r)' => entry'[e].inflight = entry[e].inflight + 1,
         InUse(r) /\ ~ InUse(r)' => entry'[e].inflight = entry[e].inflight - 1,
         (req[r].pc = "serve" <=> req'[r].pc = "serve")
           => entry'[e].calls = entry[e].calls,
         req[r].pc # "serve" /\ req'[r].pc = "serve"
           => entry'[e].calls = entry[e].calls + 1,
         req[r].pc = "serve" /\ req'[r].pc # "serve"
           => entry'[e].calls = entry[e].calls - 1,
         entry'[e].calls <= MaxCalls
  PROVE  Counts'
<1>1. /\ IsFiniteSet(Holders(e)) /\ IsFiniteSet(Servers(e))
      /\ entry[e].inflight = Cardinality(Holders(e))
      /\ entry[e].calls = Cardinality(Servers(e))
  BY ServersFinite DEF PoolInv, Counts
<1>2. /\ r \in Holders(e) <=> InUse(r)
      /\ r \in Holders(e)' <=> InUse(r)'
      /\ Holders(e)' = Holders(e) \cup {r} \/ Holders(e)' = Holders(e) \ {r}
  BY DEF Holders, InUse
<1>3. /\ r \in Servers(e) <=> req[r].pc = "serve"
      /\ r \in Servers(e)' <=> req'[r].pc = "serve"
      /\ Servers(e)' = Servers(e) \cup {r} \/ Servers(e)' = Servers(e) \ {r}
  BY DEF Servers, Holders, InUse
<1>4. /\ IsFiniteSet(Holders(e)')
      /\ entry'[e].inflight = Cardinality(Holders(e)')
  <2>1. /\ IsFiniteSet(Holders(e)')
        /\ (r \in Holders(e) <=> r \in Holders(e)') =>
             Cardinality(Holders(e)') = Cardinality(Holders(e))
        /\ r \notin Holders(e) /\ r \in Holders(e)' =>
             Cardinality(Holders(e)') = Cardinality(Holders(e)) + 1
        /\ r \in Holders(e) /\ r \notin Holders(e)' =>
             Cardinality(Holders(e)') = Cardinality(Holders(e)) - 1
    BY <1>1, <1>2, Recount
  <2>2. CASE InUse(r) <=> InUse(r)'
    <3>1. entry'[e].inflight = entry[e].inflight
      BY <2>2, Zenon
    <3>2. Cardinality(Holders(e)') = Cardinality(Holders(e))
      BY <1>2, <2>1, <2>2, Zenon
    <3> QED
      BY <1>1, <2>1, <3>1, <3>2
  <2>3. CASE ~ InUse(r) /\ InUse(r)'
    BY <1>1, <1>2, <2>1, <2>3
  <2>4. CASE InUse(r) /\ ~ InUse(r)'
    BY <1>1, <1>2, <2>1, <2>4
  <2> QED
    BY <2>2, <2>3, <2>4
<1>5. entry'[e].calls = Cardinality(Servers(e)')
  BY <1>1, <1>3, Recount
<1>6. \A d \in Entries : d # e => SameHolders(d)
  BY DEF SameHolders, Holders, Servers, InUse
<1> QED
  BY <1>4, <1>5, <1>6
     DEF PoolInv, Counts, SameHolders, Untouched, SameBuild, SameCounts, Live

-----------------------------------------------------------------------------
(* Steps that change nothing but time, token sources, counters, the end of *)
(* Close, or the place of a request past the build.                        *)
LaterMove(q) ==
    \/ req'[q] = req[q]
    \/ /\ req[q].pc \in {"wait", "slot", "serve"}
       /\ req'[q].pc \in {"slot", "serve", "release"}
       /\ req'[q].user = req[q].user /\ req'[q].entry = req[q].entry
       /\ req'[q].victim = req[q].victim
       /\ req'[q].pc # "release" => entry[req[q].entry].build = "ready"
    \/ req[q].pc = "release" /\ req'[q].pc = "idle"

LEMMA LaterStep ==
  ASSUME PoolInv, PoolType', Counts', UNCHANGED <<pool, swept, taken, toClose>>,
         server' = server \/ (server # "up" /\ server' # "up"),
         \A e \in Entries : SameBuild(e) /\ SameConn(e),
         \A q \in Requests : LaterMove(q)
  PROVE  PoolInv'
<1>1. \A q \in Requests :
        /\ InUse(q)' => /\ InUse(q)
                        /\ req'[q].user = req[q].user
                        /\ req'[q].entry = req[q].entry
                        /\ req'[q].victim = req[q].victim
        /\ Building(q)' <=> Building(q)
        /\ Building(q) => req'[q] = req[q]
  BY DEF LaterMove, InUse, Building
<1>2. \A q \in Requests : InUse(q) /\ req[q].victim # NoEntry => req'[q] = req[q]
  BY <1>1 DEF PoolInv, Structure, Building
<1>3. Pooled' = Pooled /\ Victims' = Victims
  BY <1>1, <1>2 DEF Pooled, Victims, InUse
<1>4. \A q \in Requests : InUse(q) => req[q].entry \in Entries
  BY InUseTyped DEF PoolInv, RequestRecord
<1>5. \A u \in Users : pool[u] # NoEntry => pool[u] \in Entries
  BY DEF PoolInv, PoolType
<1>6. Structure'
  BY <1>1, <1>4, <1>5
     DEF PoolInv, Structure, SameBuild, Live, LaterMove, InUse
<1>7. Builds'
  BY <1>1, <1>4
     DEF PoolInv, Builds, SameBuild, LaterMove, InUse, Building
<1>8. Conns'
  BY DEF PoolInv, Conns, SameBuild, SameConn, Live
<1>9. Custody'
  <2>1. InCare' = InCare /\ InCare \subseteq Entries
    BY <1>3, InCareTyped DEF InCare, PoolInv
  <2>2. Unclosed' /\ Evicted'
    BY <1>3, <2>1 DEF PoolInv, Custody, Unclosed, Evicted, InCare, SameBuild,
                      SameConn
  <2>3. OneCloser' /\ TakenFirst'
    BY <1>1, <1>3 DEF PoolInv, Custody, OneCloser, TakenFirst
  <2> QED
    BY <2>2, <2>3 DEF Custody
<1>10. Shared'
  BY <1>1, <1>4, <1>5
     DEF PoolInv, Shared, SameBuild, LaterMove, InUse, Building, Holders
<1>11. NothingLeaks'
  <2>1. \A q \in Requests :
          InUse(q) /\ req[q].victim # NoEntry
            => InUse(q)' /\ req'[q].victim = req[q].victim
    BY <1>2 DEF InUse
  <2> QED
    BY <2>1, PoolAssumption DEF PoolInv, NothingLeaks, SameBuild, SameConn, Live
<1> QED
  BY <1>6, <1>7, <1>8, <1>9, <1>10, <1>11 DEF PoolInv

-----------------------------------------------------------------------------
(* Steps that close an entry and take it out of its closer's hands.        *)

LEMMA CloseEffect ==
  ASSUME PoolInv, NEW e \in InCare, closeEntry(e)
  PROVE  /\ entry' \in [Entries -> {Garbage} \cup EntryRecord]
         /\ \A d \in Entries : SameBuild(d) /\ SameCounts(d)
         /\ \A d \in Entries : d # e => SameConn(d)
         /\ entry'[e].conn = IF entry[e].build = "ready" THEN "closed" ELSE "none"
<1>1. e \in Entries /\ Live(e) /\ entry[e].conn # "closed"
  BY InCareTyped DEF PoolInv, Custody, Unclosed
<1>2. entry[e] \in EntryRecord
  BY <1>1, LiveTyped DEF PoolInv
<1>3. entry[e].conn = IF entry[e].build = "ready" THEN "open" ELSE "none"
  BY <1>1 DEF PoolInv, Conns
<1>4. PICK c \in {"none", "open", "closed", "twice"} :
        /\ entry' = [entry EXCEPT ![e].conn = c]
        /\ c = IF entry[e].build = "ready" THEN "closed" ELSE "none"
  BY <1>3 DEF closeEntry
<1>5. /\ entry'[e] = [entry[e] EXCEPT !.conn = c] /\ entry'[e] \in EntryRecord
      /\ \A d \in Entries : d # e => entry'[d] = entry[d]
      /\ entry' \in [Entries -> {Garbage} \cup EntryRecord]
  BY <1>1, <1>2, <1>4 DEF PoolInv, PoolType, EntryRecord
<1>6. Live(e)' = Live(e)
  BY <1>1, <1>5 DEF Live, EntryRecord, Garbage
<1>7. SameBuild(e) /\ SameCounts(e) /\ entry'[e].conn = c
  BY <1>2, <1>5, <1>6 DEF SameBuild, SameCounts, EntryRecord
<1> QED
  BY <1>4, <1>5, <1>7, UntouchedIfSame DEF Untouched

CloserMove(q, e) ==
    \/ req'[q] = req[q]
    \/ /\ req[q].pc = "evict" /\ req[q].victim = e
       /\ req'[q].pc = "build" /\ req'[q].victim = NoEntry
       /\ req'[q].user = req[q].user /\ req'[q].entry = req[q].entry

LEMMA CloseStep ==
  ASSUME PoolInv, PoolType', UNCHANGED <<pool, taken, server>>,
         NEW e \in InCare, closeEntry(e), e \notin InCare',
         swept' \subseteq swept, swept \subseteq swept' \cup {e},
         toClose' \subseteq toClose, \A q \in Requests : CloserMove(q, e)
  PROVE  PoolInv'
<1>1. \A q \in Requests :
        /\ InUse(q)' <=> InUse(q)
        /\ Building(q)' <=> Building(q)
        /\ InUse(q) => /\ req'[q].user = req[q].user
                       /\ req'[q].entry = req[q].entry
                       /\ req'[q].victim \in {req[q].victim, NoEntry}
                       /\ req[q].victim # e => req'[q].victim = req[q].victim
        /\ req'[q].pc = "discard" <=> req[q].pc = "discard"
  BY DEF CloserMove, InUse, Building
<1>2. Pooled' = Pooled /\ Victims' \subseteq Victims
  BY <1>1 DEF Pooled, Victims
<1>3. \A q \in Requests : InUse(q) => req[q].entry \in Entries
  BY InUseTyped DEF PoolInv, RequestRecord
<1>4. \A u \in Users : pool[u] # NoEntry => pool[u] \in Entries
  BY DEF PoolInv, PoolType
<1>5. /\ \A d \in Entries : SameBuild(d) /\ SameCounts(d)
      /\ \A d \in Entries : d # e => SameConn(d)
      /\ entry'[e].conn = IF entry[e].build = "ready" THEN "closed" ELSE "none"
  BY CloseEffect
<1>6. Structure'
  BY <1>1, <1>3, <1>4, <1>5
     DEF PoolInv, Structure, SameBuild, Live, CloserMove, InUse
<1>7. Builds'
  BY <1>1, <1>3, <1>5
     DEF PoolInv, Builds, SameBuild, CloserMove, InUse, Building
<1>8. Conns'
  BY <1>5 DEF PoolInv, Conns, SameBuild, SameConn, Live
<1>9. Custody'
  <2>1. InCare' \subseteq InCare \ {e} /\ InCare \subseteq Entries
    BY <1>2, InCareTyped DEF InCare, PoolInv
  <2>2. Unclosed'
    BY <1>5, <2>1 DEF PoolInv, Custody, Unclosed, SameBuild, SameConn
  <2>3. Evicted'
    BY <1>2, <1>5, <2>1 DEF PoolInv, Custody, Evicted, InCare, SameBuild
  <2>4. OneCloser'
    BY <1>1, <1>2 DEF PoolInv, Custody, OneCloser
  <2>5. TakenFirst'
    BY DEF PoolInv, Custody, TakenFirst
  <2> QED
    BY <2>2, <2>3, <2>4, <2>5 DEF Custody
<1>10. Counts'
  <2>1. \A d \in Entries : SameHolders(d)
    BY HoldersKept DEF CloserMove
  <2> QED
    BY <1>5, <2>1, CountsKept DEF PoolInv, SameBuild
<1>11. Shared'
  BY <1>1, <1>3, <1>4, <1>5
     DEF PoolInv, Shared, SameBuild, InUse, Holders
<1>12. NothingLeaks'
  <2>1. ASSUME NEW d \in Entries, Live(d), d # e, entry[d].conn = "open", server = "up"
        PROVE  \/ pool[entry[d].user] = d
               \/ d \in swept'
               \/ \E r \in Requests : InUse(r)' /\ req'[r].victim = d
    BY <1>1, <2>1 DEF PoolInv, NothingLeaks, Live
  <2> QED
    BY <1>5, <2>1 DEF NothingLeaks, SameBuild, SameConn, Live
<1> QED
  BY <1>6, <1>7, <1>8, <1>9, <1>10, <1>11, <1>12 DEF PoolInv

LEMMA CloseEvictedStep ==
  ASSUME PoolInv, NEW r \in Requests, CloseEvicted(r)
  PROVE  PoolInv'
<1>1. req[r] \in RequestRecord /\ InUse(r) /\ req[r].victim # NoEntry
  BY InUseTyped DEF PoolInv, CloseEvicted, InUse, Structure
<1>2. PICK e \in Victims : e = req[r].victim
  BY <1>1 DEF Victims
<1>3. /\ req' \in [Requests -> {Idle} \cup RequestRecord]
      /\ req'[r] = [req[r] EXCEPT !.pc = "build", !.victim = NoEntry]
      /\ \A q \in Requests : q # r => req'[q] = req[q]
  BY <1>1 DEF CloseEvicted, PoolInv, PoolType, RequestRecord, Pcs
<1>4. \A q \in Requests : CloserMove(q, e)
  BY <1>1, <1>2, <1>3 DEF CloserMove, CloseEvicted, RequestRecord
<1>5. PoolType' /\ closeEntry(e) /\ e \in InCare
  BY <1>2, <1>3, CloseEffect DEF CloseEvicted, PoolInv, PoolType, shutdown, InCare
<1>6. e \notin Pooled' \cup swept' \cup toClose'
  BY <1>2 DEF CloseEvicted, shutdown, Pooled, PoolInv, Custody, OneCloser
<1>7. e \notin Victims'
  <2>1. \A q \in Requests : q # r /\ InUse(q) => req[q].victim # e
    BY <1>1, <1>2 DEF PoolInv, Custody, OneCloser
  <2>2. req'[r].victim = NoEntry /\ e # NoEntry
    BY <1>1, <1>2, <1>3 DEF RequestRecord
  <2>3. \A q \in Requests : InUse(q)' => req'[q].victim # e
    BY <1>3, <2>1, <2>2 DEF InUse
  <2> QED
    BY <2>3 DEF Victims
<1> QED
  BY <1>4, <1>5, <1>6, <1>7, CloseStep DEF CloseEvicted, shutdown, InCare

LEMMA CloseSweptStep ==
  ASSUME PoolInv, NEW e \in Entries, CloseSwept(e)
  PROVE  PoolInv'
<1>1. e \in swept /\ e \in InCare
  BY DEF CloseSwept, InCare
<1>2. PoolType'
  BY <1>1, CloseEffect DEF CloseSwept, PoolInv, PoolType, shutdown
<1>3. e \notin InCare'
  BY <1>1 DEF CloseSwept, shutdown, InCare, Pooled, Victims, InUse, PoolInv,
              Custody, OneCloser
<1> QED
  BY <1>1, <1>2, <1>3, CloseStep DEF CloseSwept, shutdown, CloserMove

LEMMA CloseTakenStep ==
  ASSUME PoolInv, NEW e \in Entries, CloseTaken(e)
  PROVE  PoolInv'
<1>1. e \in toClose /\ e \in InCare
  BY DEF CloseTaken, InCare
<1>2. PoolType'
  BY <1>1, CloseEffect DEF CloseTaken, PoolInv, PoolType
<1>3. e \notin InCare'
  BY <1>1 DEF CloseTaken, InCare, Pooled, Victims, InUse, PoolInv, Custody,
              OneCloser
<1> QED
  BY <1>1, <1>2, <1>3, CloseStep DEF CloseTaken, CloserMove

-----------------------------------------------------------------------------
(* Steps that take entries out of the pool.                                *)

LEMMA Frozen ==
  ASSUME PoolInv, UNCHANGED <<entry, req>>
  PROVE  Builds' /\ Conns' /\ Counts' /\ Victims' = Victims
<1>1. Builds'
  BY DEF PoolInv, Builds, Building
<1>2. Conns'
  BY DEF PoolInv, Conns, Live
<1>3. Counts'
  <2>1. \A e \in Entries : SameHolders(e)
    BY HoldersKept
  <2> QED
    BY <2>1, CountsKept DEF PoolInv, SameCounts, Live
<1>4. Victims' = Victims
  BY DEF Victims, InUse
<1> QED
  BY <1>1, <1>2, <1>3, <1>4

LEMMA EvictableHasNoHolder ==
  ASSUME PoolInv, NEW e \in Pooled, evictable(e)
  PROVE  e \in Entries /\ entry[e].build = "ready" /\ Holders(e) = {}
<1>1. e \in Entries /\ Live(e)
  BY InCareTyped DEF PoolInv, Custody, Unclosed, InCare
<1>2. IsFiniteSet(Holders(e)) /\ Cardinality(Holders(e)) = 0
  BY <1>1 DEF PoolInv, Counts, evictable
<1> QED
  BY <1>1, <1>2, FS_EmptySet DEF evictable

LEMMA EvictIdleStep ==
  ASSUME PoolInv, evictIdle
  PROVE  PoolInv'
<1> USE DEF evictIdle, shutdown
<1>1. \A e \in Expired : /\ e \in Entries /\ e \in Pooled /\ Holders(e) = {}
                         /\ entry[e].build = "ready"
  BY EvictableHasNoHolder DEF Expired
<1>2. \A u \in Users : /\ pool'[u] \in {pool[u], NoEntry}
                       /\ pool[u] \notin Expired => pool'[u] = pool[u]
                       /\ pool'[u] \notin Expired \/ pool'[u] = NoEntry
  OBVIOUS
<1>3. Pooled' = Pooled \ Expired /\ Victims' = Victims
  BY <1>1, <1>2 DEF Pooled, Victims, InUse
<1>4. PoolType'
  BY <1>1, <1>2 DEF PoolInv, PoolType
<1>5. Structure' /\ Builds' /\ Conns' /\ Counts'
  <2>1. Structure'
    BY <1>2 DEF PoolInv, Structure, Live, InUse
  <2> QED
    BY <2>1, Frozen
<1>6. Custody'
  <2>1. InCare' \subseteq InCare
    BY <1>1, <1>3 DEF InCare
  <2>2. Unclosed' /\ Evicted' /\ TakenFirst'
    BY <1>1, <1>3, <2>1 DEF PoolInv, Custody, Unclosed, Evicted, TakenFirst, Live
  <2>3. OneCloser'
    BY <1>1, <1>3 DEF PoolInv, Custody, OneCloser, InUse
  <2> QED
    BY <2>2, <2>3 DEF Custody
<1>7. Shared'
  <2>1. ASSUME NEW r \in Requests, InUse(r) PROVE req[r].entry \notin Expired
    BY <1>1, <2>1 DEF Holders
  <2>2. \A r \in Requests : InUse(r) => req[r].user \in Users
    BY InUseTyped DEF PoolInv, RequestRecord
  <2> QED
    BY <1>2, <2>1, <2>2 DEF PoolInv, Shared, InUse, Holders
<1>8. NothingLeaks'
  <2>1. \A e \in Entries : Live(e) => entry[e].user \in Users
    BY LiveTyped DEF PoolInv, EntryRecord
  <2> QED
    BY <1>2, <2>1 DEF PoolInv, NothingLeaks, InUse, Live
<1> QED
  BY <1>4, <1>5, <1>6, <1>7, <1>8 DEF PoolInv

LEMMA BeginCloseStep ==
  ASSUME PoolInv, BeginClose
  PROVE  PoolInv'
<1> USE DEF BeginClose
<1>1. Pooled' = {} /\ Victims' = Victims /\ taken = {} /\ toClose = {}
  BY DEF Pooled, Victims, InUse, PoolInv, Custody, TakenFirst
<1>2. PoolType'
  BY InCareTyped DEF PoolInv, PoolType, InCare
<1>3. Structure' /\ Builds' /\ Conns' /\ Counts'
  <2>1. Structure'
    BY DEF PoolInv, Structure, Live, InUse
  <2> QED
    BY <2>1, Frozen
<1>4. Custody'
  BY <1>1 DEF PoolInv, Custody, Unclosed, Evicted, OneCloser, TakenFirst, InCare,
              Live, InUse
<1>5. Shared' /\ NothingLeaks'
  BY DEF Shared, NothingLeaks
<1> QED
  BY <1>2, <1>3, <1>4, <1>5 DEF PoolInv

LEMMA DiscardStep ==
  ASSUME PoolInv, NEW r \in Requests, Discard(r)
  PROVE  PoolInv'
<1> USE DEF Discard, shutdown
<1>1. InUse(r) /\ req[r] \in RequestRecord /\ Moved(r, "release")
  BY InUseTyped, MoveEffect DEF PoolInv, InUse, Pcs
<1> PICK w \in Users, e \in Entries : w = req[r].user /\ e = req[r].entry
  BY <1>1 DEF RequestRecord
<1>2. pool'[w] = NoEntry /\ \A u \in Users : u # w => pool'[u] = pool[u]
  BY DEF PoolInv, PoolType
<1>3. \A q \in Requests :
        /\ InUse(q)' <=> InUse(q)
        /\ InUse(q) => /\ req'[q].user = req[q].user
                       /\ req'[q].entry = req[q].entry
                       /\ req'[q].victim = req[q].victim
        /\ q # r => req'[q] = req[q]
  BY <1>1 DEF Moved, InUse
<1>4. Pooled' \subseteq Pooled /\ Victims' = Victims
  BY <1>2, <1>3 DEF Pooled, Victims
<1>5. PoolType'
  BY <1>1, <1>2 DEF PoolInv, PoolType, Moved
<1>6. Structure' /\ Builds' /\ Conns'
  BY <1>1, <1>2, <1>3
     DEF PoolInv, Structure, Builds, Conns, Live, InUse, Building, Moved
<1>7. Counts'
  <2>1. \A d \in Entries : SameHolders(d)
    BY <1>1, <1>3, HoldersKept DEF Moved, InUse
  <2> QED
    BY <2>1, CountsKept, UntouchedIfSame DEF PoolInv, Untouched, SameBuild
<1>8. Custody'
  BY <1>3, <1>4
     DEF PoolInv, Custody, Unclosed, Evicted, OneCloser, TakenFirst, InCare, Live
<1>9. ASSUME server = "up" PROVE pool[w] = e /\ entry[e].build = "failed"
  BY <1>1, <1>9 DEF PoolInv, Shared, Builds
<1>10. Shared'
  <2> SUFFICES ASSUME server = "up" PROVE Shared'
    BY DEF Shared
  <2>1. ASSUME NEW q \in Requests, InUse(q)',
               entry[req'[q].entry].build # "failed" \/ req'[q].pc = "discard"
        PROVE  pool'[req'[q].user] = req'[q].entry
    <3>1. q # r /\ req'[q] = req[q] /\ InUse(q)
      BY <1>1, <1>3, <1>9, <2>1 DEF Moved
    <3>2. pool[req[q].user] = req[q].entry
      BY <2>1, <3>1 DEF PoolInv, Shared
    <3>3. req[q].user # w
      <4> SUFFICES ASSUME req[q].user = w PROVE FALSE
        OBVIOUS
      <4>1. req[q].entry = e /\ req[q].pc = "discard"
        BY <1>9, <2>1, <3>1, <3>2
      <4> QED
        BY <3>1, <4>1 DEF PoolInv, Builds, Building
    <3> QED
      BY <1>2, <3>1, <3>2, <3>3, InUseTyped DEF PoolInv, RequestRecord
  <2>2. ASSUME NEW u \in Users, pool'[u] # NoEntry, entry[pool'[u]].build = "failed"
        PROVE  \E q \in Requests :
                 InUse(q)' /\ req'[q].entry = pool'[u] /\ req'[q].pc = "discard"
    <3>1. u # w /\ pool'[u] = pool[u]
      BY <1>2, <2>2
    <3>2. PICK q \in Holders(pool[u]) : req[q].pc = "discard"
      BY <2>2, <3>1 DEF PoolInv, Shared
    <3>3. q # r
      BY <2>2, <3>1, <3>2 DEF Holders, PoolInv, Structure
    <3> QED
      BY <1>3, <3>1, <3>2, <3>3 DEF Holders
  <2> QED
    BY <2>1, <2>2 DEF Shared, Holders
<1>11. NothingLeaks'
  <2> SUFFICES ASSUME server = "up" PROVE NothingLeaks'
    BY DEF NothingLeaks
  <2>1. entry[e].conn = "none"
    BY <1>1, <1>9 DEF PoolInv, Structure, Conns
  <2> QED
    BY <1>2, <1>3, <1>9, <2>1, LiveTyped
       DEF PoolInv, NothingLeaks, Live, EntryRecord
<1> QED
  BY <1>5, <1>6, <1>7, <1>8, <1>10, <1>11 DEF PoolInv

-----------------------------------------------------------------------------
(* The end of a build: with clients, or without.                           *)

LEMMA BuildEnds ==
  ASSUME PoolInv, NEW r \in Requests, req[r].pc = "build",
         NEW build \in {"ready", "failed"}, NEW pc \in {"slot", "discard"},
         Moved(r, pc), pc = "slot" <=> build = "ready",
         NEW conn \in {"open", "none"}, conn = "open" <=> build = "ready",
         entry' = [entry EXCEPT ![req[r].entry] =
                     [entry[req[r].entry] EXCEPT !.build = build, !.conn = conn]],
         UNCHANGED <<pool, swept, server, taken, toClose>>
  PROVE  PoolInv'
<1>1. InUse(r) /\ req[r] \in RequestRecord
  BY InUseTyped DEF PoolInv, InUse
<1> PICK e \in Entries : e = req[r].entry
  BY <1>1 DEF RequestRecord
<1>2. entry[e] \in EntryRecord /\ Live(e) /\ entry[e].build = "building"
                             /\ entry[e].conn = "none"
  BY <1>1, LiveTyped DEF PoolInv, Structure, Builds, Conns
<1>3. /\ entry'[e] = [entry[e] EXCEPT !.build = build, !.conn = conn]
      /\ entry'[e] \in EntryRecord
      /\ \A d \in Entries : d # e => entry'[d] = entry[d]
      /\ entry' \in [Entries -> {Garbage} \cup EntryRecord]
  BY <1>2 DEF PoolInv, PoolType, EntryRecord
<1>4. /\ Live(e)' /\ entry'[e].user = entry[e].user /\ entry'[e].build = build
      /\ entry'[e].conn = IF build = "ready" THEN "open" ELSE "none"
      /\ SameCounts(e) /\ Live(e)' = Live(e)
  BY <1>2, <1>3 DEF Live, SameCounts, EntryRecord, Garbage
<1>5. \A d \in Entries : d # e => Untouched(d)
  BY <1>3, UntouchedIfSame
<1>6. \A q \in Requests :
        /\ InUse(q)' <=> InUse(q)
        /\ InUse(q) => /\ req'[q].user = req[q].user
                       /\ req'[q].entry = req[q].entry
                       /\ req'[q].victim = req[q].victim
                       /\ req[q].entry \in Entries
        /\ Building(q)' => Building(q)
        /\ q # r => req'[q] = req[q]
  BY <1>1, InUseTyped DEF PoolInv, Moved, InUse, Building, RequestRecord
<1>7. \A q \in Requests : Building(q) /\ req[q].entry = e => q = r
  BY DEF PoolInv, Builds, Building
<1>8. \A u \in Users : pool[u] # NoEntry => pool[u] \in Entries
  BY DEF PoolInv, PoolType
<1>9. Pooled' = Pooled /\ Victims' = Victims
  BY <1>6 DEF Pooled, Victims
<1>10. PoolType'
  BY <1>3 DEF PoolInv, PoolType, Moved
<1>11. Structure'
  BY <1>2, <1>4, <1>5, <1>6, <1>8
     DEF PoolInv, Structure, Untouched, SameBuild, Moved
<1>12. Builds'
  <2>1. ASSUME NEW q \in Requests
        PROVE  /\ req'[q].pc \in {"evict", "build"}
                    => entry'[req'[q].entry].build = "building"
               /\ req'[q].pc = "discard" => entry'[req'[q].entry].build = "failed"
               /\ req'[q].pc \in {"slot", "serve"}
                    => entry'[req'[q].entry].build = "ready"
    <3>1. CASE q = r
      BY <3>1, <1>4 DEF Moved
    <3>2. CASE q # r /\ req[q].entry = e
      BY <3>2, <1>2, <1>6, <1>7 DEF PoolInv, Builds, Building
    <3>3. CASE q # r /\ req[q].entry # e
      BY <3>3, <1>5, <1>6 DEF PoolInv, Builds, InUse, Untouched, SameBuild
    <3> QED
      BY <3>1, <3>2, <3>3
  <2>2. \A p, q \in Requests :
          Building(p)' /\ Building(q)' /\ req'[q].entry = req'[p].entry => q = p
    BY <1>6 DEF PoolInv, Builds, Building, InUse
  <2> QED
    BY <2>1, <2>2 DEF Builds
<1>13. Conns'
  BY <1>4, <1>5 DEF PoolInv, Conns, Untouched, SameBuild, SameConn
<1>14. Custody'
  <2>1. InCare' = InCare /\ InCare \subseteq Entries
    BY <1>9, InCareTyped DEF InCare, PoolInv
  <2>2. Unclosed'
    BY <1>4, <1>5, <2>1
       DEF PoolInv, Custody, Unclosed, Untouched, SameBuild, SameConn
  <2>3. Evicted'
    BY <1>2, <1>5, <1>9, <2>1
       DEF PoolInv, Custody, Evicted, InCare, Untouched, SameBuild
  <2>4. OneCloser' /\ TakenFirst'
    BY <1>6, <1>9 DEF PoolInv, Custody, OneCloser, TakenFirst
  <2> QED
    BY <2>2, <2>3, <2>4 DEF Custody
<1>15. Counts'
  <2>1. \A d \in Entries : SameHolders(d)
    BY <1>1, HoldersKept DEF Moved
  <2> QED
    BY <1>2, <1>4, <1>5, <2>1, CountsKept DEF PoolInv, Untouched, SameBuild
<1>16. Shared'
  <2> SUFFICES ASSUME server = "up" PROVE Shared'
    BY DEF Shared
  <2>1. pool[req[r].user] = e
    BY <1>1, <1>2 DEF PoolInv, Shared
  <2>2. ASSUME NEW q \in Requests, InUse(q)',
               entry'[req'[q].entry].build # "failed" \/ req'[q].pc = "discard"
        PROVE  pool[req'[q].user] = req'[q].entry
    <3>1. CASE req[q].entry = e
      BY <3>1, <1>1, <1>2, <1>6, <2>1, <2>2 DEF PoolInv, Structure
    <3>2. CASE req[q].entry # e
      BY <3>2, <1>5, <1>6, <2>2 DEF PoolInv, Shared, Untouched, SameBuild
    <3> QED
      BY <3>1, <3>2
  <2>3. ASSUME NEW u \in Users, pool[u] # NoEntry, entry'[pool[u]].build = "failed"
        PROVE  \E q \in Requests :
                 InUse(q)' /\ req'[q].entry = pool[u] /\ req'[q].pc = "discard"
    <3>1. CASE pool[u] = e
      BY <3>1, <1>1, <1>4, <1>6, <2>3 DEF Moved
    <3>2. CASE pool[u] # e
      <4>1. PICK q \in Holders(pool[u]) : req[q].pc = "discard"
        BY <3>2, <1>5, <1>8, <2>3 DEF PoolInv, Shared, Untouched, SameBuild
      <4> QED
        BY <4>1, <3>2, <1>6 DEF Holders
    <3> QED
      BY <3>1, <3>2
  <2> QED
    BY <2>2, <2>3 DEF Shared, Holders
<1>17. NothingLeaks'
  <2> SUFFICES ASSUME server = "up" PROVE NothingLeaks'
    BY DEF NothingLeaks
  <2>1. pool[entry[e].user] = e
    BY <1>1, <1>2 DEF PoolInv, Shared, Structure
  <2> QED
    BY <1>4, <1>5, <1>6, <2>1
       DEF PoolInv, NothingLeaks, Untouched, SameBuild, SameConn, Live
<1> QED
  BY <1>10, <1>11, <1>12, <1>13, <1>14, <1>15, <1>16, <1>17 DEF PoolInv

LEMMA BuiltStep ==
  ASSUME PoolInv, NEW r \in Requests, Built(r) \/ BuildFailed(r)
  PROVE  PoolInv'
<1>1. InUse(r) /\ req[r] \in RequestRecord
  BY InUseTyped DEF PoolInv, InUse, Built, BuildFailed
<1> PICK e \in Entries : e = req[r].entry
  BY <1>1 DEF RequestRecord
<1>2. entry[e] \in EntryRecord /\ entry[e].conn = "none"
  BY <1>1, LiveTyped DEF PoolInv, Structure, Builds, Conns, Built, BuildFailed
<1>3. CASE Built(r)
  <2>1. Moved(r, "slot")
    BY <1>1, <1>3, MoveEffect DEF PoolInv, Built, Pcs
  <2>2. entry' = [entry EXCEPT ![e] =
                    [entry[e] EXCEPT !.build = "ready", !.conn = "open"]]
    BY <1>2, <1>3 DEF Built, PoolInv, PoolType, EntryRecord
  <2> QED
    BY <1>3, <2>1, <2>2, BuildEnds DEF Built, shutdown
<1>4. CASE BuildFailed(r)
  <2>1. Moved(r, "discard")
    BY <1>1, <1>4, MoveEffect DEF PoolInv, BuildFailed, Pcs
  <2>2. entry' = [entry EXCEPT ![e] =
                    [entry[e] EXCEPT !.build = "failed", !.conn = "none"]]
    BY <1>2, <1>4 DEF BuildFailed, PoolInv, PoolType, EntryRecord
  <2> QED
    BY <1>4, <2>1, <2>2, BuildEnds DEF BuildFailed, shutdown
<1> QED
  BY <1>3, <1>4

-----------------------------------------------------------------------------
(* The steps of a request that do not change the pool.                     *)

LEMMA EntryEffect ==
  ASSUME PoolType, NEW e \in Entries, Live(e), NEW rec \in EntryRecord,
         entry' = [entry EXCEPT ![e] = rec]
  PROVE  /\ entry' \in [Entries -> {Garbage} \cup EntryRecord]
         /\ entry'[e] = rec /\ Live(e)' /\ Live(e)' = Live(e)
         /\ \A d \in Entries : d # e => Untouched(d)
<1>1. /\ entry' \in [Entries -> {Garbage} \cup EntryRecord]
      /\ entry'[e] = rec /\ \A d \in Entries : d # e => entry'[d] = entry[d]
  BY DEF PoolType
<1>2. Live(e)' /\ Live(e)' = Live(e)
  BY <1>1 DEF Live, EntryRecord, Garbage
<1> QED
  BY <1>1, <1>2, UntouchedIfSame

(* The request's own entry.                                                *)
LEMMA OwnEntry ==
  ASSUME PoolInv, NEW r \in Requests, req[r].pc # "idle"
  PROVE  /\ InUse(r) /\ req[r] \in RequestRecord /\ req[r].entry \in Entries
         /\ Live(req[r].entry) /\ entry[req[r].entry] \in EntryRecord
<1>1. InUse(r) /\ req[r] \in RequestRecord /\ req[r].entry \in Entries
  BY InUseTyped DEF PoolInv, InUse, RequestRecord
<1> QED
  BY <1>1, LiveTyped DEF PoolInv, Structure

LEMMA QuietStep ==
  ASSUME PoolInv, PoolType', UNCHANGED <<pool, swept, taken, toClose>>,
         server' = server \/ (server # "up" /\ server' # "up"),
         \A e \in Entries : Untouched(e),
         \A q \in Requests :
           \/ req'[q] = req[q]
           \/ LaterMove(q) /\ req[q].pc \in {"wait", "slot"} /\ req'[q].pc # "serve"
  PROVE  PoolInv'
<1>1. \A e \in Entries : SameHolders(e)
  BY HoldersKept DEF LaterMove
<1>2. Counts'
  BY <1>1, CountsKept DEF PoolInv, Untouched, SameBuild
<1>3. \A q \in Requests : LaterMove(q)
  BY DEF LaterMove
<1> QED
  BY <1>2, <1>3, LaterStep DEF Untouched

LEMMA TimeStep ==
  ASSUME PoolInv,
         \/ Tick \/ (\E t \in Tokens : TokenExpires(t))
         \/ EndClose \/ UNCHANGED vars
  PROVE  PoolInv'
<1>1. ASSUME Tick, NEW e \in Entries
      PROVE  entry'[e] \in {Garbage} \cup EntryRecord /\ Untouched(e)
  <2>1. CASE entry'[e] = entry[e]
    BY <2>1, UntouchedIfSame DEF PoolInv, PoolType
  <2>2. CASE Live(e) /\ entry'[e] = [entry[e] EXCEPT !.age = @ + 1]
    <3>1. entry[e] \in EntryRecord
      BY <2>2, LiveTyped DEF PoolInv
    <3>2. entry'[e] \in EntryRecord /\ Live(e)' = Live(e)
      BY <2>2, <3>1 DEF EntryRecord, Live, Garbage
    <3> QED
      BY <2>2, <3>1, <3>2
         DEF Untouched, SameBuild, SameConn, SameCounts, EntryRecord
  <2> QED
    BY <1>1, <2>1, <2>2 DEF Tick, Live
<1>2. CASE Tick
  <2>1. PoolType'
    BY <1>1, <1>2 DEF Tick, PoolInv, PoolType, shutdown
  <2> QED
    BY <1>1, <1>2, <2>1, QuietStep DEF Tick, shutdown
<1>3. CASE (\E t \in Tokens : TokenExpires(t)) \/ EndClose \/ UNCHANGED vars
  <2>1. /\ UNCHANGED <<pool, entry, req, swept, taken, toClose>>
        /\ server' = server \/ (server = "closing" /\ server' = "closed")
    BY <1>3 DEF TokenExpires, EndClose, vars, shutdown
  <2>2. PoolType'
    BY <2>1 DEF PoolInv, PoolType
  <2> QED
    BY <2>1, <2>2, UntouchedIfSame, QuietStep
<1> QED
  BY <1>2, <1>3

LEMMA WaitStep ==
  ASSUME PoolInv, NEW r \in Requests, Cancel(r) \/ Ready(r)
  PROVE  PoolInv'
<1>1. req[r].pc = "wait"
  BY DEF Cancel, Ready
<1> PICK e \in Entries : e = req[r].entry
  BY <1>1, OwnEntry
<1>2. /\ InUse(r) /\ req[r] \in RequestRecord
      /\ Live(e) /\ entry[e] \in EntryRecord
  BY <1>1, OwnEntry
<1>3. PICK pc \in {"slot", "release"} :
        /\ req' = [req EXCEPT ![r].pc = pc]
        /\ pc = "slot" => entry[e].build = "ready"
  BY DEF Cancel, Ready
<1>4. Moved(r, pc)
  BY <1>2, <1>3, MoveEffect DEF PoolInv, Pcs
<1>5. \A q \in Requests :
        \/ req'[q] = req[q]
        \/ LaterMove(q) /\ req[q].pc \in {"wait", "slot"} /\ req'[q].pc # "serve"
  BY <1>1, <1>3, <1>4 DEF Moved, LaterMove
<1>6. /\ entry' \in [Entries -> {Garbage} \cup EntryRecord]
      /\ \A d \in Entries : Untouched(d)
  <2>1. CASE entry' = entry
    BY <2>1, UntouchedIfSame DEF PoolInv, PoolType
  <2>2. CASE entry' = [entry EXCEPT ![e].ts = req[r].tok]
    <3> DEFINE rec == [entry[e] EXCEPT !.ts = req[r].tok]
    <3>1. /\ rec \in EntryRecord /\ entry' = [entry EXCEPT ![e] = rec]
          /\ rec.user = entry[e].user /\ rec.build = entry[e].build
          /\ rec.conn = entry[e].conn /\ rec.inflight = entry[e].inflight
          /\ rec.calls = entry[e].calls
      BY <1>2, <2>2 DEF EntryRecord, RequestRecord, PoolInv, PoolType
    <3> HIDE DEF rec
    <3> QED
      BY <1>2, <3>1, EntryEffect
         DEF PoolInv, Untouched, SameBuild, SameConn, SameCounts
  <2> QED
    BY <2>1, <2>2 DEF Cancel, Ready
<1>7. PoolType' /\ UNCHANGED <<pool, swept, taken, toClose, server>>
  BY <1>4, <1>6 DEF PoolInv, PoolType, Moved, Cancel, Ready, shutdown
<1> QED
  BY <1>5, <1>6, <1>7, QuietStep

LEMMA TakeSlotStep ==
  ASSUME PoolInv, NEW r \in Requests, TakeSlot(r)
  PROVE  PoolInv'
<1>1. req[r].pc = "slot"
  BY DEF TakeSlot
<1> PICK e \in Entries : e = req[r].entry
  BY <1>1, OwnEntry
<1>2. /\ InUse(r) /\ req[r] \in RequestRecord
      /\ Live(e) /\ entry[e] \in EntryRecord /\ entry[e].build = "ready"
  BY <1>1, OwnEntry DEF PoolInv, Builds
<1>3. CASE entry[e].calls < MaxCalls
  <2> DEFINE rec == [entry[e] EXCEPT !.calls = @ + 1]
  <2>1. /\ rec \in EntryRecord
        /\ rec.user = entry[e].user /\ rec.build = entry[e].build
        /\ rec.conn = entry[e].conn /\ rec.inflight = entry[e].inflight
        /\ rec.calls = entry[e].calls + 1 /\ rec.calls <= MaxCalls
    BY <1>2, <1>3, PoolAssumption DEF EntryRecord
  <2>2. entry' = [entry EXCEPT ![e] = rec] /\ req' = [req EXCEPT ![r].pc = "serve"]
    BY <1>2, <1>3, PoolAssumption DEF TakeSlot, PoolInv, PoolType, EntryRecord
  <2> HIDE DEF rec
  <2>3. Moved(r, "serve")
    BY <1>2, <2>2, MoveEffect DEF PoolInv, Pcs
  <2>4. /\ entry' \in [Entries -> {Garbage} \cup EntryRecord]
        /\ entry'[e] = rec /\ Live(e)' /\ Live(e)' = Live(e)
        /\ \A d \in Entries : d # e => Untouched(d)
    BY <1>2, <2>1, <2>2, EntryEffect DEF PoolInv
  <2>5. InUse(r)'
    BY <2>3 DEF Moved, InUse
  <2>6. Counts'
    BY <1>1, <1>2, <2>1, <2>3, <2>4, <2>5, CountsStep DEF Moved
  <2>7. PoolType' /\ UNCHANGED <<pool, swept, taken, toClose, server>>
    BY <2>3, <2>4 DEF PoolInv, PoolType, Moved, TakeSlot, shutdown
  <2>8. \A q \in Requests : LaterMove(q)
    BY <1>1, <1>2, <2>3 DEF Moved, LaterMove
  <2>9. \A d \in Entries : SameBuild(d) /\ SameConn(d)
    BY <2>1, <2>4 DEF Untouched, SameBuild, SameConn
  <2> QED
    BY <2>6, <2>7, <2>8, <2>9, LaterStep
<1>4. CASE entry' = entry /\ req' = [req EXCEPT ![r].pc = "release"]
  <2>1. Moved(r, "release")
    BY <1>2, <1>4, MoveEffect DEF PoolInv, Pcs
  <2>2. PoolType' /\ UNCHANGED <<pool, swept, taken, toClose, server>>
    BY <1>4, <2>1 DEF PoolInv, PoolType, Moved, TakeSlot, shutdown
  <2>3. \A q \in Requests :
          \/ req'[q] = req[q]
          \/ LaterMove(q) /\ req[q].pc \in {"wait", "slot"} /\ req'[q].pc # "serve"
    BY <1>1, <2>1 DEF Moved, LaterMove
  <2> QED
    BY <1>4, <2>2, <2>3, UntouchedIfSame, QuietStep
<1> QED
  BY <1>3, <1>4 DEF TakeSlot

LEMMA ServedStep ==
  ASSUME PoolInv, NEW r \in Requests, Served(r)
  PROVE  PoolInv'
<1>1. req[r].pc = "serve"
  BY DEF Served
<1> PICK e \in Entries : e = req[r].entry
  BY <1>1, OwnEntry
<1>2. /\ InUse(r) /\ req[r] \in RequestRecord
      /\ Live(e) /\ entry[e] \in EntryRecord /\ entry[e].calls <= MaxCalls
  BY <1>1, OwnEntry DEF PoolInv, Counts
<1> DEFINE rec == [entry[e] EXCEPT !.calls = @ - 1]
<1>3. /\ rec \in EntryRecord
      /\ rec.user = entry[e].user /\ rec.build = entry[e].build
      /\ rec.conn = entry[e].conn /\ rec.inflight = entry[e].inflight
      /\ rec.calls = entry[e].calls - 1 /\ rec.calls <= MaxCalls
  BY <1>2, PoolAssumption DEF EntryRecord
<1>4. entry' = [entry EXCEPT ![e] = rec] /\ req' = [req EXCEPT ![r].pc = "release"]
  BY <1>2 DEF Served, PoolInv, PoolType, EntryRecord
<1> HIDE DEF rec
<1>5. Moved(r, "release")
  BY <1>2, <1>4, MoveEffect DEF PoolInv, Pcs
<1>6. /\ entry' \in [Entries -> {Garbage} \cup EntryRecord]
      /\ entry'[e] = rec /\ Live(e)' /\ Live(e)' = Live(e)
      /\ \A d \in Entries : d # e => Untouched(d)
  BY <1>2, <1>3, <1>4, EntryEffect DEF PoolInv
<1>7. InUse(r)'
  BY <1>5 DEF Moved, InUse
<1>8. Counts'
  BY <1>1, <1>2, <1>3, <1>5, <1>6, <1>7, CountsStep DEF Moved
<1>9. PoolType' /\ UNCHANGED <<pool, swept, taken, toClose, server>>
  BY <1>5, <1>6 DEF PoolInv, PoolType, Moved, Served, shutdown
<1>10. \A q \in Requests : LaterMove(q)
  BY <1>1, <1>5 DEF Moved, LaterMove
<1>11. \A d \in Entries : SameBuild(d) /\ SameConn(d)
  BY <1>3, <1>6 DEF Untouched, SameBuild, SameConn
<1> QED
  BY <1>8, <1>9, <1>10, <1>11, LaterStep

LEMMA ReleaseStep ==
  ASSUME PoolInv, NEW r \in Requests, release(r)
  PROVE  PoolInv'
<1>1. req[r].pc = "release"
  BY DEF release
<1> PICK e \in Entries : e = req[r].entry
  BY <1>1, OwnEntry
<1>2. /\ InUse(r) /\ req[r] \in RequestRecord
      /\ Live(e) /\ entry[e] \in EntryRecord /\ entry[e].calls <= MaxCalls
  BY <1>1, OwnEntry DEF PoolInv, Counts
<1> DEFINE rec == [entry[e] EXCEPT !.inflight = @ - 1]
<1>3. /\ rec \in EntryRecord
      /\ rec.user = entry[e].user /\ rec.build = entry[e].build
      /\ rec.conn = entry[e].conn /\ rec.inflight = entry[e].inflight - 1
      /\ rec.calls = entry[e].calls
  BY <1>2 DEF EntryRecord
<1>4. entry' = [entry EXCEPT ![e] = rec]
  BY <1>2 DEF release, PoolInv, PoolType, EntryRecord
<1> HIDE DEF rec
<1>5. /\ req' \in [Requests -> {Idle} \cup RequestRecord] /\ req'[r].pc = "idle"
      /\ \A q \in Requests : q # r => req'[q] = req[q]
  BY DEF release, PoolInv, PoolType, Idle
<1>6. /\ entry' \in [Entries -> {Garbage} \cup EntryRecord]
      /\ entry'[e] = rec /\ Live(e)' /\ Live(e)' = Live(e)
      /\ \A d \in Entries : d # e => Untouched(d)
  BY <1>2, <1>3, <1>4, EntryEffect DEF PoolInv
<1>7. ~ InUse(r)'
  BY <1>5 DEF InUse
<1>8. Counts'
  BY <1>1, <1>2, <1>3, <1>5, <1>6, <1>7, CountsStep
<1>9. PoolType' /\ UNCHANGED <<pool, swept, taken, toClose, server>>
  BY <1>5, <1>6 DEF PoolInv, PoolType, release, shutdown
<1>10. \A q \in Requests : LaterMove(q)
  BY <1>1, <1>5 DEF LaterMove
<1>11. \A d \in Entries : SameBuild(d) /\ SameConn(d)
  BY <1>3, <1>6 DEF Untouched, SameBuild, SameConn
<1> QED
  BY <1>8, <1>9, <1>10, <1>11, LaterStep

-----------------------------------------------------------------------------
(* A request arrives.                                                      *)

LEMMA JoinStep ==
  ASSUME PoolInv, NEW r \in Requests, NEW u \in Users, NEW t \in Tokens,
         Join(r, u, t)
  PROVE  PoolInv'
<1> PICK e \in Entries : e = pool[u]
  BY DEF Join, PoolInv, PoolType
<1>1. /\ e # NoEntry /\ Live(e) /\ entry[e].user = u /\ entry[e] \in EntryRecord
      /\ entry[e].calls <= MaxCalls
  BY LiveTyped DEF Join, PoolInv, Structure, Counts
<1>2. req[r].pc = "idle" /\ ~ InUse(r)
  BY DEF Join, InUse
<1>3. /\ req' \in [Requests -> {Idle} \cup RequestRecord]
      /\ req'[r].pc = "wait" /\ req'[r].user = u /\ req'[r].entry = e
      /\ req'[r].victim = NoEntry
      /\ \A q \in Requests : q # r => req'[q] = req[q]
  BY DEF Join, PoolInv, PoolType, RequestRecord, Pcs
<1> PICK n \in Int : n = entry[e].inflight + 1
  BY <1>1 DEF EntryRecord
<1> DEFINE rec == [entry[e] EXCEPT !.inflight = n, !.age = 0]
<1>4. /\ rec \in EntryRecord
      /\ rec.user = entry[e].user /\ rec.build = entry[e].build
      /\ rec.conn = entry[e].conn /\ rec.inflight = n
      /\ rec.calls = entry[e].calls /\ rec.calls <= MaxCalls
  <2>1. [entry[e] EXCEPT !.inflight = n] \in EntryRecord
    BY <1>1 DEF EntryRecord
  <2> QED
    BY <1>1, <2>1 DEF EntryRecord
<1>5. entry' = [entry EXCEPT ![e] = rec]
  BY <1>1 DEF Join, PoolInv, PoolType, EntryRecord
<1> HIDE DEF rec
<1>6. /\ entry' \in [Entries -> {Garbage} \cup EntryRecord]
      /\ entry'[e] = rec /\ Live(e)' /\ Live(e)' = Live(e)
      /\ \A d \in Entries : d # e => Untouched(d)
  BY <1>1, <1>4, <1>5, EntryEffect DEF PoolInv
<1>7. \A d \in Entries : SameBuild(d) /\ SameConn(d)
  BY <1>4, <1>6 DEF Untouched, SameBuild, SameConn
<1>8. InUse(r)' /\ \A q \in Requests : q # r => (InUse(q)' <=> InUse(q))
  BY <1>3 DEF InUse
<1>9. \A q \in Requests : InUse(q) => req[q].entry \in Entries
  BY InUseTyped DEF PoolInv, RequestRecord
<1>10. \A w \in Users : pool[w] # NoEntry => pool[w] \in Entries
  BY DEF PoolInv, PoolType
<1>11. PoolType' /\ UNCHANGED <<pool, swept, taken, toClose, server>>
  BY <1>3, <1>6 DEF PoolInv, PoolType, Join, shutdown
<1>12. Pooled' = Pooled /\ Victims' = Victims
  BY <1>2, <1>3, <1>8, <1>11 DEF Pooled, Victims
<1>13. Structure'
  BY <1>1, <1>3, <1>7, <1>8, <1>9, <1>10, <1>11
     DEF PoolInv, Structure, SameBuild
<1>14. Builds'
  BY <1>2, <1>3, <1>7, <1>9 DEF PoolInv, Builds, SameBuild, Building, InUse
<1>15. Conns'
  BY <1>7 DEF PoolInv, Conns, SameBuild, SameConn
<1>16. Custody'
  <2>1. InCare' = InCare /\ InCare \subseteq Entries
    BY <1>11, <1>12, InCareTyped DEF InCare, PoolInv
  <2>2. Unclosed' /\ Evicted'
    BY <1>7, <1>11, <1>12, <2>1
       DEF PoolInv, Custody, Unclosed, Evicted, InCare, SameBuild, SameConn
  <2>3. OneCloser'
    BY <1>3, <1>8, <1>11, <1>12 DEF PoolInv, Custody, OneCloser
  <2>4. TakenFirst'
    BY <1>11 DEF PoolInv, Custody, TakenFirst
  <2> QED
    BY <2>2, <2>3, <2>4 DEF Custody
<1>17. Counts'
  BY <1>1, <1>2, <1>3, <1>4, <1>6, <1>8, CountsStep
<1>18. Shared'
  <2> SUFFICES ASSUME server = "up" PROVE Shared'
    BY <1>11 DEF Shared
  <2>1. ASSUME NEW q \in Requests, InUse(q)',
               entry'[req'[q].entry].build # "failed" \/ req'[q].pc = "discard"
        PROVE  pool[req'[q].user] = req'[q].entry
    BY <1>3, <1>7, <1>8, <1>9, <2>1 DEF PoolInv, Shared, SameBuild
  <2>2. ASSUME NEW w \in Users, pool[w] # NoEntry, entry'[pool[w]].build = "failed"
        PROVE  \E q \in Requests :
                 InUse(q)' /\ req'[q].entry = pool[w] /\ req'[q].pc = "discard"
    BY <1>2, <1>3, <1>7, <1>8, <1>10, <2>2 DEF PoolInv, Shared, SameBuild, Holders
  <2> QED
    BY <1>11, <2>1, <2>2 DEF Shared, Holders
<1>19. NothingLeaks'
  BY <1>2, <1>3, <1>7, <1>8, <1>11
     DEF PoolInv, NothingLeaks, SameBuild, SameConn, Live
<1> QED
  BY <1>11, <1>13, <1>14, <1>15, <1>16, <1>17, <1>18, <1>19 DEF PoolInv

LEMMA CreateStep ==
  ASSUME PoolInv, NEW r \in Requests, NEW u \in Users, NEW t \in Tokens,
         Create(r, u, t)
  PROVE  PoolInv'
<1>1. PICK e \in Entries,
           v \in IF Cardinality(Pooled) >= MaxUsers
                 THEN LeastRecentlyUsed ELSE {NoEntry} :
        /\ Unreferenced(e)
        /\ pool' = [w \in Users |-> IF w = u THEN e
                                    ELSE IF pool[w] = v THEN NoEntry ELSE pool[w]]
        /\ entry' = [entry EXCEPT ![e] =
                       [user |-> u, build |-> "building", conn |-> "none",
                        age |-> 0, inflight |-> 1, calls |-> 0, ts |-> t]]
        /\ req' = [req EXCEPT ![r] =
                     [pc |-> IF v = NoEntry THEN "build" ELSE "evict",
                      user |-> u, tok |-> t, entry |-> e, victim |-> v]]
  BY Zenon DEF Create
<1>2. /\ ~ InUse(r) /\ req[r].pc = "idle" /\ pool[u] = NoEntry
      /\ UNCHANGED <<swept, server, taken, toClose>>
  BY DEF Create, InUse, shutdown
(* The evicted entry, if any, is nobody's.                                 *)
<1>3. v # NoEntry => /\ v \in Pooled /\ v \in Entries /\ Holders(v) = {}
                     /\ entry[v].build = "ready" /\ Live(v)
                     /\ entry[v].conn # "closed"
  <2>1. v # NoEntry => v \in Pooled /\ evictable(v)
    BY DEF LeastRecentlyUsed
  <2> QED
    BY <2>1, EvictableHasNoHolder DEF PoolInv, Custody, Unclosed, InCare
<1>4. v \in Entries \cup {NoEntry}
  BY <1>3
(* The new entry is new.                                                   *)
<1>5. /\ e \notin Pooled \cup swept \cup taken /\ e \notin Victims
      /\ e # NoEntry
      /\ \A q \in Requests : InUse(q) => req[q].entry # e /\ req[q].victim # e
      /\ Live(e) => entry[e].conn # "open"
  BY <1>1, PoolAssumption DEF Unreferenced, Victims, Live
<1>6. e # v /\ e \notin InCare /\ Holders(e) = {}
  BY <1>3, <1>5 DEF InCare, PoolInv, Custody, TakenFirst, Holders
<1>7. /\ entry' \in [Entries -> {Garbage} \cup EntryRecord]
      /\ entry'[e].user = u /\ entry'[e].build = "building"
      /\ entry'[e].conn = "none" /\ entry'[e].inflight = 1 /\ entry'[e].calls = 0
      /\ Live(e)' /\ \A d \in Entries : d # e => entry'[d] = entry[d]
  BY <1>1 DEF PoolInv, PoolType, EntryRecord, Live, Garbage
<1>8. \A d \in Entries : d # e => Untouched(d)
  BY <1>7, UntouchedIfSame
<1>9. /\ req' \in [Requests -> {Idle} \cup RequestRecord]
      /\ req'[r].pc = (IF v = NoEntry THEN "build" ELSE "evict")
      /\ req'[r].user = u /\ req'[r].entry = e /\ req'[r].victim = v
      /\ \A q \in Requests : q # r => req'[q] = req[q]
  BY <1>1, <1>4 DEF PoolInv, PoolType, RequestRecord, Pcs
<1>10. InUse(r)' /\ \A q \in Requests : q # r => (InUse(q)' <=> InUse(q))
  BY <1>9 DEF InUse
<1>11. /\ pool' \in [Users -> Entries \cup {NoEntry}]
       /\ pool'[u] = e
       /\ \A w \in Users : w # u => /\ pool'[w] = pool[w] \/ pool'[w] = NoEntry
                                    /\ pool[w] # v => pool'[w] = pool[w]
                                    /\ pool'[w] # v \/ v = NoEntry
  BY <1>1, PoolAssumption DEF PoolInv, PoolType
<1>12. /\ Pooled' \subseteq (Pooled \ {v}) \cup {e}
       /\ Victims' = Victims \cup ({v} \ {NoEntry})
  <2>1. Pooled' \subseteq (Pooled \ {v}) \cup {e}
    BY <1>6, <1>11 DEF Pooled
  <2>2. Victims' = Victims \cup ({v} \ {NoEntry})
    BY <1>2, <1>9, <1>10 DEF Victims
  <2> QED
    BY <2>1, <2>2
<1>13. \A q \in Requests : InUse(q) => req[q].entry \in Entries
                                      /\ req[q].user \in Users
  BY InUseTyped DEF PoolInv, RequestRecord
<1>14. \A w \in Users : w # u /\ pool'[w] # NoEntry =>
         /\ pool'[w] = pool[w] /\ pool[w] \in Entries /\ pool[w] # e
  BY <1>5, <1>11 DEF PoolInv, PoolType, Pooled
<1>15. PoolType'
  BY <1>2, <1>7, <1>9, <1>11 DEF PoolInv, PoolType
<1>16. Structure'
  <2>1. ASSUME NEW w \in Users, pool'[w] # NoEntry
        PROVE  entry'[pool'[w]] # Garbage /\ entry'[pool'[w]].user = w
    <3>1. CASE w = u
      BY <3>1, <1>7, <1>11 DEF Live
    <3>2. CASE w # u
      BY <3>2, <2>1, <1>8, <1>14
         DEF PoolInv, Structure, Untouched, SameBuild, Live
    <3> QED
      BY <3>1, <3>2
  <2>2. ASSUME NEW q \in Requests, InUse(q)'
        PROVE  /\ entry'[req'[q].entry] # Garbage
               /\ entry'[req'[q].entry].user = req'[q].user
               /\ req'[q].victim # NoEntry <=> req'[q].pc = "evict"
    <3>1. CASE q = r
      BY <3>1, <1>7, <1>9 DEF Live
    <3>2. CASE q # r
      BY <3>2, <2>2, <1>5, <1>8, <1>9, <1>10, <1>13
         DEF PoolInv, Structure, Untouched, SameBuild, Live
    <3> QED
      BY <3>1, <3>2
  <2> QED
    BY <2>1, <2>2 DEF Structure, Live
<1>17. Builds'
  <2>1. \A q \in Requests : Building(q) => InUse(q)
    BY DEF Building, InUse
  <2>2. \A q \in Requests : q # r => (Building(q)' <=> Building(q))
    BY <1>9 DEF Building
  <2>3. ASSUME NEW q \in Requests
        PROVE  /\ req'[q].pc \in {"evict", "build"}
                    => entry'[req'[q].entry].build = "building"
               /\ req'[q].pc = "discard" => entry'[req'[q].entry].build = "failed"
               /\ req'[q].pc \in {"slot", "serve"}
                    => entry'[req'[q].entry].build = "ready"
    BY <1>5, <1>7, <1>8, <1>9, <1>13
       DEF PoolInv, Builds, Untouched, SameBuild, InUse
  <2>4. \A p, q \in Requests :
          Building(p)' /\ Building(q)' /\ req'[q].entry = req'[p].entry => q = p
    BY <1>5, <1>9, <2>1, <2>2 DEF PoolInv, Builds
  <2> QED
    BY <2>3, <2>4 DEF Builds
<1>18. Conns'
  BY <1>7, <1>8 DEF PoolInv, Conns, Untouched, SameBuild, SameConn
<1>19. Custody'
  <2>1. InCare' \subseteq InCare \cup {e} /\ InCare \subseteq Entries
    BY <1>2, <1>3, <1>12, InCareTyped DEF InCare, PoolInv
  <2>2. Unclosed'
    BY <1>7, <1>8, <2>1
       DEF PoolInv, Custody, Unclosed, Untouched, SameBuild, SameConn
  <2>3. Evicted'
    <3>1. \A d \in swept \cup Victims : d \in Entries /\ d # e
      BY <1>6, <2>1 DEF InCare
    <3> QED
      BY <1>2, <1>3, <1>6, <1>8, <1>12, <3>1
         DEF PoolInv, Custody, Evicted, Untouched, SameBuild
  <2>4. OneCloser'
    <3>1. /\ e \notin swept \cup toClose \cup Victims
          /\ v # NoEntry => v \notin swept \cup toClose \cup Victims
      BY <1>3, <1>6 DEF InCare, PoolInv, Custody, OneCloser
    <3>2. /\ Pooled' \cap (swept \cup toClose \cup Victims)' = {}
          /\ swept' \cap (toClose \cup Victims)' = {} /\ toClose' \cap Victims' = {}
      BY <1>2, <1>6, <1>12, <3>1 DEF PoolInv, Custody, OneCloser
    <3>3. \A q \in Requests : InUse(q) /\ v # NoEntry => req[q].victim # v
      BY <3>1 DEF Victims
    <3>4. \A p, q \in Requests :
            InUse(p)' /\ InUse(q)' /\ req'[p].victim = req'[q].victim
              => p = q \/ req'[p].victim = NoEntry
      BY <1>9, <1>10, <3>3 DEF PoolInv, Custody, OneCloser
    <3> QED
      BY <3>2, <3>4 DEF OneCloser
  <2>5. TakenFirst'
    BY <1>2 DEF PoolInv, Custody, TakenFirst
  <2> QED
    BY <2>2, <2>3, <2>4, <2>5 DEF Custody
<1>20. Counts'
  <2>1. Holders(e)' = {r} /\ Servers(e)' = {}
    BY <1>5, <1>9, <1>10 DEF Holders, Servers
  <2>2. /\ IsFiniteSet({r}) /\ Cardinality({r}) = 1
        /\ Cardinality({}) = 0
    BY FS_Singleton, FS_EmptySet
  <2>3. \A d \in Entries : d # e => SameHolders(d)
    BY <1>2, <1>9, <1>10 DEF SameHolders, Holders, Servers
  <2>4. /\ IsFiniteSet(Holders(e)')
        /\ entry'[e].inflight = Cardinality(Holders(e)')
        /\ entry'[e].calls = Cardinality(Servers(e)')
        /\ entry'[e].calls <= MaxCalls
    BY <1>7, <2>1, <2>2, PoolAssumption
  <2> QED
    BY <1>8, <2>3, <2>4
       DEF PoolInv, Counts, SameHolders, Untouched, SameBuild, SameCounts
<1>21. Shared'
  <2> SUFFICES ASSUME server = "up" PROVE Shared'
    BY <1>2 DEF Shared
  <2>1. ASSUME NEW q \in Requests, InUse(q)',
               entry'[req'[q].entry].build # "failed" \/ req'[q].pc = "discard"
        PROVE  pool'[req'[q].user] = req'[q].entry
    <3>1. CASE q = r
      BY <3>1, <1>9, <1>11
    <3>2. CASE q # r
      <4>1. InUse(q) /\ req'[q] = req[q] /\ req[q].entry # e
        BY <3>2, <2>1, <1>5, <1>9, <1>10
      <4>2. pool[req[q].user] = req[q].entry
        BY <2>1, <4>1, <1>8, <1>13 DEF PoolInv, Shared, Untouched, SameBuild
      <4>3. req[q].entry # v
        BY <4>1, <1>3, <1>13, PoolAssumption DEF Holders
      <4>4. req[q].user # u
        BY <4>1, <4>2, <1>2, <1>13, PoolAssumption
      <4> QED
        BY <4>1, <4>2, <4>3, <4>4, <1>11, <1>13
    <3> QED
      BY <3>1, <3>2
  <2>2. ASSUME NEW w \in Users, pool'[w] # NoEntry, entry'[pool'[w]].build = "failed"
        PROVE  \E q \in Requests :
                 InUse(q)' /\ req'[q].entry = pool'[w] /\ req'[q].pc = "discard"
    <3>1. w # u
      BY <2>2, <1>7, <1>11
    <3>2. PICK q \in Holders(pool[w]) : req[q].pc = "discard"
      BY <2>2, <3>1, <1>8, <1>14 DEF PoolInv, Shared, Untouched, SameBuild
    <3> QED
      BY <2>2, <3>1, <3>2, <1>2, <1>9, <1>10, <1>14 DEF Holders
  <2> QED
    BY <2>1, <2>2 DEF Shared, Holders
<1>22. NothingLeaks'
  <2> SUFFICES ASSUME server = "up", NEW d \in Entries,
                      Live(d)', entry'[d].conn = "open"
               PROVE  \/ pool'[entry'[d].user] = d
                      \/ d \in swept'
                      \/ \E q \in Requests : InUse(q)' /\ req'[q].victim = d
    BY <1>2 DEF NothingLeaks, Live
  <2>1. /\ d # e /\ Live(d) /\ entry[d].conn = "open"
        /\ entry'[d].user = entry[d].user /\ entry[d].user \in Users
    BY <1>7, <1>8, LiveTyped
       DEF Untouched, SameBuild, SameConn, PoolInv, EntryRecord
  <2>2. CASE pool[entry[d].user] = d
    BY <2>1, <2>2, <1>2, <1>9, <1>10, <1>11, PoolAssumption
  <2>3. CASE d \in swept
    BY <2>3, <1>2
  <2>4. ASSUME NEW q \in Requests, InUse(q), req[q].victim = d
        PROVE  InUse(q)' /\ req'[q].victim = d
    BY <2>4, <1>2, <1>9, <1>10
  <2> QED
    BY <2>1, <2>2, <2>3, <2>4 DEF PoolInv, NothingLeaks, Live
<1> QED
  BY <1>15, <1>16, <1>17, <1>18, <1>19, <1>20, <1>21, <1>22 DEF PoolInv

-----------------------------------------------------------------------------
(* The invariant of every run of the pool.                                 *)

LEMMA PoolInit ==
  ASSUME Init
  PROVE  PoolInv
<1>1. /\ \A r \in Requests : req[r] = Idle /\ ~ InUse(r)
      /\ \A e \in Entries : entry[e] = Garbage /\ ~ Live(e)
      /\ \A u \in Users : pool[u] = NoEntry
      /\ swept = {} /\ taken = {} /\ toClose = {} /\ server = "up"
  BY DEF Init, InUse, Idle, Live
<1>2. PoolType
  BY DEF Init, PoolType
<1>3. InCare = {} /\ \A e \in Entries : Holders(e) = {}
  BY <1>1 DEF InCare, Pooled, Victims, Holders
<1>4. Structure /\ Conns /\ Shared /\ NothingLeaks
  BY <1>1 DEF Structure, Conns, Shared, NothingLeaks, Live
<1>5. Builds
  BY <1>1 DEF Builds, Building, Idle
<1>6. Custody
  BY <1>1, <1>3
     DEF Custody, Unclosed, Evicted, OneCloser, TakenFirst, InCare
<1>7. Counts
  BY <1>1, <1>3, FS_EmptySet DEF Counts
<1> QED
  BY <1>2, <1>4, <1>5, <1>6, <1>7 DEF PoolInv

LEMMA PoolNext ==
  ASSUME PoolInv, [Next]_vars
  PROVE  PoolInv'
<1>1. CASE \E r \in Requests : Arrive(r)
  BY <1>1, JoinStep, CreateStep DEF Arrive
<1>2. CASE \E r \in Requests : Proceed(r)
  BY <1>2, CloseEvictedStep, BuiltStep, DiscardStep, WaitStep, TakeSlotStep,
     ReleaseStep DEF Proceed
<1>3. CASE \E r \in Requests : Cancel(r) \/ Served(r)
  BY <1>3, WaitStep, ServedStep
<1>4. CASE Janitor
  BY <1>4, EvictIdleStep, CloseSweptStep DEF Janitor
<1>5. CASE Shutdown
  BY <1>5, BeginCloseStep, CloseTakenStep, TimeStep DEF Shutdown
<1>6. CASE Tick \/ (\E t \in Tokens : TokenExpires(t)) \/ UNCHANGED vars
  BY <1>6, TimeStep
<1> QED
  BY <1>1, <1>2, <1>3, <1>4, <1>5, <1>6 DEF Next

(* The pool's bookkeeping is exact in every reachable state: who refers to *)
(* an assembly, how far its build is, who will close it, and what its      *)
(* inflight and call counters count (entryFor, runBuild, evictIdle, Close).*)
THEOREM PoolInductive == Spec => []PoolInv
<1> QED
  BY PoolInit, PoolNext, PTL DEF Spec

-----------------------------------------------------------------------------
(* The properties.                                                         *)

(* Before the shutdown no request runs on closed clients: an entry with a  *)
(* holder is neither evictable nor in the hands of a closer, and the check *)
(* of inflight and the removal from the pool are one critical section.     *)
THEOREM ServedByOpenClients == Spec => []NoUseAfterClose
<1>1. PoolInv => NoUseAfterClose
  <2> SUFFICES ASSUME PoolInv, server = "up", NEW r \in Requests,
                      req[r].pc \in {"slot", "serve"}
               PROVE  entry[req[r].entry].conn = "open"
    BY DEF NoUseAfterClose
  <2>1. PICK e \in Entries : e = req[r].entry
    BY OwnEntry
  <2>2. InUse(r) /\ Live(e) /\ entry[e].user = req[r].user /\ e # NoEntry
    BY <2>1, OwnEntry, PoolAssumption DEF PoolInv, Structure
  <2>3. entry[e].build = "ready" /\ req[r].user \in Users
    BY <2>1, <2>2, InUseTyped DEF PoolInv, Builds, RequestRecord
  <2>4. pool[req[r].user] = e
    BY <2>1, <2>2, <2>3 DEF PoolInv, Shared
  <2>5. e \in InCare
    BY <2>2, <2>3, <2>4 DEF InCare, Pooled
  <2> QED
    BY <2>1, <2>2, <2>3, <2>5 DEF PoolInv, Conns, Custody, Unclosed
<1> QED
  BY <1>1, PoolInductive, PTL

(* The janitor, a newcomer's eviction and Close never close the same       *)
(* clients twice: each takes an entry out of the pool under the lock before*)
(* it closes it.                                                           *)
THEOREM NobodyClosesTwice == Spec => []ClosedOnce
<1>1. PoolInv => ClosedOnce
  BY DEF PoolInv, Conns, Live, ClosedOnce
<1> QED
  BY <1>1, PoolInductive, PTL

(* Before the shutdown open clients are pooled or about to be closed: no   *)
(* failed, canceled or evicted build leaves a set behind.                  *)
THEOREM NoClientsLeak == Spec => []NothingLeaks
<1>1. PoolInv => NothingLeaks
  BY DEF PoolInv
<1> QED
  BY <1>1, PoolInductive, PTL

(* The requests of a user share the pooled entry, and a failed build is    *)
(* gone from the pool once its builder has deleted it by key.              *)
THEOREM BuildIsShared == Spec => []OneAssemblyPerUser
<1>1. PoolInv => OneAssemblyPerUser
  BY DEF PoolInv, Shared, OneAssemblyPerUser
<1> QED
  BY <1>1, PoolInductive, PTL

(* maxConcurrentUserCalls bounds what a user has running, although the     *)
(* slots are counted per entry and entries come and go.                    *)
THEOREM CallsAreBounded == Spec => []UserConcurrency
<1>1. PoolInv => UserConcurrency
  <2> SUFFICES ASSUME PoolInv, server = "up", NEW u \in Users
               PROVE  Cardinality({r \in Requests :
                                     req[r].pc = "serve" /\ req[r].user = u})
                        <= MaxCalls
    BY DEF UserConcurrency
  <2> DEFINE Running == {r \in Requests : req[r].pc = "serve" /\ req[r].user = u}
  <2>1. \A r \in Running : InUse(r) /\ pool[u] = req[r].entry
    BY OwnEntry DEF PoolInv, Shared, Builds
  <2>2. CASE Running = {}
    BY <2>2, FS_EmptySet, PoolAssumption
  <2>3. CASE Running # {}
    <3>1. PICK e \in Entries : e = pool[u] /\ Live(e)
      BY <2>1, <2>3, OwnEntry
    <3>2. Running \subseteq Servers(e)
      BY <2>1, <3>1 DEF Servers, Holders
    <3>3. /\ IsFiniteSet(Servers(e)) /\ Cardinality(Servers(e)) <= MaxCalls
      BY <3>1, ServersFinite DEF PoolInv, Counts
    <3>4. /\ Cardinality(Running) \in Nat /\ Cardinality(Servers(e)) \in Nat
          /\ Cardinality(Running) <= Cardinality(Servers(e))
      BY <3>2, <3>3, FS_Subset, FS_CardinalityType
    <3> QED
      BY <3>3, <3>4, PoolAssumption
  <2> QED
    BY <2>2, <2>3
<1> QED
  BY <1>1, PoolInductive, PTL
===============================================================================
