----------------------------- MODULE ProfileCache -----------------------------
(***************************************************************************)
(* The byte-bounded profile caches of gcpdata/profiler_cache.go: one LRU   *)
(* list per user behind a mutex, all of them drawing on one process-wide   *)
(* atomic counter that no lock protects.                                   *)
(*                                                                         *)
(* A call holds its cache's mutex from its first step to its last; what    *)
(* can interleave are the updates of the shared counter by calls on other  *)
(* caches.  The counter is changed by separate atomic additions before or  *)
(* after the list, so it runs ahead of or behind the lists.                *)
(***************************************************************************)
EXTENDS Integers, Sequences, FiniteSets

CONSTANTS
    Users,        \* caches, one per pooled user assembly
    Calls,        \* concurrent calls
    Keys,         \* profileCacheKey values
    Sizes,        \* sizes of the compressed profiles offered
    UserLimit,    \* profileCacheUserBytes
    ProcessLimit  \* profileCacheProcessBytes

ASSUME LimitsAssumption ==
    /\ UserLimit \in Nat /\ ProcessLimit \in Nat /\ Sizes \subseteq Nat
    /\ IsFiniteSet(Users) /\ IsFiniteSet(Calls)

VARIABLES
    entries,  \* entries[u]: the list, least recently used first
    bytes,    \* c.bytes
    closed,   \* c.closed
    total,    \* processProfileCacheBytes
    call      \* the calls; one that is not idle holds its cache's mutex

vars == <<entries, bytes, closed, total, call>>

(* In a call, evict and delta are the plan of a Put, fixed when it takes   *)
(* the mutex, and size of a Delete is what it has taken off the list.      *)
Idle == [pc |-> "idle"]

Init ==
    /\ entries = [u \in Users |-> <<>>]
    /\ bytes = [u \in Users |-> 0]
    /\ closed = [u \in Users |-> FALSE]
    /\ total = 0
    /\ call = [c \in Calls |-> Idle]

Unlocked(u) == \A c \in Calls : call[c].pc # "idle" => call[c].user # u
MayEnter(c, u) == call[c].pc = "idle" /\ Unlocked(u)
Return(c) == call' = [call EXCEPT ![c] = Idle]

-----------------------------------------------------------------------------
(* The sum of a function of naturals, counted.                             *)
SumOf(f) == Cardinality(UNION {{x} \X (1..f[x]) : x \in DOMAIN f})

(* The entries of a list, whose keys differ, and what they take.           *)
Cached(list) == {list[i] : i \in DOMAIN list}
SizeOf(E) == SumOf([e \in E |-> e.size])

(* index: the position of a key, 0 when it is not cached.                  *)
index(list, k) ==
    IF \E i \in DOMAIN list : list[i].key = k
    THEN CHOOSE i \in DOMAIN list : list[i].key = k ELSE 0

remove(list, i) == SubSeq(list, 1, i - 1) \o SubSeq(list, i + 1, Len(list))

(* Get: the entry becomes the most recently used one.                      *)
touch(list, k) ==
    LET i == index(list, k)
    IN  IF i = 0 THEN list ELSE Append(remove(list, i), list[i])

Get(c, u, k) ==
    /\ MayEnter(c, u)
    /\ entries' = [entries EXCEPT ![u] = touch(@, k)]
    /\ UNCHANGED <<bytes, closed, total, call>>

-----------------------------------------------------------------------------
(* Put.  freed(n): what removing the n oldest entries and the key's old    *)
(* value releases; the loop stops at the least n that makes the new value  *)
(* fit and gives up at the first kept entry on the way (errWouldEvict).    *)

(* Variant: the old value of the key is not counted as freed.              *)
Freed_OldForgotten(list, k, n) == SizeOf({list[i] : i \in 1..n})

Freed(list, k, n) ==
    SizeOf({list[i] : i \in 1..n} \cup {e \in Cached(list) : e.key = k})

(* Variant: the loop stops one entry early.                                *)
Evictions_OneShort(list, used, k, size) ==
    LET n == CHOOSE n \in 0..Len(list) :
               /\ used - Freed(list, k, n) + size <= UserLimit
               /\ \A m \in 0..(n-1) : used - Freed(list, k, m) + size > UserLimit
    IN  IF n > 0 THEN n - 1 ELSE 0

(* The number of oldest entries to evict.                                  *)
Evictions(list, used, k, size) ==
    CHOOSE n \in 0..Len(list) :
      /\ used - Freed(list, k, n) + size <= UserLimit
      /\ \A m \in 0..(n-1) : used - Freed(list, k, m) + size > UserLimit

(* Variant: the keep set is ignored.                                       *)
WouldEvict_IgnoreKeep(list, n, k, keep) == FALSE

WouldEvict(list, n, k, keep) ==
    \E i \in 1..n : list[i].key # k /\ list[i].key \in keep

(* Variant: Put does not look at closed.                                   *)
BeginPut_IgnoreClosed(c, u, k, size, keep) ==
    LET n == Evictions(entries[u], bytes[u], k, size)
    IN  /\ MayEnter(c, u)
        /\ size # 0 /\ size <= UserLimit
        /\ ~ WouldEvict(entries[u], n, k, keep)
        /\ call' = [call EXCEPT ![c] =
                      [pc |-> "reserve", user |-> u, key |-> k, size |-> size,
                       keep |-> keep, evict |-> n,
                       delta |-> size - Freed(entries[u], k, n)]]
        /\ UNCHANGED <<entries, bytes, closed, total>>

(* Empty data, data over the user limit, a closed cache and a kept entry   *)
(* in the way are rejected before anything changes.                        *)
BeginPut(c, u, k, size, keep) ==
    LET list == entries[u]
        n == Evictions(list, bytes[u], k, size)
    IN  /\ MayEnter(c, u)
        /\ size # 0 /\ size <= UserLimit
        /\ ~ closed[u]
        /\ ~ WouldEvict(list, n, k, keep)
        /\ call' = [call EXCEPT ![c] =
                      [pc |-> "reserve", user |-> u, key |-> k, size |-> size,
                       keep |-> keep, evict |-> n,
                       delta |-> size - Freed(list, k, n)]]
        /\ UNCHANGED <<entries, bytes, closed, total>>

(* Variant: the budget is compared before the addition, as two steps would *)
(* do without the atomic Add.                                              *)
Reserve_CheckFirst(c) ==
    LET delta == call[c].delta
    IN  /\ call[c].pc = "reserve"
        /\ call' = [call EXCEPT ![c].pc =
                      IF delta > 0 /\ total > ProcessLimit THEN "rollback"
                                                           ELSE "commit"]
        /\ total' = total + delta
        /\ UNCHANGED <<entries, bytes, closed>>

(* One atomic addition; its result decides.  A Put that shrinks the cache  *)
(* always goes on.                                                         *)
Reserve(c) ==
    LET delta == call[c].delta
    IN  /\ call[c].pc = "reserve"
        /\ total' = total + delta
        /\ call' = [call EXCEPT ![c].pc =
                      IF delta > 0 /\ total' > ProcessLimit THEN "rollback"
                                                            ELSE "commit"]
        /\ UNCHANGED <<entries, bytes, closed>>

(* errProcessCacheFull: the reservation is returned.                       *)
Rollback(c) ==
    /\ call[c].pc = "rollback"
    /\ total' = total - call[c].delta
    /\ Return(c)
    /\ UNCHANGED <<entries, bytes, closed>>

(* The list after a Put: the oldest entries and the old value are gone,    *)
(* the new value is the most recently used.                                *)
Replaced(list, n, k, size) ==
    LET old  == index(list, k)
        kept == SubSeq(list, n + 1, Len(list))
        rest == IF old > n THEN remove(kept, old - n) ELSE kept
    IN  Append(rest, [key |-> k, size |-> size])

Commit(c) ==
    LET q == call[c]
        u == q.user
    IN  /\ q.pc = "commit"
        /\ entries' = [entries EXCEPT ![u] = Replaced(@, q.evict, q.key, q.size)]
        /\ bytes' = [bytes EXCEPT ![u] = @ + q.delta]
        /\ Return(c)
        /\ UNCHANGED <<closed, total>>

-----------------------------------------------------------------------------
(* Delete: the list first, then the counter.                               *)

BeginDelete(c, u, k) ==
    LET i == index(entries[u], k)
        size == entries[u][i].size
    IN  /\ MayEnter(c, u)
        /\ i # 0
        /\ entries' = [entries EXCEPT ![u] = remove(@, i)]
        /\ bytes' = [bytes EXCEPT ![u] = @ - size]
        /\ call' = [call EXCEPT ![c] =
                      [pc |-> "release", user |-> u, size |-> size]]
        /\ UNCHANGED <<closed, total>>

Release(c) ==
    /\ call[c].pc = "release"
    /\ total' = total - call[c].size
    /\ Return(c)
    /\ UNCHANGED <<entries, bytes, closed>>

(* Close: the counter first, then the list.  It may be called again.       *)

BeginClose(c, u) ==
    /\ MayEnter(c, u)
    /\ closed' = [closed EXCEPT ![u] = TRUE]
    /\ call' = [call EXCEPT ![c] = [pc |-> "subtract", user |-> u]]
    /\ UNCHANGED <<entries, bytes, total>>

Subtract(c) ==
    /\ call[c].pc = "subtract"
    /\ total' = total - bytes[call[c].user]
    /\ call' = [call EXCEPT ![c].pc = "clear"]
    /\ UNCHANGED <<entries, bytes, closed>>

Clear(c) ==
    LET u == call[c].user
    IN  /\ call[c].pc = "clear"
        /\ entries' = [entries EXCEPT ![u] = <<>>]
        /\ bytes' = [bytes EXCEPT ![u] = 0]
        /\ Return(c)
        /\ UNCHANGED <<closed, total>>

-----------------------------------------------------------------------------
Step(c) ==
    \/ Reserve(c) \/ Rollback(c) \/ Commit(c) \/ Release(c)
    \/ Subtract(c) \/ Clear(c)

Enter(c) ==
    \E u \in Users :
      \/ \E k \in Keys : Get(c, u, k) \/ BeginDelete(c, u, k)
      \/ \E k \in Keys, size \in Sizes, keep \in SUBSET Keys :
           BeginPut(c, u, k, size, keep)
      \/ BeginClose(c, u)

Next == \E c \in Calls : Enter(c) \/ Step(c)

Spec == Init /\ [][Next]_vars

-----------------------------------------------------------------------------
(* Properties.                                                             *)

(* How far a call in flight has taken the counter ahead of the lists: by   *)
(* what it has reserved or has yet to release; and how far behind them.    *)
Reserved(q) == IF q.pc = "commit" /\ q.delta > 0 THEN q.delta ELSE 0
Ahead(q) ==
    CASE q.pc = "rollback" -> q.delta
      [] q.pc = "release"  -> q.size
      [] OTHER             -> Reserved(q)
Behind(q) ==
    CASE q.pc = "commit" /\ q.delta < 0 -> - q.delta
      [] q.pc = "clear"                 -> bytes[q.user]
      [] OTHER                          -> 0

(* The counter is exact up to the calls in flight, and every c.bytes is    *)
(* the sum of its list: no budget leaks through a rejected Put, a          *)
(* replacement, a Delete, or a Close that meets either of them.            *)
AccountingExact ==
    /\ total = SumOf(bytes) + SumOf([c \in Calls |-> Ahead(call[c])])
                             - SumOf([c \in Calls |-> Behind(call[c])])
    /\ \A u \in Users : bytes[u] = SizeOf(Cached(entries[u]))

(* What the caches hold once the calls in flight have finished.            *)
Settled ==
    SumOf(bytes) + SumOf([c \in Calls |-> Reserved(call[c])])
                 - SumOf([c \in Calls |-> Behind(call[c])])

(* The caches together never settle above the process budget, however the  *)
(* additions of racing inserts interleave.                                 *)
ProcessBudget == Settled <= ProcessLimit

(* No user exceeds the per-user budget, and no key is cached twice.        *)
UserBudget ==
    \A u \in Users :
      /\ bytes[u] <= UserLimit
      /\ \A i, j \in DOMAIN entries[u] :
           entries[u][i].key = entries[u][j].key => i = j

KeysOf(u) == {entries[u][i].key : i \in DOMAIN entries[u]}

(* An entry the caller asked to keep survives its insert.                  *)
KeepHonoured ==
    [][\A c \in Calls, u \in Users :
         /\ call[c].pc = "commit" /\ call[c].user = u
         /\ call'[c].pc = "idle"
         => call[c].keep \cap KeysOf(u) \subseteq KeysOf(u)']_vars

(* A closed cache that no call is working on is empty for good: a request  *)
(* that outlives its assembly cannot put budget into it.                   *)
ClosedHoldsNothing ==
    \A u \in Users :
      closed[u] /\ Unlocked(u) => entries[u] = <<>> /\ bytes[u] = 0
===============================================================================
