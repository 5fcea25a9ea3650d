--------------------------- MODULE ProfileCacheProofs ---------------------------
(***************************************************************************)
(* Proofs about ProfileCache for any users, calls, keys, sizes and limits: *)
(* the accounting, both budgets, the keep set and closed caches.           *)
(***************************************************************************)
EXTENDS ProfileCache, FiniteSetTheorems, SequenceTheorems, NaturalsInduction,
        TLAPS

(* Sums of naturals, as the cardinality of a disjoint union.               *)

Cells(f) == UNION {{x} \X (1..f[x]) : x \in DOMAIN f}

LEMMA CellsFinite ==
  ASSUME NEW S, IsFiniteSet(S), NEW f \in [S -> Nat]
  PROVE  IsFiniteSet(Cells(f)) /\ SumOf(f) = Cardinality(Cells(f)) /\ SumOf(f) \in Nat
<1> DEFINE T == {{x} \X (1..f[x]) : x \in S}
           g == [x \in S |-> {x} \X (1..f[x])]
<1>1. g \in Surjection(S, T)
  BY DEF Surjection
<1>2. IsFiniteSet(T)
  BY <1>1, FS_Surjection
<1>3. ASSUME NEW x \in S PROVE IsFiniteSet({x} \X (1..f[x]))
  <2>1. IsFiniteSet({x})
    BY FS_Singleton
  <2>2. 1 \in Int /\ f[x] \in Int
    OBVIOUS
  <2>3. IsFiniteSet(1..f[x])
    BY <2>2, FS_Interval
  <2> QED
    BY <2>1, <2>3, FS_Product
<1>4. IsFiniteSet(UNION T)
  BY <1>2, <1>3, FS_UNION
<1> QED
  BY <1>4, FS_CardinalityType DEF Cells, SumOf

LEMMA SumSplit ==
  ASSUME NEW S, IsFiniteSet(S), NEW f \in [S -> Nat], NEW D \in SUBSET S
  PROVE  SumOf(f) = SumOf([x \in D |-> f[x]]) + SumOf([x \in S \ D |-> f[x]])
<1> DEFINE g == [x \in D |-> f[x]]
           h == [x \in S \ D |-> f[x]]
<1>1. g \in [D -> Nat] /\ h \in [S \ D -> Nat] /\ IsFiniteSet(D) /\ IsFiniteSet(S \ D)
  BY FS_Subset
<1>2. Cells(f) = Cells(g) \cup Cells(h) /\ Cells(g) \cap Cells(h) = {}
  BY DEF Cells
<1>3. /\ IsFiniteSet(Cells(g)) /\ SumOf(g) = Cardinality(Cells(g)) /\ SumOf(g) \in Nat
      /\ IsFiniteSet(Cells(h)) /\ SumOf(h) = Cardinality(Cells(h)) /\ SumOf(h) \in Nat
      /\ SumOf(f) = Cardinality(Cells(f))
  BY <1>1, CellsFinite
<1> HIDE DEF g, h
<1>4. Cardinality(Cells(g) \cup Cells(h))
        = Cardinality(Cells(g)) + Cardinality(Cells(h)) - Cardinality(Cells(g) \cap Cells(h))
  BY <1>3, FS_Union
<1>5. Cardinality(Cells(g) \cap Cells(h)) = 0
  BY <1>2, FS_EmptySet
<1>6. SumOf(f) = SumOf(g) + SumOf(h)
  BY <1>2, <1>3, <1>4, <1>5
<1> QED
  BY <1>6 DEF g, h

LEMMA SumSingle ==
  ASSUME NEW x, NEW f \in [{x} -> Nat]
  PROVE  SumOf(f) = f[x]
<1>1. Cells(f) = {x} \X (1..f[x])
  BY DEF Cells
<1>2. IsFiniteSet({x}) /\ Cardinality({x}) = 1
  BY FS_Singleton
<1>3. f[x] \in Nat /\ 1 \in Int /\ f[x] \in Int
  OBVIOUS
<1>4. IsFiniteSet(1..f[x]) /\ Cardinality(1..f[x]) = f[x]
  <2>1. /\ IsFiniteSet(1..f[x])
        /\ Cardinality(1..f[x]) = IF 1 > f[x] THEN 0 ELSE f[x] - 1 + 1
    BY <1>3, FS_Interval
  <2> QED
    BY <1>3, <2>1
<1>5. Cardinality({x} \X (1..f[x])) = Cardinality({x}) * Cardinality(1..f[x])
  BY <1>2, <1>4, FS_Product
<1>6. SumOf(f) = Cardinality(Cells(f))
  BY <1>2, CellsFinite
<1> QED
  BY <1>1, <1>2, <1>3, <1>4, <1>5, <1>6

LEMMA SumUpdate ==
  ASSUME NEW S, IsFiniteSet(S), NEW f \in [S -> Nat], NEW g \in [S -> Nat],
         NEW x \in S, \A y \in S : y # x => g[y] = f[y]
  PROVE  SumOf(g) = SumOf(f) - f[x] + g[x]
<1> DEFINE rest == [y \in S \ {x} |-> f[y]]
<1>1. rest = [y \in S \ {x} |-> g[y]] /\ rest \in [S \ {x} -> Nat]
  OBVIOUS
<1>2. SumOf([y \in {x} |-> f[y]]) = f[x] /\ SumOf([y \in {x} |-> g[y]]) = g[x]
  <2>1. [y \in {x} |-> f[y]] \in [{x} -> Nat] /\ [y \in {x} |-> g[y]] \in [{x} -> Nat]
    OBVIOUS
  <2> QED
    BY <2>1, SumSingle
<1>3. SumOf(f) = f[x] + SumOf(rest) /\ SumOf(g) = g[x] + SumOf(rest)
  BY <1>1, <1>2, SumSplit
<1>4. SumOf(rest) \in Nat /\ f[x] \in Nat /\ g[x] \in Nat
  BY <1>1, FS_RemoveElement, CellsFinite
<1> QED
  BY <1>3, <1>4

LEMMA SumMonotonic ==
  ASSUME NEW S, IsFiniteSet(S), NEW f \in [S -> Nat], NEW g \in [S -> Nat],
         \A x \in S : f[x] <= g[x]
  PROVE  SumOf(f) <= SumOf(g)
<1>1. Cells(f) \subseteq Cells(g)
  BY DEF Cells
<1> QED
  BY <1>1, CellsFinite, FS_Subset

LEMMA SumZero ==
  ASSUME NEW S, NEW f \in [S -> Nat], \A x \in S : f[x] = 0
  PROVE  SumOf(f) = 0
<1>1. UNION {{x} \X (1..f[x]) : x \in DOMAIN f} = {}
  OBVIOUS
<1> QED
  BY <1>1, FS_EmptySet DEF SumOf

-----------------------------------------------------------------------------
(* What a set of entries takes.                                            *)

Entry == [key : Keys, size : Nat]

LEMMA SizeSplit ==
  ASSUME NEW E \in SUBSET Entry, IsFiniteSet(E), NEW D \in SUBSET E
  PROVE  /\ SizeOf(E) = SizeOf(D) + SizeOf(E \ D)
         /\ SizeOf(E) \in Nat /\ SizeOf(D) \in Nat /\ SizeOf(E \ D) \in Nat
<1> DEFINE f == [e \in E |-> e.size]
<1>1. f \in [E -> Nat]
  BY DEF Entry
<1>2. SumOf(f) = SumOf([e \in D |-> f[e]]) + SumOf([e \in E \ D |-> f[e]])
  BY <1>1, SumSplit
<1>3. /\ [e \in D |-> f[e]] = [e \in D |-> e.size]
      /\ [e \in E \ D |-> f[e]] = [e \in E \ D |-> e.size]
  OBVIOUS
<1>4. IsFiniteSet(D) /\ IsFiniteSet(E \ D)
  BY FS_Subset
<1>5. [e \in D |-> f[e]] \in [D -> Nat] /\ [e \in E \ D |-> f[e]] \in [E \ D -> Nat]
  BY <1>1
<1>6. SumOf([e \in D |-> f[e]]) \in Nat
  BY <1>4, <1>5, CellsFinite
<1>7. SumOf([e \in E \ D |-> f[e]]) \in Nat
  BY <1>4, <1>5, CellsFinite
<1>8. /\ SumOf(f) = SizeOf(E)
      /\ SumOf([e \in D |-> f[e]]) = SizeOf(D)
      /\ SumOf([e \in E \ D |-> f[e]]) = SizeOf(E \ D)
  BY <1>3 DEF SizeOf
<1> HIDE DEF f
<1> QED
  BY <1>2, <1>6, <1>7, <1>8

LEMMA SizeAdd ==
  ASSUME NEW E \in SUBSET Entry, IsFiniteSet(E), NEW e \in Entry, e \notin E
  PROVE  SizeOf(E \cup {e}) = SizeOf(E) + e.size
<1>1. E \cup {e} \in SUBSET Entry /\ IsFiniteSet(E \cup {e})
  BY FS_AddElement
<1>2. SizeOf(E \cup {e}) = SizeOf({e}) + SizeOf((E \cup {e}) \ {e})
  BY <1>1, SizeSplit
<1>3. (E \cup {e}) \ {e} = E
  OBVIOUS
<1>4. SizeOf({e}) = e.size
  <2> DEFINE f == [x \in {e} |-> x.size]
  <2>1. f \in [{e} -> Nat] /\ f[e] = e.size
    BY DEF Entry
  <2>2. SumOf(f) = f[e]
    BY <2>1, SumSingle
  <2> QED
    BY <2>1, <2>2 DEF SizeOf
<1>5. SizeOf(E) \in Nat /\ e.size \in Nat
  BY SizeSplit DEF Entry
<1>6. SizeOf((E \cup {e}) \ {e}) = SizeOf(E)
  BY <1>3
<1>7. SizeOf(E \cup {e}) = e.size + SizeOf(E)
  BY <1>2, <1>4, <1>6
<1> QED
  BY <1>5, <1>7

LEMMA SizeEmpty == SizeOf({}) = 0
<1>1. [e \in {} |-> e.size] \in [{} -> Nat]
  OBVIOUS
<1> QED
  BY <1>1, SumZero DEF SizeOf

-----------------------------------------------------------------------------
(* The lists.                                                              *)

Distinct(list) == \A i, j \in DOMAIN list : list[i].key = list[j].key => i = j

LEMMA CachedFinite ==
  ASSUME NEW list \in Seq(Entry)
  PROVE  Cached(list) \in SUBSET Entry /\ IsFiniteSet(Cached(list))
<1>1. Len(list) \in Nat /\ list \in [1..Len(list) -> Entry] /\ DOMAIN list = 1..Len(list)
  BY LenProperties
<1>2. list \in Surjection(1..Len(list), Cached(list))
  BY <1>1 DEF Surjection, Cached
<1>3. 1 \in Int /\ Len(list) \in Int
  BY <1>1
<1>4. IsFiniteSet(1..Len(list))
  BY <1>3, FS_Interval
<1> QED
  BY <1>1, <1>2, <1>4, FS_Surjection DEF Cached

LEMMA IndexSpec ==
  ASSUME NEW list, NEW k, 0 \notin DOMAIN list
  PROVE  \/ /\ index(list, k) \in DOMAIN list
            /\ list[index(list, k)].key = k
         \/ /\ index(list, k) = 0
            /\ \A i \in DOMAIN list : list[i].key # k
BY DEF index

LEMMA RemoveElements ==
  ASSUME NEW list \in Seq(Entry), NEW i \in 1..Len(list)
  PROVE  /\ remove(list, i) \in Seq(Entry)
         /\ DOMAIN remove(list, i) = 1..(Len(list) - 1)
         /\ \A j \in 1..(Len(list) - 1) :
              remove(list, i)[j] = list[IF j < i THEN j ELSE j + 1]
<1> DEFINE a == SubSeq(list, 1, i - 1)
           b == SubSeq(list, i + 1, Len(list))
           r == a \o b
<1>1. /\ Len(list) \in Nat /\ i \in Int /\ 1 <= i /\ i <= Len(list)
  BY LenProperties
<1>2. \A j \in 1..Len(list) : list[j] \in Entry
  BY LenProperties
<1>3. /\ a \in Seq(Entry) /\ Len(a) = i - 1
      /\ \A j \in 1..(i-1) : a[j] = list[j]
  <2>1. 1 \in Int /\ i - 1 \in Int /\ \A j \in 1..(i-1) : list[j] \in Entry
    BY <1>1, <1>2
  <2>2. /\ a \in Seq(Entry) /\ Len(a) = IF 1 <= i - 1 THEN (i - 1) - 1 + 1 ELSE 0
        /\ \A j \in 1..((i-1)-1+1) : a[j] = list[1+j-1]
    BY <2>1, SubSeqProperties
  <2> HIDE DEF a
  <2> QED
    BY <1>1, <2>2
<1>4. /\ b \in Seq(Entry) /\ Len(b) = Len(list) - i
      /\ \A j \in 1..(Len(list) - i) : b[j] = list[i + j]
  <2>1. i + 1 \in Int /\ Len(list) \in Int /\ \A j \in (i+1)..Len(list) : list[j] \in Entry
    BY <1>1, <1>2
  <2>2. /\ b \in Seq(Entry)
        /\ Len(b) = IF i + 1 <= Len(list) THEN Len(list) - (i + 1) + 1 ELSE 0
        /\ \A j \in 1..(Len(list)-(i+1)+1) : b[j] = list[(i+1)+j-1]
    BY <2>1, SubSeqProperties
  <2> HIDE DEF b
  <2>3. Len(b) = Len(list) - i
    <3>1. i + 1 <= Len(list) \/ i = Len(list)
      BY <1>1
    <3>2. Len(b) = IF i + 1 <= Len(list) THEN Len(list) - (i + 1) + 1 ELSE 0
      BY <2>2
    <3> QED
      BY <1>1, <3>1, <3>2
  <2>4. ASSUME NEW j \in 1..(Len(list) - i) PROVE b[j] = list[i + j]
    <3>1. j \in 1..(Len(list)-(i+1)+1) /\ (i+1)+j-1 = i + j
      BY <1>1
    <3> QED
      BY <2>2, <3>1
  <2> QED
    BY <2>2, <2>3, <2>4
<1>5. /\ r \in Seq(Entry) /\ Len(r) = Len(a) + Len(b) /\ DOMAIN r = 1..Len(r)
      /\ \A j \in 1..(Len(a) + Len(b)) : r[j] = IF j <= Len(a) THEN a[j] ELSE b[j - Len(a)]
  BY <1>3, <1>4, ConcatProperties, LenProperties
<1>6. DOMAIN r = 1..(Len(list) - 1)
  <2> HIDE DEF r, a, b
  <2>1. Len(r) = (i - 1) + (Len(list) - i)
    BY <1>3, <1>4, <1>5
  <2>2. Len(r) = Len(list) - 1
    BY <1>1, <2>1
  <2> QED
    BY <1>5, <2>2
<1>7. ASSUME NEW j \in 1..(Len(list) - 1)
      PROVE  r[j] = list[IF j < i THEN j ELSE j + 1]
  <2> HIDE DEF r, a, b
  <2>1. CASE j < i
    BY <1>1, <1>3, <1>4, <1>5, <2>1
  <2>2. CASE ~ (j < i)
    <3>1. j - (i - 1) \in 1..(Len(list) - i) /\ i + (j - (i - 1)) = j + 1
      BY <1>1, <2>2
    <3>2. r[j] = b[j - (i - 1)]
      BY <1>1, <1>3, <1>4, <1>5, <2>2
    <3> QED
      BY <1>4, <2>2, <3>1, <3>2
  <2> QED
    BY <2>1, <2>2
<1> QED
  BY <1>5, <1>6, <1>7 DEF remove

LEMMA RemoveSpec ==
  ASSUME NEW list \in Seq(Entry), Distinct(list), NEW i \in 1..Len(list)
  PROVE  /\ remove(list, i) \in Seq(Entry) /\ Distinct(remove(list, i))
         /\ Cached(remove(list, i)) = Cached(list) \ {list[i]}
<1> DEFINE r == remove(list, i)
<1>1. /\ Len(list) \in Nat /\ i \in Int /\ 1 <= i /\ i <= Len(list)
      /\ DOMAIN list = 1..Len(list)
  BY LenProperties
<1>2. r \in Seq(Entry) /\ DOMAIN r = 1..(Len(list) - 1)
  BY RemoveElements
<1>3. DOMAIN r = 1..(Len(list) - 1)
  BY <1>2
<1>4. \A j \in 1..(Len(list) - 1) : r[j] = list[IF j < i THEN j ELSE j + 1]
  BY RemoveElements
<1> HIDE DEF r
<1>5. Distinct(r)
  <2> SUFFICES ASSUME NEW j \in 1..(Len(list)-1), NEW m \in 1..(Len(list)-1),
                      r[j].key = r[m].key
               PROVE  j = m
    BY <1>3 DEF Distinct
  <2> DEFINE jj == IF j < i THEN j ELSE j + 1
             mm == IF m < i THEN m ELSE m + 1
  <2>1. jj \in 1..Len(list) /\ mm \in 1..Len(list)
    BY <1>1
  <2>2. list[jj].key = list[mm].key
    BY <1>4
  <2>3. jj = mm
    <3> HIDE DEF jj, mm
    <3> QED
      BY <1>1, <2>1, <2>2 DEF Distinct
  <2> QED
    BY <1>1, <2>3
<1>6. Cached(r) = Cached(list) \ {list[i]}
  <2>1. ASSUME NEW j \in 1..(Len(list) - 1)
        PROVE  r[j] \in Cached(list) \ {list[i]}
    <3> DEFINE jj == IF j < i THEN j ELSE j + 1
    <3>1. jj \in 1..Len(list) /\ jj # i
      BY <1>1
    <3> HIDE DEF jj
    <3>2. list[jj] # list[i]
      BY <1>1, <3>1 DEF Distinct
    <3> QED
      BY <1>1, <1>4, <3>1, <3>2 DEF Cached, jj
  <2>2. ASSUME NEW j \in 1..Len(list), list[j] # list[i]
        PROVE  \E m \in 1..(Len(list) - 1) : r[m] = list[j]
    <3>1. CASE j < i
      <4>1. j \in 1..(Len(list) - 1) /\ r[j] = list[j]
        BY <1>1, <1>4, <3>1
      <4> QED
        BY <4>1
    <3>2. CASE j > i
      <4>1. j - 1 \in 1..(Len(list) - 1) /\ ~ (j - 1 < i) /\ (j - 1) + 1 = j
        BY <1>1, <3>2
      <4>2. r[j - 1] = list[j]
        BY <1>4, <4>1
      <4> QED
        BY <4>1, <4>2
    <3> QED
      BY <1>1, <2>2, <3>1, <3>2
  <2>3. Cached(r) \subseteq Cached(list) \ {list[i]}
    BY <1>3, <2>1 DEF Cached
  <2>4. Cached(list) \ {list[i]} \subseteq Cached(r)
    BY <1>1, <1>3, <2>2 DEF Cached
  <2> QED
    BY <2>3, <2>4
<1> QED
  BY <1>2, <1>5, <1>6 DEF r

LEMMA AppendSpec ==
  ASSUME NEW list \in Seq(Entry), Distinct(list), NEW e \in Entry,
         \A x \in Cached(list) : x.key # e.key
  PROVE  /\ Append(list, e) \in Seq(Entry) /\ Distinct(Append(list, e))
         /\ Cached(Append(list, e)) = Cached(list) \cup {e}
<1> DEFINE r == Append(list, e)
<1>1. Len(list) \in Nat /\ DOMAIN list = 1..Len(list)
  BY LenProperties
<1>2. /\ r \in Seq(Entry) /\ Len(r) = Len(list) + 1
      /\ \A i \in 1..Len(list) : r[i] = list[i]
      /\ r[Len(list) + 1] = e
  BY AppendProperties
<1>3. DOMAIN r = 1..(Len(list) + 1)
  BY <1>2, LenProperties
<1> HIDE DEF r
<1>4. Distinct(r)
  BY <1>1, <1>2, <1>3 DEF Distinct, Cached
<1>5. Cached(r) = Cached(list) \cup {e}
  BY <1>1, <1>2, <1>3 DEF Cached
<1> QED
  BY <1>2, <1>4, <1>5 DEF r

LEMMA SuffixElements ==
  ASSUME NEW list \in Seq(Entry), NEW n \in 0..Len(list)
  PROVE  /\ SubSeq(list, n + 1, Len(list)) \in Seq(Entry)
         /\ DOMAIN SubSeq(list, n + 1, Len(list)) = 1..(Len(list) - n)
         /\ \A j \in 1..(Len(list) - n) : SubSeq(list, n + 1, Len(list))[j] = list[n + j]
<1> DEFINE b == SubSeq(list, n + 1, Len(list))
<1>1. Len(list) \in Nat /\ n \in Int /\ 0 <= n /\ n <= Len(list)
  BY LenProperties
<1>2. n + 1 \in Int /\ Len(list) \in Int /\ \A j \in (n+1)..Len(list) : list[j] \in Entry
  <2>1. \A j \in 1..Len(list) : list[j] \in Entry
    BY LenProperties
  <2> QED
    BY <1>1, <2>1
<1>3. /\ b \in Seq(Entry)
      /\ Len(b) = IF n + 1 <= Len(list) THEN Len(list) - (n + 1) + 1 ELSE 0
      /\ \A j \in 1..(Len(list)-(n+1)+1) : b[j] = list[(n+1)+j-1]
  BY <1>2, SubSeqProperties
<1> HIDE DEF b
<1>4. Len(b) = Len(list) - n
  <2>1. n + 1 <= Len(list) \/ n = Len(list)
    BY <1>1
  <2>2. Len(b) = IF n + 1 <= Len(list) THEN Len(list) - (n + 1) + 1 ELSE 0
    BY <1>3
  <2> QED
    BY <1>1, <2>1, <2>2
<1>5. DOMAIN b = 1..(Len(list) - n)
  BY <1>3, <1>4, LenProperties
<1>6. ASSUME NEW j \in 1..(Len(list) - n) PROVE b[j] = list[n + j]
  <2>1. j \in 1..(Len(list)-(n+1)+1) /\ (n+1)+j-1 = n + j
    BY <1>1
  <2> QED
    BY <1>3, <2>1
<1> QED
  BY <1>3, <1>5, <1>6 DEF b

LEMMA SuffixSpec ==
  ASSUME NEW list \in Seq(Entry), Distinct(list), NEW n \in 0..Len(list)
  PROVE  /\ SubSeq(list, n + 1, Len(list)) \in Seq(Entry)
         /\ Distinct(SubSeq(list, n + 1, Len(list)))
         /\ Cached(SubSeq(list, n + 1, Len(list)))
              = Cached(list) \ {list[i] : i \in 1..n}
<1> DEFINE b == SubSeq(list, n + 1, Len(list))
<1>1. Len(list) \in Nat /\ n \in Int /\ 0 <= n /\ n <= Len(list)
  BY LenProperties
<1>2. DOMAIN list = 1..Len(list)
  BY LenProperties
<1>3. b \in Seq(Entry) /\ DOMAIN b = 1..(Len(list) - n)
  BY SuffixElements
<1>4. \A j \in 1..(Len(list) - n) : b[j] = list[n + j]
  BY SuffixElements
<1> HIDE DEF b
<1>5. \A j \in 1..(Len(list) - n) : n + j \in 1..Len(list) /\ n + j > n
  BY <1>1
<1>6. Distinct(b)
  <2> SUFFICES ASSUME NEW j \in 1..(Len(list)-n), NEW m \in 1..(Len(list)-n),
                      b[j].key = b[m].key
               PROVE  j = m
    BY <1>3 DEF Distinct
  <2>1. n + j = n + m
    BY <1>2, <1>4, <1>5 DEF Distinct
  <2> QED
    BY <1>1, <2>1
<1>7. ASSUME NEW j \in 1..(Len(list) - n), NEW i \in 1..n
      PROVE  list[n + j] # list[i]
  <2>1. i \in 1..Len(list) /\ i # n + j
    BY <1>1
  <2> QED
    BY <1>2, <1>5, <2>1 DEF Distinct
<1>8. Cached(b) \subseteq Cached(list) \ {list[i] : i \in 1..n}
  BY <1>2, <1>3, <1>4, <1>5, <1>7 DEF Cached
<1>9. ASSUME NEW i \in 1..Len(list), list[i] \notin {list[j] : j \in 1..n}
      PROVE  list[i] \in Cached(b)
  <2>1. ~ (i \in 1..n)
    BY <1>9
  <2>2. i - n \in 1..(Len(list) - n) /\ n + (i - n) = i
    BY <1>1, <2>1
  <2>3. b[i - n] = list[i]
    BY <1>4, <2>2
  <2> QED
    BY <1>3, <2>2, <2>3 DEF Cached
<1>10. Cached(list) \ {list[i] : i \in 1..n} \subseteq Cached(b)
  BY <1>2, <1>9 DEF Cached
<1>11. Cached(b) = Cached(list) \ {list[i] : i \in 1..n}
  BY <1>8, <1>10
<1> QED
  BY <1>3, <1>6, <1>11 DEF b

(* A lookup reorders the list and nothing else.                            *)
LEMMA TouchSpec ==
  ASSUME NEW list \in Seq(Entry), Distinct(list), NEW k
  PROVE  /\ touch(list, k) \in Seq(Entry) /\ Distinct(touch(list, k))
         /\ Cached(touch(list, k)) = Cached(list)
<1> DEFINE i == index(list, k)
<1>1. DOMAIN list = 1..Len(list) /\ Len(list) \in Nat
  BY LenProperties
<1>2. 0 \notin DOMAIN list
  BY <1>1
<1>3. i = 0 \/ i \in 1..Len(list)
  BY <1>1, <1>2, IndexSpec
<1>4. CASE i = 0
  BY <1>4 DEF touch
<1>5. CASE i # 0 /\ i \in 1..Len(list)
  <2> HIDE DEF i
  <2>1. /\ remove(list, i) \in Seq(Entry) /\ Distinct(remove(list, i))
        /\ Cached(remove(list, i)) = Cached(list) \ {list[i]}
    BY <1>5, RemoveSpec
  <2>2. list[i] \in Entry /\ list[i] \in Cached(list)
    BY <1>1, <1>5, ElementOfSeq DEF Cached
  <2>3. ASSUME NEW x \in Cached(list) \ {list[i]} PROVE x.key # list[i].key
    BY <1>1, <1>5 DEF Cached, Distinct
  <2>4. /\ Append(remove(list, i), list[i]) \in Seq(Entry)
        /\ Distinct(Append(remove(list, i), list[i]))
        /\ Cached(Append(remove(list, i), list[i]))
             = Cached(remove(list, i)) \cup {list[i]}
    BY <2>1, <2>2, <2>3, AppendSpec
  <2>5. touch(list, k) = Append(remove(list, i), list[i])
    BY <1>5 DEF touch, i
  <2> QED
    BY <2>1, <2>2, <2>4, <2>5
<1> QED
  BY <1>3, <1>4, <1>5

(* What a Put of key k takes off a list: its n oldest entries and the old  *)
(* value of k.                                                             *)
Gone(list, k, n) == {list[i] : i \in 1..n} \cup {e \in Cached(list) : e.key = k}

LEMMA ReplacedSpec ==
  ASSUME NEW list \in Seq(Entry), Distinct(list), NEW n \in 0..Len(list),
         NEW k \in Keys, NEW size \in Nat
  PROVE  /\ Replaced(list, n, k, size) \in Seq(Entry)
         /\ Distinct(Replaced(list, n, k, size))
         /\ Cached(Replaced(list, n, k, size))
              = (Cached(list) \ Gone(list, k, n)) \cup {[key |-> k, size |-> size]}
<1> DEFINE old  == index(list, k)
           kept == SubSeq(list, n + 1, Len(list))
           rest == IF old > n THEN remove(kept, old - n) ELSE kept
           new  == [key |-> k, size |-> size]
           First == {list[i] : i \in 1..n}
           Same == {e \in Cached(list) : e.key = k}
<1>1. Len(list) \in Nat /\ n \in Int /\ 0 <= n /\ n <= Len(list)
  BY LenProperties
<1>2. DOMAIN list = 1..Len(list)
  BY LenProperties
<1>3. /\ kept \in Seq(Entry) /\ Distinct(kept) /\ Cached(kept) = Cached(list) \ First
  BY SuffixSpec
<1>4. DOMAIN kept = 1..(Len(list) - n) /\ \A j \in 1..(Len(list) - n) : kept[j] = list[n + j]
  BY SuffixElements
<1>5. \/ old \in 1..Len(list) /\ list[old].key = k
      \/ old = 0 /\ \A i \in 1..Len(list) : list[i].key # k
  <2>1. 0 \notin DOMAIN list
    BY <1>1, <1>2
  <2> QED
    BY <1>2, <2>1, IndexSpec
<1> HIDE DEF old, kept
<1>6. /\ rest \in Seq(Entry) /\ Distinct(rest)
      /\ Cached(rest) = Cached(list) \ (First \cup Same)
  <2>1. CASE old > n
    <3>1. old \in 1..Len(list) /\ list[old].key = k
      BY <1>1, <1>5, <2>1
    <3>2. Same = {list[old]}
      BY <1>2, <3>1 DEF Distinct, Cached
    <3>3. old - n \in 1..(Len(list) - n) /\ n + (old - n) = old
      BY <1>1, <2>1, <3>1
    <3>4. kept[old - n] = list[old]
      BY <1>4, <3>3
    <3>5. old - n \in 1..Len(kept)
      BY <1>3, <1>4, <3>3, LenProperties
    <3>6. /\ remove(kept, old - n) \in Seq(Entry) /\ Distinct(remove(kept, old - n))
          /\ Cached(remove(kept, old - n)) = Cached(kept) \ {kept[old - n]}
      BY <1>3, <3>5, RemoveSpec
    <3>7. rest = remove(kept, old - n)
      BY <2>1
    <3> HIDE DEF rest, First, Same
    <3> QED
      BY <1>3, <3>2, <3>4, <3>6, <3>7
  <2>2. CASE ~ (old > n)
    <3>1. Same \subseteq First
      <4>1. CASE old = 0
        BY <1>1, <1>2, <1>5, <4>1 DEF Cached
      <4>2. CASE old # 0
        <5>1. old \in 1..Len(list) /\ list[old].key = k
          BY <1>5, <4>2
        <5>2. Same = {list[old]}
          BY <1>2, <5>1 DEF Distinct, Cached
        <5>3. old \in 1..n
          BY <1>1, <2>2, <5>1
        <5> QED
          BY <5>2, <5>3
      <4> QED
        BY <4>1, <4>2
    <3>2. rest = kept
      BY <2>2
    <3> HIDE DEF rest, First, Same
    <3> QED
      BY <1>3, <3>1, <3>2
  <2> QED
    BY <2>1, <2>2
<1>7. new \in Entry /\ new.key = k
  BY DEF Entry
<1>8. ASSUME NEW x \in Cached(rest) PROVE x.key # new.key
  <2>1. x \in Cached(list) /\ x \notin Same
    BY <1>6
  <2> QED
    BY <1>7, <2>1
<1> HIDE DEF rest, new
<1>9. /\ Append(rest, new) \in Seq(Entry) /\ Distinct(Append(rest, new))
      /\ Cached(Append(rest, new)) = Cached(rest) \cup {new}
  BY <1>6, <1>7, <1>8, AppendSpec
<1>10. Replaced(list, n, k, size) = Append(rest, new)
  BY DEF Replaced, rest, new, old, kept
<1>11. Gone(list, k, n) = First \cup Same
  BY DEF Gone
<1> HIDE DEF First, Same
<1> QED
  BY <1>6, <1>9, <1>10, <1>11 DEF new

LEMMA GoneSize ==
  ASSUME NEW list \in Seq(Entry), NEW n \in 0..Len(list), NEW k
  PROVE  /\ Gone(list, k, n) \in SUBSET Cached(list)
         /\ Freed(list, k, n) = SizeOf(Gone(list, k, n))
         /\ Freed(list, k, n) \in Nat
         /\ SizeOf(Cached(list))
              = Freed(list, k, n) + SizeOf(Cached(list) \ Gone(list, k, n))
         /\ SizeOf(Cached(list) \ Gone(list, k, n)) \in Nat
         /\ IsFiniteSet(Cached(list) \ Gone(list, k, n))
<1>1. DOMAIN list = 1..Len(list) /\ Len(list) \in Nat
  BY LenProperties
<1>2. Gone(list, k, n) \in SUBSET Cached(list)
  BY <1>1 DEF Gone, Cached
<1>3. Freed(list, k, n) = SizeOf(Gone(list, k, n))
  BY DEF Freed, Gone
<1>4. Cached(list) \in SUBSET Entry /\ IsFiniteSet(Cached(list))
  BY CachedFinite
<1>5. /\ SizeOf(Cached(list))
           = SizeOf(Gone(list, k, n)) + SizeOf(Cached(list) \ Gone(list, k, n))
      /\ SizeOf(Gone(list, k, n)) \in Nat
      /\ SizeOf(Cached(list) \ Gone(list, k, n)) \in Nat
  BY <1>2, <1>4, SizeSplit
<1>6. IsFiniteSet(Cached(list) \ Gone(list, k, n))
  BY <1>4, FS_Subset
<1> QED
  BY <1>2, <1>3, <1>5, <1>6

(* A set of naturals that is not empty has a least member.                 *)
LEMMA LeastNatural ==
  ASSUME NEW T \in SUBSET Nat, T # {}
  PROVE  \E n \in T : \A m \in T : n <= m
<1>1. PICK n \in T : \A m \in T : ~ (<<m, n>> \in OpToRel(<, Nat))
  BY NatLessThanWellFounded, WFMin
<1>2. ASSUME NEW m \in T PROVE n <= m
  <2>1. m \in Nat /\ n \in Nat
    OBVIOUS
  <2>2. ~ (m < n)
    BY <1>1, <2>1 DEF OpToRel
  <2> QED
    BY <2>1, <2>2
<1> QED
  BY <1>2

(* The loop of Put ends: freeing the whole list makes room for a value     *)
(* within the user limit, so the least number of evictions exists.         *)
LEMMA EvictionsSpec ==
  ASSUME NEW list \in Seq(Entry), NEW k, NEW size \in Nat, size <= UserLimit
  PROVE  LET used == SizeOf(Cached(list))
             n == Evictions(list, used, k, size)
         IN  n \in 0..Len(list) /\ used - Freed(list, k, n) + size <= UserLimit
<1> DEFINE used == SizeOf(Cached(list))
           Fits(n) == used - Freed(list, k, n) + size <= UserLimit
           T == {n \in 0..Len(list) : Fits(n)}
<1>1. DOMAIN list = 1..Len(list) /\ Len(list) \in Nat
  BY LenProperties
<1>2. Len(list) \in T
  <2>1. Len(list) \in 0..Len(list)
    BY <1>1
  <2>2. Gone(list, k, Len(list)) = Cached(list)
    BY <1>1 DEF Gone, Cached
  <2>3. used = Freed(list, k, Len(list)) /\ used \in Nat
    BY <2>1, <2>2, GoneSize
  <2>4. used - Freed(list, k, Len(list)) + size = size
    BY <2>3
  <2> QED
    BY <2>1, <2>4
<1>3. T \in SUBSET Nat
  BY <1>1
<1>4. PICK n \in T : \A m \in T : n <= m
  BY <1>2, <1>3, LeastNatural
<1>5. n \in 0..Len(list) /\ Fits(n)
  BY <1>4
<1>6. ASSUME NEW m \in 0..(n-1) PROVE used - Freed(list, k, m) + size > UserLimit
  <2>1. m \in 0..Len(list) /\ ~ (n <= m)
    BY <1>1, <1>5
  <2>2. ~ Fits(m)
    BY <1>4, <2>1
  <2>3. Freed(list, k, m) \in Nat /\ used \in Nat
    BY <2>1, GoneSize, CachedFinite, SizeSplit
  <2>4. UserLimit \in Nat
    BY LimitsAssumption
  <2> QED
    BY <2>2, <2>3, <2>4
<1>7. \E x \in 0..Len(list) :
        /\ used - Freed(list, k, x) + size <= UserLimit
        /\ \A m \in 0..(x-1) : used - Freed(list, k, m) + size > UserLimit
  BY <1>5, <1>6
<1> QED
  BY <1>7 DEF Evictions

-----------------------------------------------------------------------------
(* The inductive invariant.                                                *)

PutCall == [pc : {"reserve", "commit", "rollback"}, user : Users, key : Keys,
            size : Nat, keep : SUBSET Keys, evict : Nat, delta : Int]
DeleteCall == [pc : {"release"}, user : Users, size : Nat]
CloseCall == [pc : {"subtract", "clear"}, user : Users]

CacheType ==
  /\ entries \in [Users -> Seq(Entry)]
  /\ bytes \in [Users -> Nat]
  /\ closed \in [Users -> BOOLEAN]
  /\ total \in Int
  /\ call \in [Calls -> {Idle} \cup PutCall \cup DeleteCall \cup CloseCall]

(* One call at a time holds a cache's mutex.                               *)
Mutex ==
  \A c, d \in Calls :
    /\ call[c].pc # "idle" /\ call[d].pc # "idle" /\ call[c].user = call[d].user
    => c = d

(* c.bytes is what the list takes, within the budget; no key comes twice.  *)
ListExact(u) ==
  /\ Distinct(entries[u])
  /\ bytes[u] = SizeOf(Cached(entries[u]))
  /\ bytes[u] <= UserLimit
ListsExact == \A u \in Users : ListExact(u)

(* The plan of a Put still fits the list it was made for.                  *)
PlanHolds(q) ==
  q.pc \in {"reserve", "commit", "rollback"} =>
    /\ q.evict \in 0..Len(entries[q.user])
    /\ q.delta = q.size - Freed(entries[q.user], q.key, q.evict)
    /\ bytes[q.user] + q.delta <= UserLimit
    /\ ~ WouldEvict(entries[q.user], q.evict, q.key, q.keep)
    /\ ~ closed[q.user]
    /\ q.pc = "rollback" => q.delta > 0
PlansHold == \A c \in Calls : PlanHolds(call[c])

(* A closed cache is empty, or Close is still at work on it.               *)
ClosedEmpty ==
  /\ \A c \in Calls : call[c].pc \in {"subtract", "clear"} => closed[call[c].user]
  /\ \A u \in Users :
       closed[u] => \/ entries[u] = <<>>
                    \/ \E c \in Calls : /\ call[c].pc \in {"subtract", "clear"}
                                        /\ call[c].user = u

TotalExact ==
  total = SumOf(bytes) + SumOf([c \in Calls |-> Ahead(call[c])])
                       - SumOf([c \in Calls |-> Behind(call[c])])

CacheInv ==
  /\ CacheType /\ Mutex /\ ListsExact /\ PlansHold /\ ClosedEmpty
  /\ TotalExact /\ ProcessBudget

-----------------------------------------------------------------------------
(* The counter and the calls in flight.                                    *)

CallKinds == {Idle} \cup PutCall \cup DeleteCall \cup CloseCall

LEMMA KindOfCall ==
  ASSUME NEW q \in CallKinds
  PROVE  /\ q.pc \in {"reserve", "commit", "rollback"} => q \in PutCall
         /\ q.pc = "release" => q \in DeleteCall
         /\ q.pc \in {"subtract", "clear"} => q \in CloseCall
         /\ q.pc = "idle" => q = Idle
         /\ q.pc # "idle" => q.user \in Users
BY DEF CallKinds, Idle, PutCall, DeleteCall, CloseCall

(* Behind, with the bytes of the caches as a parameter.                    *)
BehindAt(b, q) ==
  CASE q.pc = "commit" /\ q.delta < 0 -> - q.delta
    [] q.pc = "clear"                 -> b[q.user]
    [] OTHER                          -> 0

LEMMA CounterTypes ==
  ASSUME NEW b \in [Users -> Nat], NEW q \in CallKinds,
         q.pc = "rollback" => q.delta > 0
  PROVE  /\ Ahead(q) \in Nat /\ BehindAt(b, q) \in Nat /\ Reserved(q) \in Nat
         /\ Reserved(q) <= Ahead(q)
<1>1. CASE q.pc = "commit"
  <2>1. q.delta \in Int
    BY <1>1, KindOfCall DEF PutCall
  <2>2. Reserved(q) = IF q.delta > 0 THEN q.delta ELSE 0
    BY <1>1 DEF Reserved
  <2>3. Ahead(q) = Reserved(q)
    BY <1>1 DEF Ahead
  <2>4. BehindAt(b, q) = IF q.delta < 0 THEN - q.delta ELSE 0
    BY <1>1 DEF BehindAt
  <2> QED
    BY <2>1, <2>2, <2>3, <2>4
<1>2. CASE q.pc = "rollback"
  <2>1. q.delta \in Int
    BY <1>2, KindOfCall DEF PutCall
  <2>2. Reserved(q) = 0 /\ Ahead(q) = q.delta /\ BehindAt(b, q) = 0
    BY <1>2 DEF Reserved, Ahead, BehindAt
  <2> QED
    BY <1>2, <2>1, <2>2
<1>3. CASE q.pc = "release"
  <2>1. q.size \in Nat
    BY <1>3, KindOfCall DEF DeleteCall
  <2>2. Reserved(q) = 0 /\ Ahead(q) = q.size /\ BehindAt(b, q) = 0
    BY <1>3 DEF Reserved, Ahead, BehindAt
  <2> QED
    BY <2>1, <2>2
<1>4. CASE q.pc = "clear"
  <2>1. b[q.user] \in Nat
    BY <1>4, KindOfCall
  <2>2. Reserved(q) = 0 /\ Ahead(q) = 0 /\ BehindAt(b, q) = b[q.user]
    BY <1>4 DEF Reserved, Ahead, BehindAt
  <2> QED
    BY <2>1, <2>2
<1>5. CASE q.pc \notin {"commit", "rollback", "release", "clear"}
  <2>1. Reserved(q) = 0 /\ Ahead(q) = 0 /\ BehindAt(b, q) = 0
    BY <1>5 DEF Reserved, Ahead, BehindAt
  <2> QED
    BY <2>1
<1> QED
  BY <1>1, <1>2, <1>3, <1>4, <1>5

ReservedSum == SumOf([c \in Calls |-> Reserved(call[c])])
AheadSum == SumOf([c \in Calls |-> Ahead(call[c])])
BehindSum == SumOf([c \in Calls |-> Behind(call[c])])

(* What a step of call c on cache u leaves alone.  No other call is inside *)
(* that cache.                                                             *)
Frame(c, u) ==
  /\ \A d \in Calls \ {c} :
       call'[d] = call[d] /\ (call[d].pc # "idle" => call[d].user # u)
  /\ call[c].pc # "idle" => call[c].user = u
  /\ call'[c].pc # "idle" => call'[c].user = u
  /\ \A w \in Users \ {u} :
       entries'[w] = entries[w] /\ bytes'[w] = bytes[w] /\ closed'[w] = closed[w]

Signs == \A d \in Calls : call[d].pc = "rollback" => call[d].delta > 0

(* Only the terms of cache u and of call c move.                           *)
LEMMA SumsMove ==
  ASSUME CacheType, CacheType', Signs, Signs', NEW c \in Calls, NEW u \in Users,
         Frame(c, u)
  PROVE  /\ SumOf(bytes)' = SumOf(bytes) - bytes[u] + bytes'[u]
         /\ AheadSum' = AheadSum - Ahead(call[c]) + Ahead(call'[c])
         /\ ReservedSum' = ReservedSum - Reserved(call[c]) + Reserved(call'[c])
         /\ BehindSum' = BehindSum - Behind(call[c]) + BehindAt(bytes', call'[c])
         /\ SumOf(bytes) \in Nat /\ SumOf(bytes)' \in Nat
         /\ AheadSum \in Nat /\ AheadSum' \in Nat
         /\ ReservedSum \in Nat /\ ReservedSum' \in Nat /\ ReservedSum' <= AheadSum'
         /\ BehindSum \in Nat /\ BehindSum' \in Nat
<1>1. IsFiniteSet(Users) /\ IsFiniteSet(Calls)
  BY LimitsAssumption
<1>2. /\ bytes \in [Users -> Nat] /\ bytes' \in [Users -> Nat]
      /\ call \in [Calls -> CallKinds] /\ call' \in [Calls -> CallKinds]
  BY DEF CacheType, CallKinds
<1>3. \A d \in Calls : d # c => call'[d] = call[d]
  BY DEF Frame
<1>4. \A w \in Users : w # u => bytes'[w] = bytes[w]
  BY DEF Frame
<1>5. ASSUME NEW d \in Calls
      PROVE  /\ Ahead(call[d]) \in Nat /\ BehindAt(bytes, call[d]) \in Nat
             /\ Reserved(call[d]) \in Nat
  BY <1>2, CounterTypes DEF Signs
<1>6. ASSUME NEW d \in Calls
      PROVE  /\ Ahead(call'[d]) \in Nat /\ BehindAt(bytes', call'[d]) \in Nat
             /\ Reserved(call'[d]) \in Nat /\ Reserved(call'[d]) <= Ahead(call'[d])
  BY <1>2, CounterTypes DEF Signs
<1>7. ASSUME NEW d \in Calls, d # c
      PROVE  BehindAt(bytes', call'[d]) = BehindAt(bytes, call[d])
  <2>1. call'[d] = call[d]
    BY <1>3, <1>7
  <2>2. call[d].pc = "clear" => call[d].user \in Users /\ call[d].user # u
    BY <1>2, <1>7, KindOfCall DEF Frame
  <2>3. call[d].pc = "clear" => bytes'[call[d].user] = bytes[call[d].user]
    BY <1>4, <2>2
  <2> QED
    BY <2>1, <2>3 DEF BehindAt
<1> DEFINE A == [d \in Calls |-> Ahead(call[d])]
           AA == [d \in Calls |-> Ahead(call'[d])]
           R == [d \in Calls |-> Reserved(call[d])]
           RR == [d \in Calls |-> Reserved(call'[d])]
           B == [d \in Calls |-> BehindAt(bytes, call[d])]
           BB == [d \in Calls |-> BehindAt(bytes', call'[d])]
<1>8. /\ A \in [Calls -> Nat] /\ AA \in [Calls -> Nat] /\ R \in [Calls -> Nat]
      /\ RR \in [Calls -> Nat] /\ B \in [Calls -> Nat] /\ BB \in [Calls -> Nat]
  BY <1>5, <1>6
<1>9. /\ AheadSum = SumOf(A) /\ AheadSum' = SumOf(AA)
      /\ ReservedSum = SumOf(R) /\ ReservedSum' = SumOf(RR)
  BY DEF AheadSum, ReservedSum
<1>10. BehindSum = SumOf(B) /\ BehindSum' = SumOf(BB)
  BY DEF BehindSum, Behind, BehindAt
<1>11. /\ \A d \in Calls : d # c => AA[d] = A[d] /\ RR[d] = R[d] /\ BB[d] = B[d]
       /\ A[c] = Ahead(call[c]) /\ AA[c] = Ahead(call'[c])
       /\ R[c] = Reserved(call[c]) /\ RR[c] = Reserved(call'[c])
       /\ B[c] = BehindAt(bytes, call[c]) /\ BB[c] = BehindAt(bytes', call'[c])
       /\ \A d \in Calls : RR[d] <= AA[d]
  BY <1>3, <1>6, <1>7
<1>12. Behind(call[c]) = BehindAt(bytes, call[c])
  BY DEF Behind, BehindAt
<1> HIDE DEF A, AA, R, RR, B, BB
<1>13. SumOf(bytes') = SumOf(bytes) - bytes[u] + bytes'[u]
  BY <1>1, <1>2, <1>4, SumUpdate
<1>14. SumOf(AA) = SumOf(A) - A[c] + AA[c]
  BY <1>1, <1>8, <1>11, SumUpdate
<1>15. SumOf(RR) = SumOf(R) - R[c] + RR[c]
  BY <1>1, <1>8, <1>11, SumUpdate
<1>16. SumOf(BB) = SumOf(B) - B[c] + BB[c]
  BY <1>1, <1>8, <1>11, SumUpdate
<1>17. SumOf(RR) <= SumOf(AA)
  BY <1>1, <1>8, <1>11, SumMonotonic
<1>18. /\ SumOf(bytes) \in Nat /\ SumOf(bytes') \in Nat
       /\ SumOf(A) \in Nat /\ SumOf(AA) \in Nat
       /\ SumOf(R) \in Nat /\ SumOf(RR) \in Nat
       /\ SumOf(B) \in Nat /\ SumOf(BB) \in Nat
  BY <1>1, <1>2, <1>8, CellsFinite
<1>19. SumOf(bytes)' = SumOf(bytes')
  BY DEF SumOf
<1> QED
  BY <1>9, <1>10, <1>11, <1>12, <1>13, <1>14, <1>15, <1>16, <1>17, <1>18, <1>19

(* What a step owes for its own cache and call; Frame covers the others.   *)
LocalKept(c, u) ==
  /\ ListExact(u)' /\ PlanHolds(call[c])'
  /\ call'[c].pc \in {"subtract", "clear"} => closed'[u]
  /\ closed'[u] => entries'[u] = <<>> \/ call'[c].pc \in {"subtract", "clear"}

LEMMA FrameKeeps ==
  ASSUME CacheType, Mutex, ListsExact, PlansHold, ClosedEmpty, CacheType',
         NEW c \in Calls, NEW u \in Users, Frame(c, u), LocalKept(c, u)
  PROVE  Mutex' /\ ListsExact' /\ PlansHold' /\ ClosedEmpty'
<1>1. \A d \in Calls : call[d] \in CallKinds
  BY DEF CacheType, CallKinds
<1>2. Mutex'
  BY DEF Mutex, Frame
<1>3. ListsExact'
  <2> SUFFICES ASSUME NEW w \in Users PROVE ListExact(w)'
    BY DEF ListsExact
  <2>1. CASE w = u
    BY <2>1 DEF LocalKept
  <2>2. CASE w # u
    BY <2>2 DEF ListsExact, ListExact, Frame
  <2> QED
    BY <2>1, <2>2
<1>4. PlansHold'
  <2> SUFFICES ASSUME NEW d \in Calls PROVE PlanHolds(call[d])'
    BY DEF PlansHold
  <2>1. CASE d = c
    BY <2>1 DEF LocalKept
  <2>2. CASE d # c
    <3>1. call'[d] = call[d] /\ (call[d].pc # "idle" => call[d].user # u)
      BY <2>2 DEF Frame
    <3>2. PlanHolds(call[d])
      BY DEF PlansHold
    <3>3. call[d].pc \in {"reserve", "commit", "rollback"} =>
            call[d].user \in Users \ {u}
      BY <1>1, <3>1, KindOfCall
    <3>4. \A w \in Users \ {u} :
            entries'[w] = entries[w] /\ bytes'[w] = bytes[w] /\ closed'[w] = closed[w]
      BY DEF Frame
    <3> QED
      BY <3>1, <3>2, <3>3, <3>4 DEF PlanHolds
  <2> QED
    BY <2>1, <2>2
<1>5. ASSUME NEW d \in Calls, call'[d].pc \in {"subtract", "clear"}
      PROVE  closed'[call'[d].user]
  <2>1. CASE d = c
    BY <1>5, <2>1 DEF LocalKept, Frame
  <2>2. CASE d # c
    <3>1. call'[d] = call[d] /\ call[d].user # u
      BY <1>5, <2>2 DEF Frame
    <3>2. call[d].user \in Users \ {u} /\ closed[call[d].user]
      BY <1>1, <1>5, <3>1, KindOfCall DEF ClosedEmpty
    <3> QED
      BY <3>1, <3>2 DEF Frame
  <2> QED
    BY <2>1, <2>2
<1>6. ASSUME NEW w \in Users, closed'[w]
      PROVE  \/ entries'[w] = <<>>
             \/ \E d \in Calls : /\ call'[d].pc \in {"subtract", "clear"}
                                 /\ call'[d].user = w
  <2>1. CASE w = u
    BY <1>6, <2>1 DEF LocalKept, Frame
  <2>2. CASE w # u
    <3>1. closed[w] /\ entries'[w] = entries[w]
      BY <1>6, <2>2 DEF Frame
    <3>2. CASE entries[w] = <<>>
      BY <3>1, <3>2
    <3>3. CASE \E d \in Calls : /\ call[d].pc \in {"subtract", "clear"}
                                /\ call[d].user = w
      <4>1. PICK d \in Calls : call[d].pc \in {"subtract", "clear"} /\ call[d].user = w
        BY <3>3
      <4>2. d # c
        BY <2>2, <4>1 DEF Frame
      <4> QED
        BY <4>1, <4>2 DEF Frame
    <3> QED
      BY <3>1, <3>2, <3>3 DEF ClosedEmpty
  <2> QED
    BY <2>1, <2>2
<1> QED
  BY <1>2, <1>3, <1>4, <1>5, <1>6 DEF ClosedEmpty

LEMMA SignsHold == PlansHold => Signs
BY DEF PlansHold, PlanHolds, Signs

(* A step keeps the invariant when it pays for its own cache and call, the *)
(* counter moves with them, and what is settled does not grow, or fits the *)
(* limit with all that is reserved.                                        *)
LEMMA StepKeeps ==
  ASSUME CacheInv, CacheType', NEW c \in Calls, NEW u \in Users,
         Frame(c, u), LocalKept(c, u),
         NEW db \in Int, bytes'[u] = bytes[u] + db,
         NEW da \in Int, Ahead(call'[c]) = Ahead(call[c]) + da,
         NEW dr \in Int, Reserved(call'[c]) = Reserved(call[c]) + dr,
         NEW dd \in Int, BehindAt(bytes', call'[c]) = Behind(call[c]) + dd,
         total' = total + db + da - dd,
         db + dr - dd <= 0 \/ total' <= ProcessLimit
  PROVE  CacheInv'
<1>1. Mutex' /\ ListsExact' /\ PlansHold' /\ ClosedEmpty'
  BY FrameKeeps DEF CacheInv
<1>2. Signs
  BY SignsHold DEF CacheInv
<1>3. Signs'
  BY <1>1 DEF PlansHold, PlanHolds, Signs
<1>4. /\ SumOf(bytes)' = SumOf(bytes) - bytes[u] + bytes'[u]
      /\ AheadSum' = AheadSum - Ahead(call[c]) + Ahead(call'[c])
      /\ ReservedSum' = ReservedSum - Reserved(call[c]) + Reserved(call'[c])
      /\ BehindSum' = BehindSum - Behind(call[c]) + BehindAt(bytes', call'[c])
      /\ SumOf(bytes) \in Nat /\ SumOf(bytes)' \in Nat
      /\ AheadSum \in Nat /\ AheadSum' \in Nat
      /\ ReservedSum \in Nat /\ ReservedSum' \in Nat /\ ReservedSum' <= AheadSum'
      /\ BehindSum \in Nat /\ BehindSum' \in Nat
  BY <1>2, <1>3, SumsMove DEF CacheInv
<1>5. bytes[u] \in Nat /\ total \in Int
  BY DEF CacheInv, CacheType
<1>6. call[c] \in CallKinds /\ bytes \in [Users -> Nat]
  BY DEF CacheInv, CacheType, CallKinds
<1>7. /\ Ahead(call[c]) \in Nat /\ Reserved(call[c]) \in Nat
      /\ BehindAt(bytes, call[c]) \in Nat
  BY <1>2, <1>6, CounterTypes DEF Signs
<1>8. Behind(call[c]) \in Nat
  BY <1>7 DEF Behind, BehindAt
<1>9. /\ SumOf(bytes)' = SumOf(bytes) + db
      /\ AheadSum' = AheadSum + da
      /\ ReservedSum' = ReservedSum + dr
      /\ BehindSum' = BehindSum + dd
  BY <1>4, <1>5, <1>7, <1>8
<1>10. total = SumOf(bytes) + AheadSum - BehindSum
  BY DEF CacheInv, TotalExact, AheadSum, BehindSum
<1>11. total' = SumOf(bytes)' + AheadSum' - BehindSum'
  BY <1>4, <1>9, <1>10
<1>12. TotalExact'
  BY <1>11 DEF TotalExact, AheadSum, BehindSum
<1>13. SumOf(bytes) + ReservedSum - BehindSum <= ProcessLimit
  BY DEF CacheInv, ProcessBudget, Settled, ReservedSum, BehindSum
<1>14. ProcessLimit \in Nat
  BY LimitsAssumption
<1>15. SumOf(bytes)' + ReservedSum' - BehindSum' <= ProcessLimit
  <2>1. CASE db + dr - dd <= 0
    BY <1>4, <1>9, <1>13, <1>14, <2>1
  <2>2. CASE total' <= ProcessLimit
    BY <1>4, <1>11, <1>14, <2>2
  <2> QED
    BY <2>1, <2>2
<1>16. ProcessBudget'
  BY <1>15 DEF ProcessBudget, Settled, ReservedSum, BehindSum
<1> QED
  BY <1>1, <1>12, <1>16 DEF CacheInv

-----------------------------------------------------------------------------
(* The steps.                                                              *)

(* The mutex that a call in flight holds, and the one a call may take.     *)
LEMMA HoldsMutex ==
  ASSUME CacheInv, NEW c \in Calls, call[c].pc # "idle"
  PROVE  /\ call[c].user \in Users
         /\ \A d \in Calls \ {c} : call[d].pc # "idle" => call[d].user # call[c].user
<1>1. call[c] \in CallKinds
  BY DEF CacheInv, CacheType, CallKinds
<1>2. call[c].user \in Users
  BY <1>1, KindOfCall
<1> QED
  BY <1>2 DEF CacheInv, Mutex

LEMMA EntersEmpty ==
  ASSUME CacheInv, NEW u \in Users, Unlocked(u), closed[u]
  PROVE  entries[u] = <<>>
BY DEF CacheInv, ClosedEmpty, Unlocked

LEMMA GetStep ==
  ASSUME CacheInv, NEW c \in Calls, NEW u \in Users, NEW k \in Keys, Get(c, u, k)
  PROVE  CacheInv'
<1>1. /\ call[c].pc = "idle" /\ Unlocked(u)
      /\ entries' = [entries EXCEPT ![u] = touch(entries[u], k)]
      /\ bytes' = bytes /\ closed' = closed /\ total' = total /\ call' = call
  BY DEF Get, MayEnter
<1>2. CacheType
  BY DEF CacheInv
<1>3. entries[u] \in Seq(Entry) /\ ListExact(u)
  BY <1>2 DEF CacheInv, CacheType, ListsExact
<1>4. /\ touch(entries[u], k) \in Seq(Entry) /\ Distinct(touch(entries[u], k))
      /\ Cached(touch(entries[u], k)) = Cached(entries[u])
  BY <1>3, TouchSpec DEF ListExact
<1>5. entries'[u] = touch(entries[u], k)
  BY <1>1, <1>2 DEF CacheType
<1>6. CacheType'
  BY <1>1, <1>2, <1>4 DEF CacheType
<1>7. Frame(c, u)
  BY <1>1, <1>2 DEF Frame, Unlocked, CacheType
<1>8. LocalKept(c, u)
  <2>1. ListExact(u)'
    BY <1>1, <1>3, <1>4, <1>5 DEF ListExact
  <2>2. PlanHolds(call[c])'
    BY <1>1 DEF PlanHolds
  <2>3. closed'[u] => entries'[u] = <<>>
    <3> SUFFICES ASSUME closed[u] PROVE touch(entries[u], k) = <<>>
      BY <1>1, <1>5
    <3>1. entries[u] = <<>>
      BY <1>1, EntersEmpty
    <3>2. index(<<>>, k) = 0
      BY DEF index
    <3> QED
      BY <3>1, <3>2 DEF touch
  <2> QED
    BY <1>1, <2>1, <2>2, <2>3 DEF LocalKept
<1>9. /\ bytes'[u] = bytes[u] + 0 /\ bytes[u] \in Nat
      /\ Ahead(call'[c]) = Ahead(call[c]) + 0
      /\ Reserved(call'[c]) = Reserved(call[c]) + 0
      /\ BehindAt(bytes', call'[c]) = Behind(call[c]) + 0
      /\ total' = total + 0 + 0 - 0
  <2>1. Ahead(call[c]) = 0 /\ Reserved(call[c]) = 0 /\ Behind(call[c]) = 0
    BY <1>1 DEF Ahead, Reserved, Behind
  <2>2. BehindAt(bytes', call'[c]) = 0
    BY <1>1 DEF BehindAt
  <2> QED
    BY <1>1, <1>2, <2>1, <2>2 DEF CacheType
<1> QED
  BY <1>6, <1>7, <1>8, <1>9, StepKeeps

LEMMA BeginPutStep ==
  ASSUME CacheInv, NEW c \in Calls, NEW u \in Users, NEW k \in Keys, NEW size \in Sizes,
         NEW keep \in SUBSET Keys, BeginPut(c, u, k, size, keep)
  PROVE  CacheInv'
<1>1. PICK n : n = Evictions(entries[u], bytes[u], k, size)
  OBVIOUS
<1>2. PICK q : q = [pc |-> "reserve", user |-> u, key |-> k, size |-> size, keep |-> keep,
                    evict |-> n, delta |-> size - Freed(entries[u], k, n)]
  OBVIOUS
<1>3. /\ call[c].pc = "idle" /\ Unlocked(u) /\ size <= UserLimit /\ ~ closed[u]
      /\ ~ WouldEvict(entries[u], n, k, keep)
      /\ call' = [call EXCEPT ![c] = q]
      /\ entries' = entries /\ bytes' = bytes /\ closed' = closed /\ total' = total
  BY <1>1, <1>2 DEF BeginPut, MayEnter
<1>4. CacheType
  BY DEF CacheInv
<1>5. entries[u] \in Seq(Entry) /\ ListExact(u) /\ size \in Nat
  BY <1>4, LimitsAssumption DEF CacheInv, CacheType, ListsExact
<1>6. n \in 0..Len(entries[u]) /\ bytes[u] - Freed(entries[u], k, n) + size <= UserLimit
  BY <1>1, <1>3, <1>5, EvictionsSpec DEF ListExact
<1>7. Freed(entries[u], k, n) \in Nat
  BY <1>5, <1>6, GoneSize
<1>8. n \in Nat
  BY <1>5, <1>6, LenProperties
<1>9. q \in PutCall
  BY <1>2, <1>5, <1>7, <1>8 DEF PutCall
<1>10. call'[c] = q /\ \A d \in Calls \ {c} : call'[d] = call[d]
  BY <1>3, <1>4 DEF CacheType
<1>11. CacheType'
  BY <1>3, <1>4, <1>9 DEF CacheType
<1>12. Frame(c, u)
  BY <1>2, <1>3, <1>10 DEF Frame, Unlocked
<1>13. LocalKept(c, u)
  <2>1. ListExact(u)'
    BY <1>3, <1>5 DEF ListExact
  <2>2. PlanHolds(call[c])'
    <3>1. bytes[u] + (size - Freed(entries[u], k, n)) <= UserLimit
      BY <1>4, <1>5, <1>6, <1>7, LimitsAssumption DEF CacheType
    <3> QED
      BY <1>2, <1>3, <1>6, <1>10, <3>1 DEF PlanHolds
  <2> QED
    BY <1>2, <1>3, <1>10, <2>1, <2>2 DEF LocalKept
<1>14. /\ bytes'[u] = bytes[u] + 0 /\ bytes[u] \in Nat
       /\ Ahead(call'[c]) = Ahead(call[c]) + 0
       /\ Reserved(call'[c]) = Reserved(call[c]) + 0
       /\ BehindAt(bytes', call'[c]) = Behind(call[c]) + 0
       /\ total' = total + 0 + 0 - 0
  <2>1. Ahead(call[c]) = 0 /\ Reserved(call[c]) = 0 /\ Behind(call[c]) = 0
    BY <1>3 DEF Ahead, Reserved, Behind
  <2>2. Ahead(call'[c]) = 0 /\ Reserved(call'[c]) = 0 /\ BehindAt(bytes', call'[c]) = 0
    BY <1>2, <1>10 DEF Ahead, Reserved, BehindAt
  <2> QED
    BY <1>3, <1>4, <2>1, <2>2 DEF CacheType
<1> QED
  BY <1>11, <1>12, <1>13, <1>14, StepKeeps

(* The atomic addition: the budget holds because its result decides.       *)
LEMMA ReserveStep ==
  ASSUME CacheInv, NEW c \in Calls, Reserve(c)
  PROVE  CacheInv'
<1>1. PICK q : q = call[c]
  OBVIOUS
<1>2. PICK pc : pc = IF q.delta > 0 /\ total' > ProcessLimit THEN "rollback" ELSE "commit"
  OBVIOUS
<1>3. PICK u : u = q.user
  OBVIOUS
<1>4. /\ q.pc = "reserve" /\ total' = total + q.delta
      /\ call' = [call EXCEPT ![c].pc = pc]
      /\ entries' = entries /\ bytes' = bytes /\ closed' = closed
  BY <1>1, <1>2 DEF Reserve
<1>5. CacheType
  BY DEF CacheInv
<1>6. q \in PutCall /\ u \in Users
  BY <1>1, <1>3, <1>4, <1>5, KindOfCall DEF CacheType, CallKinds, PutCall
<1>7. PICK r : r = [q EXCEPT !.pc = pc]
  OBVIOUS
<1>8. /\ r \in PutCall /\ r.pc = pc /\ r.user = u /\ r.delta = q.delta
      /\ r.key = q.key /\ r.size = q.size /\ r.keep = q.keep /\ r.evict = q.evict
  BY <1>2, <1>3, <1>6, <1>7 DEF PutCall
<1>9. call'[c] = r /\ \A d \in Calls \ {c} : call'[d] = call[d]
  BY <1>1, <1>4, <1>5, <1>7 DEF CacheType
<1>10. CacheType'
  <2>1. call' = [call EXCEPT ![c] = r]
    BY <1>1, <1>4, <1>7
  <2>2. total' \in Int
    BY <1>4, <1>5, <1>6 DEF CacheType, PutCall
  <2> QED
    BY <1>4, <1>5, <1>8, <2>1, <2>2 DEF CacheType
<1>11. Frame(c, u)
  BY <1>1, <1>3, <1>4, <1>8, <1>9, HoldsMutex DEF Frame
<1>12. ListExact(u) /\ PlanHolds(q)
  BY <1>1, <1>6 DEF CacheInv, ListsExact, PlansHold
<1>13. LocalKept(c, u)
  <2>1. ListExact(u)'
    BY <1>4, <1>12 DEF ListExact
  <2>2. PlanHolds(call[c])'
    BY <1>2, <1>3, <1>4, <1>8, <1>9, <1>12 DEF PlanHolds
  <2>3. ~ closed'[u]
    BY <1>3, <1>4, <1>12 DEF PlanHolds
  <2>4. r.pc \notin {"subtract", "clear"}
    BY <1>2, <1>8
  <2> QED
    BY <1>9, <2>1, <2>2, <2>3, <2>4 DEF LocalKept
<1>14. /\ q.delta \in Int /\ total \in Int /\ bytes[u] \in Nat
       /\ bytes'[u] = bytes[u] + 0
  BY <1>4, <1>5, <1>6 DEF CacheType, PutCall
<1>15. Ahead(call[c]) = 0 /\ Reserved(call[c]) = 0 /\ Behind(call[c]) = 0
  BY <1>1, <1>4 DEF Ahead, Reserved, Behind
<1>16. CASE q.delta > 0 /\ ~ (total' > ProcessLimit)
  <2>1. pc = "commit"
    BY <1>2, <1>16
  <2>2. /\ Ahead(call'[c]) = q.delta /\ Reserved(call'[c]) = q.delta
        /\ BehindAt(bytes', call'[c]) = 0
    BY <1>8, <1>9, <1>14, <1>16, <2>1 DEF Ahead, Reserved, BehindAt
  <2>3. total' = total + 0 + q.delta - 0 /\ total' <= ProcessLimit
    BY <1>4, <1>14, <1>16, LimitsAssumption
  <2>4. /\ Ahead(call'[c]) = Ahead(call[c]) + q.delta
        /\ Reserved(call'[c]) = Reserved(call[c]) + q.delta
        /\ BehindAt(bytes', call'[c]) = Behind(call[c]) + 0
    BY <1>14, <1>15, <2>2
  <2> QED
    BY <1>6, <1>10, <1>11, <1>13, <1>14, <2>3, <2>4, StepKeeps
<1>17. CASE q.delta > 0 /\ total' > ProcessLimit
  <2>1. pc = "rollback"
    BY <1>2, <1>17
  <2>2. /\ Ahead(call'[c]) = q.delta /\ Reserved(call'[c]) = 0
        /\ BehindAt(bytes', call'[c]) = 0
    BY <1>8, <1>9, <1>14, <2>1 DEF Ahead, Reserved, BehindAt
  <2>3. total' = total + 0 + q.delta - 0 /\ 0 + 0 - 0 <= 0
    BY <1>4, <1>14
  <2>4. /\ Ahead(call'[c]) = Ahead(call[c]) + q.delta
        /\ Reserved(call'[c]) = Reserved(call[c]) + 0
        /\ BehindAt(bytes', call'[c]) = Behind(call[c]) + 0
    BY <1>14, <1>15, <2>2
  <2> QED
    BY <1>6, <1>10, <1>11, <1>13, <1>14, <2>3, <2>4, StepKeeps
<1>18. CASE ~ (q.delta > 0)
  <2>1. pc = "commit"
    BY <1>2, <1>18
  <2>2. /\ Ahead(call'[c]) = 0 /\ Reserved(call'[c]) = 0
        /\ BehindAt(bytes', call'[c]) = - q.delta
    BY <1>8, <1>9, <1>14, <1>18, <2>1 DEF Ahead, Reserved, BehindAt
  <2>3. total' = total + 0 + 0 - (- q.delta) /\ 0 + 0 - (- q.delta) <= 0 /\ - q.delta \in Int
    BY <1>4, <1>14, <1>18
  <2>4. /\ Ahead(call'[c]) = Ahead(call[c]) + 0
        /\ Reserved(call'[c]) = Reserved(call[c]) + 0
        /\ BehindAt(bytes', call'[c]) = Behind(call[c]) + (- q.delta)
    BY <1>14, <1>15, <2>2
  <2> QED
    BY <1>6, <1>10, <1>11, <1>13, <1>14, <2>3, <2>4, StepKeeps
<1> QED
  BY <1>16, <1>17, <1>18

(* A call that returns leaves nothing in flight.                           *)
LEMMA Returns ==
  ASSUME CacheType, NEW c \in Calls, Return(c)
  PROVE  /\ call'[c] = Idle /\ \A d \in Calls \ {c} : call'[d] = call[d]
         /\ call' \in [Calls -> CallKinds]
         /\ Ahead(call'[c]) = 0 /\ Reserved(call'[c]) = 0
         /\ BehindAt(bytes', call'[c]) = 0
         /\ PlanHolds(call[c])'
<1>1. call'[c] = Idle /\ \A d \in Calls \ {c} : call'[d] = call[d]
  BY DEF CacheType, Return
<1>2. call' \in [Calls -> CallKinds]
  BY DEF CacheType, CallKinds, Return
<1>3. Idle.pc = "idle"
  BY DEF Idle
<1> QED
  BY <1>1, <1>2, <1>3 DEF Ahead, Reserved, BehindAt, PlanHolds

LEMMA RollbackStep ==
  ASSUME CacheInv, NEW c \in Calls, Rollback(c)
  PROVE  CacheInv'
<1>1. PICK q : q = call[c]
  OBVIOUS
<1>2. PICK u : u = q.user
  OBVIOUS
<1>3. /\ q.pc = "rollback" /\ total' = total - q.delta /\ Return(c)
      /\ entries' = entries /\ bytes' = bytes /\ closed' = closed
  BY <1>1 DEF Rollback
<1>4. CacheType
  BY DEF CacheInv
<1>5. q \in PutCall /\ u \in Users
  BY <1>1, <1>2, <1>3, <1>4, KindOfCall DEF CacheType, CallKinds, PutCall
<1>6. q.delta \in Int /\ total \in Int /\ bytes[u] \in Nat
  BY <1>4, <1>5 DEF CacheType, PutCall
<1>7. /\ call'[c] = Idle /\ \A d \in Calls \ {c} : call'[d] = call[d]
      /\ call' \in [Calls -> CallKinds]
      /\ Ahead(call'[c]) = 0 /\ Reserved(call'[c]) = 0 /\ BehindAt(bytes', call'[c]) = 0
      /\ PlanHolds(call[c])'
  BY <1>3, <1>4, Returns
<1>8. CacheType'
  BY <1>3, <1>4, <1>6, <1>7 DEF CacheType, CallKinds
<1>9. Frame(c, u)
  BY <1>1, <1>2, <1>3, <1>7, HoldsMutex DEF Frame, Idle
<1>10. ListExact(u) /\ PlanHolds(q)
  BY <1>1, <1>5 DEF CacheInv, ListsExact, PlansHold
<1>11. LocalKept(c, u)
  <2>1. ListExact(u)'
    BY <1>3, <1>10 DEF ListExact
  <2>2. ~ closed'[u]
    BY <1>2, <1>3, <1>10 DEF PlanHolds
  <2> QED
    BY <1>7, <2>1, <2>2 DEF LocalKept, Idle
<1>12. Ahead(call[c]) = q.delta /\ Reserved(call[c]) = 0 /\ Behind(call[c]) = 0
  BY <1>1, <1>3 DEF Ahead, Reserved, Behind
<1>13. /\ bytes'[u] = bytes[u] + 0
       /\ Ahead(call'[c]) = Ahead(call[c]) + (- q.delta) /\ - q.delta \in Int
       /\ Reserved(call'[c]) = Reserved(call[c]) + 0
       /\ BehindAt(bytes', call'[c]) = Behind(call[c]) + 0
       /\ total' = total + 0 + (- q.delta) - 0
       /\ 0 + 0 - 0 <= 0
  BY <1>3, <1>6, <1>7, <1>12
<1> QED
  BY <1>5, <1>8, <1>9, <1>11, <1>13, StepKeeps

(* The insert itself: what the list takes changes by delta, the planned    *)
(* amount, because nobody else could touch the list since.                 *)
LEMMA CommitStep ==
  ASSUME CacheInv, NEW c \in Calls, Commit(c)
  PROVE  CacheInv'
<1>1. PICK q : q = call[c]
  OBVIOUS
<1>2. PICK u : u = q.user
  OBVIOUS
<1>3. PICK list : list = entries[u]
  OBVIOUS
<1>4. PICK next : next = Replaced(list, q.evict, q.key, q.size)
  OBVIOUS
<1>5. /\ q.pc = "commit" /\ Return(c) /\ closed' = closed /\ total' = total
      /\ entries' = [entries EXCEPT ![u] = next]
      /\ bytes' = [bytes EXCEPT ![u] = bytes[u] + q.delta]
  BY <1>1, <1>2, <1>3, <1>4 DEF Commit
<1>6. CacheType
  BY DEF CacheInv
<1>7. q \in PutCall /\ u \in Users
  BY <1>1, <1>2, <1>5, <1>6, KindOfCall DEF CacheType, CallKinds, PutCall
<1>8. /\ q.delta \in Int /\ q.size \in Nat /\ q.key \in Keys /\ total \in Int
      /\ bytes[u] \in Nat /\ list \in Seq(Entry)
  BY <1>3, <1>6, <1>7 DEF CacheType, PutCall
<1>9. ListExact(u) /\ PlanHolds(q)
  BY <1>1, <1>7 DEF CacheInv, ListsExact, PlansHold
<1>10. /\ q.evict \in 0..Len(list) /\ ~ closed[u]
       /\ q.delta = q.size - Freed(list, q.key, q.evict)
       /\ bytes[u] + q.delta <= UserLimit
  BY <1>2, <1>3, <1>5, <1>9 DEF PlanHolds
<1>11. PICK new : new = [key |-> q.key, size |-> q.size]
  OBVIOUS
<1>12. new \in Entry /\ new.size = q.size
  BY <1>8, <1>11 DEF Entry
<1>13. PICK left : left = Cached(list) \ Gone(list, q.key, q.evict)
  OBVIOUS
<1>14. /\ next \in Seq(Entry) /\ Distinct(next) /\ Cached(next) = left \cup {new}
  BY <1>3, <1>4, <1>8, <1>9, <1>10, <1>11, <1>13, ReplacedSpec DEF ListExact
<1>15. /\ IsFiniteSet(left) /\ SizeOf(left) \in Nat
       /\ SizeOf(Cached(list)) = Freed(list, q.key, q.evict) + SizeOf(left)
       /\ Freed(list, q.key, q.evict) \in Nat
  BY <1>8, <1>10, <1>13, GoneSize
<1>16. left \in SUBSET Entry /\ new \notin left
  <2>1. Cached(list) \in SUBSET Entry
    BY <1>8, CachedFinite
  <2>2. new \in Cached(list) => new \in Gone(list, q.key, q.evict)
    BY <1>11 DEF Gone
  <2> QED
    BY <1>13, <2>1, <2>2
<1>17. SizeOf(left \cup {new}) = SizeOf(left) + q.size
  BY <1>12, <1>15, <1>16, SizeAdd
<1>18. bytes[u] = SizeOf(Cached(list))
  BY <1>3, <1>9 DEF ListExact
<1>19. SizeOf(Cached(next)) = bytes[u] + q.delta /\ bytes[u] + q.delta \in Nat
  BY <1>8, <1>10, <1>14, <1>15, <1>17, <1>18
<1>20. entries'[u] = next /\ bytes'[u] = bytes[u] + q.delta
  BY <1>5, <1>6, <1>7 DEF CacheType
<1>21. /\ call'[c] = Idle /\ \A d \in Calls \ {c} : call'[d] = call[d]
       /\ call' \in [Calls -> CallKinds]
       /\ Ahead(call'[c]) = 0 /\ Reserved(call'[c]) = 0 /\ BehindAt(bytes', call'[c]) = 0
       /\ PlanHolds(call[c])'
  BY <1>5, <1>6, Returns
<1>22. CacheType'
  BY <1>5, <1>6, <1>14, <1>19, <1>21 DEF CacheType, CallKinds
<1>23. Frame(c, u)
  BY <1>1, <1>2, <1>5, <1>6, <1>21, HoldsMutex DEF Frame, Idle, CacheType
<1>24. LocalKept(c, u)
  <2>1. ListExact(u)'
    BY <1>10, <1>14, <1>19, <1>20 DEF ListExact
  <2>2. ~ closed'[u]
    BY <1>5, <1>10
  <2> QED
    BY <1>21, <2>1, <2>2 DEF LocalKept, Idle
<1>25. PICK d : d = q.delta
  OBVIOUS
<1>26. PICK m : m = - d
  OBVIOUS
<1>27. d \in Int /\ m \in Int /\ 0 \in Int /\ bytes'[u] = bytes[u] + d
  BY <1>8, <1>20, <1>25, <1>26
<1>28. CASE d > 0
  <2>1. Ahead(call[c]) = d /\ Reserved(call[c]) = d /\ Behind(call[c]) = 0
    BY <1>1, <1>5, <1>25, <1>27, <1>28 DEF Ahead, Reserved, Behind
  <2>2. Ahead(call'[c]) = Ahead(call[c]) + m /\ Reserved(call'[c]) = Reserved(call[c]) + m
    BY <1>21, <1>26, <1>27, <2>1
  <2>3. BehindAt(bytes', call'[c]) = Behind(call[c]) + 0
    BY <1>21, <2>1
  <2>4. total' = total + d + m - 0 /\ d + m - 0 <= 0
    BY <1>5, <1>8, <1>26, <1>27
  <2> QED
    BY <1>7, <1>22, <1>23, <1>24, <1>27, <2>2, <2>3, <2>4, StepKeeps
<1>29. CASE ~ (d > 0)
  <2>1. Ahead(call[c]) = 0 /\ Reserved(call[c]) = 0 /\ Behind(call[c]) = - d
    BY <1>1, <1>5, <1>25, <1>27, <1>29 DEF Ahead, Reserved, Behind
  <2>2. Ahead(call'[c]) = Ahead(call[c]) + 0 /\ Reserved(call'[c]) = Reserved(call[c]) + 0
    BY <1>21, <2>1
  <2>3. BehindAt(bytes', call'[c]) = Behind(call[c]) + d
    BY <1>21, <1>27, <2>1
  <2>4. total' = total + d + 0 - d /\ d + 0 - d <= 0
    BY <1>5, <1>8, <1>27
  <2> QED
    BY <1>7, <1>22, <1>23, <1>24, <1>27, <2>2, <2>3, <2>4, StepKeeps
<1> QED
  BY <1>28, <1>29

LEMMA BeginDeleteStep ==
  ASSUME CacheInv, NEW c \in Calls, NEW u \in Users, NEW k \in Keys,
         BeginDelete(c, u, k)
  PROVE  CacheInv'
<1>1. PICK list : list = entries[u]
  OBVIOUS
<1>2. PICK i : i = index(list, k)
  OBVIOUS
<1>3. PICK size : size = list[i].size
  OBVIOUS
<1>4. PICK q : q = [pc |-> "release", user |-> u, size |-> size]
  OBVIOUS
<1>5. /\ call[c].pc = "idle" /\ Unlocked(u) /\ i # 0
      /\ entries' = [entries EXCEPT ![u] = remove(list, i)]
      /\ bytes' = [bytes EXCEPT ![u] = bytes[u] - size]
      /\ call' = [call EXCEPT ![c] = q]
      /\ closed' = closed /\ total' = total
  BY <1>1, <1>2, <1>3, <1>4 DEF BeginDelete, MayEnter
<1>6. CacheType
  BY DEF CacheInv
<1>7. list \in Seq(Entry) /\ bytes[u] \in Nat /\ total \in Int /\ ListExact(u)
  BY <1>1, <1>6 DEF CacheInv, CacheType, ListsExact
<1>8. DOMAIN list = 1..Len(list) /\ Len(list) \in Nat
  BY <1>7, LenProperties
<1>9. i \in 1..Len(list)
  <2>1. 0 \notin DOMAIN list
    BY <1>8
  <2> QED
    BY <1>2, <1>5, <1>8, <2>1, IndexSpec
<1>10. list[i] \in Entry /\ list[i] \in Cached(list)
  BY <1>7, <1>8, <1>9, ElementOfSeq DEF Cached
<1>11. size \in Nat
  BY <1>3, <1>10 DEF Entry
<1>12. /\ remove(list, i) \in Seq(Entry) /\ Distinct(remove(list, i))
       /\ Cached(remove(list, i)) = Cached(list) \ {list[i]}
  BY <1>1, <1>7, <1>9, RemoveSpec DEF ListExact
<1>13. /\ SizeOf(Cached(list)) = SizeOf(Cached(remove(list, i))) + size
       /\ SizeOf(Cached(remove(list, i))) \in Nat
  <2>1. PICK E : E = Cached(list) \ {list[i]}
    OBVIOUS
  <2>2. Cached(list) \in SUBSET Entry /\ IsFiniteSet(Cached(list))
    BY <1>7, CachedFinite
  <2>3. E \in SUBSET Entry /\ IsFiniteSet(E) /\ list[i] \notin E
    BY <2>1, <2>2, FS_RemoveElement
  <2>4. SizeOf(E \cup {list[i]}) = SizeOf(E) + size
    BY <1>3, <1>10, <2>3, SizeAdd
  <2>5. E \cup {list[i]} = Cached(list)
    BY <1>10, <2>1
  <2>6. SizeOf(E) \in Nat
    BY <2>3, SizeSplit
  <2> QED
    BY <1>12, <2>1, <2>4, <2>5, <2>6
<1>14. bytes[u] = SizeOf(Cached(list)) /\ bytes[u] <= UserLimit
  BY <1>1, <1>7 DEF ListExact
<1>15. /\ SizeOf(Cached(remove(list, i))) = bytes[u] - size
       /\ bytes[u] - size \in Nat /\ bytes[u] - size <= UserLimit
  BY <1>7, <1>11, <1>13, <1>14, LimitsAssumption
<1>16. q \in DeleteCall /\ q.pc = "release" /\ q.user = u /\ q.size = size
  BY <1>4, <1>11 DEF DeleteCall
<1>17. /\ entries'[u] = remove(list, i) /\ bytes'[u] = bytes[u] - size
       /\ call'[c] = q /\ \A d \in Calls \ {c} : call'[d] = call[d]
  BY <1>5, <1>6 DEF CacheType
<1>18. CacheType'
  BY <1>5, <1>6, <1>12, <1>15, <1>16 DEF CacheType
<1>19. Frame(c, u)
  BY <1>5, <1>6, <1>16, <1>17 DEF Frame, Unlocked, CacheType
<1>20. LocalKept(c, u)
  <2>1. ListExact(u)'
    BY <1>12, <1>15, <1>17 DEF ListExact
  <2>2. PlanHolds(call[c])'
    BY <1>16, <1>17 DEF PlanHolds
  <2>3. ~ closed'[u]
    <3> SUFFICES ASSUME closed[u] PROVE FALSE
      BY <1>5
    <3>1. list = <<>>
      BY <1>1, <1>5, EntersEmpty
    <3> QED
      BY <1>8, <1>9, <3>1
  <2> QED
    BY <1>16, <1>17, <2>1, <2>2, <2>3 DEF LocalKept
<1>21. Ahead(call[c]) = 0 /\ Reserved(call[c]) = 0 /\ Behind(call[c]) = 0
  BY <1>5 DEF Ahead, Reserved, Behind
<1>22. Ahead(call'[c]) = size /\ Reserved(call'[c]) = 0 /\ BehindAt(bytes', call'[c]) = 0
  BY <1>16, <1>17 DEF Ahead, Reserved, BehindAt
<1>23. /\ bytes'[u] = bytes[u] + (- size) /\ - size \in Int /\ size \in Int
       /\ Ahead(call'[c]) = Ahead(call[c]) + size
       /\ Reserved(call'[c]) = Reserved(call[c]) + 0
       /\ BehindAt(bytes', call'[c]) = Behind(call[c]) + 0
       /\ total' = total + (- size) + size - 0
       /\ (- size) + 0 - 0 <= 0
  BY <1>5, <1>7, <1>11, <1>17, <1>21, <1>22
<1> QED
  BY <1>18, <1>19, <1>20, <1>23, StepKeeps

LEMMA ReleaseStep ==
  ASSUME CacheInv, NEW c \in Calls, Release(c)
  PROVE  CacheInv'
<1>1. PICK q : q = call[c]
  OBVIOUS
<1>2. PICK u : u = q.user
  OBVIOUS
<1>3. /\ q.pc = "release" /\ total' = total - q.size /\ Return(c)
      /\ entries' = entries /\ bytes' = bytes /\ closed' = closed
  BY <1>1 DEF Release
<1>4. CacheType
  BY DEF CacheInv
<1>5. q \in DeleteCall /\ u \in Users
  BY <1>1, <1>2, <1>3, <1>4, KindOfCall DEF CacheType, CallKinds, DeleteCall
<1>6. q.size \in Nat /\ total \in Int /\ bytes[u] \in Nat
  BY <1>4, <1>5 DEF CacheType, DeleteCall
<1>7. /\ call'[c] = Idle /\ \A d \in Calls \ {c} : call'[d] = call[d]
      /\ call' \in [Calls -> CallKinds]
      /\ Ahead(call'[c]) = 0 /\ Reserved(call'[c]) = 0 /\ BehindAt(bytes', call'[c]) = 0
      /\ PlanHolds(call[c])'
  BY <1>3, <1>4, Returns
<1>8. CacheType'
  BY <1>3, <1>4, <1>6, <1>7 DEF CacheType, CallKinds
<1>9. Frame(c, u)
  BY <1>1, <1>2, <1>3, <1>7, HoldsMutex DEF Frame, Idle
<1>10. LocalKept(c, u)
  <2>1. ListExact(u)'
    BY <1>3, <1>5 DEF CacheInv, ListsExact, ListExact
  <2>2. closed'[u] => entries'[u] = <<>>
    <3> SUFFICES ASSUME closed[u] PROVE entries[u] = <<>>
      BY <1>3
    <3>1. \A d \in Calls \ {c} : call[d].pc # "idle" => call[d].user # u
      BY <1>1, <1>2, <1>3, HoldsMutex
    <3> QED
      BY <1>1, <1>3, <1>5, <3>1 DEF CacheInv, ClosedEmpty
  <2> QED
    BY <1>7, <2>1, <2>2 DEF LocalKept, Idle
<1>11. Ahead(call[c]) = q.size /\ Reserved(call[c]) = 0 /\ Behind(call[c]) = 0
  BY <1>1, <1>3 DEF Ahead, Reserved, Behind
<1>12. /\ bytes'[u] = bytes[u] + 0
       /\ Ahead(call'[c]) = Ahead(call[c]) + (- q.size) /\ - q.size \in Int
       /\ Reserved(call'[c]) = Reserved(call[c]) + 0
       /\ BehindAt(bytes', call'[c]) = Behind(call[c]) + 0
       /\ total' = total + 0 + (- q.size) - 0
       /\ 0 + 0 - 0 <= 0
  BY <1>3, <1>6, <1>7, <1>11
<1> QED
  BY <1>5, <1>8, <1>9, <1>10, <1>12, StepKeeps

LEMMA BeginCloseStep ==
  ASSUME CacheInv, NEW c \in Calls, NEW u \in Users, BeginClose(c, u)
  PROVE  CacheInv'
<1>1. PICK q : q = [pc |-> "subtract", user |-> u]
  OBVIOUS
<1>2. /\ call[c].pc = "idle" /\ Unlocked(u)
      /\ closed' = [closed EXCEPT ![u] = TRUE] /\ call' = [call EXCEPT ![c] = q]
      /\ entries' = entries /\ bytes' = bytes /\ total' = total
  BY <1>1 DEF BeginClose, MayEnter
<1>3. CacheType
  BY DEF CacheInv
<1>4. q \in CloseCall /\ q.pc = "subtract" /\ q.user = u
  BY <1>1 DEF CloseCall
<1>5. /\ closed'[u] = TRUE
      /\ call'[c] = q /\ \A d \in Calls \ {c} : call'[d] = call[d]
  BY <1>2, <1>3 DEF CacheType
<1>6. CacheType'
  BY <1>2, <1>3, <1>4 DEF CacheType
<1>7. Frame(c, u)
  BY <1>2, <1>3, <1>4, <1>5 DEF Frame, Unlocked, CacheType
<1>8. LocalKept(c, u)
  <2>1. ListExact(u)'
    BY <1>2 DEF CacheInv, ListsExact, ListExact
  <2>2. PlanHolds(call[c])'
    BY <1>4, <1>5 DEF PlanHolds
  <2> QED
    BY <1>4, <1>5, <2>1, <2>2 DEF LocalKept
<1>9. Ahead(call[c]) = 0 /\ Reserved(call[c]) = 0 /\ Behind(call[c]) = 0
  BY <1>2 DEF Ahead, Reserved, Behind
<1>10. Ahead(call'[c]) = 0 /\ Reserved(call'[c]) = 0 /\ BehindAt(bytes', call'[c]) = 0
  BY <1>4, <1>5 DEF Ahead, Reserved, BehindAt
<1>11. /\ bytes'[u] = bytes[u] + 0
       /\ Ahead(call'[c]) = Ahead(call[c]) + 0
       /\ Reserved(call'[c]) = Reserved(call[c]) + 0
       /\ BehindAt(bytes', call'[c]) = Behind(call[c]) + 0
       /\ total' = total + 0 + 0 - 0
       /\ 0 + 0 - 0 <= 0
  BY <1>2, <1>3, <1>9, <1>10 DEF CacheType
<1> QED
  BY <1>6, <1>7, <1>8, <1>11, StepKeeps

LEMMA SubtractStep ==
  ASSUME CacheInv, NEW c \in Calls, Subtract(c)
  PROVE  CacheInv'
<1>1. PICK q : q = call[c]
  OBVIOUS
<1>2. PICK u : u = q.user
  OBVIOUS
<1>3. PICK r : r = [q EXCEPT !.pc = "clear"]
  OBVIOUS
<1>4. /\ q.pc = "subtract" /\ total' = total - bytes[u]
      /\ call' = [call EXCEPT ![c] = r]
      /\ entries' = entries /\ bytes' = bytes /\ closed' = closed
  BY <1>1, <1>2, <1>3 DEF Subtract
<1>5. CacheType
  BY DEF CacheInv
<1>6. q \in CloseCall /\ u \in Users
  BY <1>1, <1>2, <1>4, <1>5, KindOfCall DEF CacheType, CallKinds, CloseCall
<1>7. r \in CloseCall /\ r.pc = "clear" /\ r.user = u
  BY <1>2, <1>3, <1>6 DEF CloseCall
<1>8. bytes[u] \in Nat /\ bytes[u] \in Int /\ total \in Int
  BY <1>5, <1>6 DEF CacheType
<1>9. call'[c] = r /\ \A d \in Calls \ {c} : call'[d] = call[d]
  BY <1>4, <1>5 DEF CacheType
<1>10. CacheType'
  BY <1>4, <1>5, <1>7, <1>8 DEF CacheType
<1>11. Frame(c, u)
  BY <1>1, <1>2, <1>4, <1>7, <1>9, HoldsMutex DEF Frame
<1>12. closed[u]
  BY <1>1, <1>2, <1>4 DEF CacheInv, ClosedEmpty
<1>13. LocalKept(c, u)
  <2>1. ListExact(u)'
    BY <1>4, <1>6 DEF CacheInv, ListsExact, ListExact
  <2>2. PlanHolds(call[c])'
    BY <1>7, <1>9 DEF PlanHolds
  <2> QED
    BY <1>4, <1>7, <1>9, <1>12, <2>1, <2>2 DEF LocalKept
<1>14. Ahead(call[c]) = 0 /\ Reserved(call[c]) = 0 /\ Behind(call[c]) = 0
  BY <1>1, <1>4 DEF Ahead, Reserved, Behind
<1>15. /\ Ahead(call'[c]) = 0 /\ Reserved(call'[c]) = 0
       /\ BehindAt(bytes', call'[c]) = bytes[u]
  BY <1>4, <1>7, <1>9 DEF Ahead, Reserved, BehindAt
<1>16. PICK b : b = bytes[u]
  OBVIOUS
<1>17. b \in Int /\ bytes'[u] = bytes[u] + 0
  BY <1>4, <1>8, <1>16
<1>18. /\ Ahead(call'[c]) = Ahead(call[c]) + 0
       /\ Reserved(call'[c]) = Reserved(call[c]) + 0
  BY <1>14, <1>15
<1>19. BehindAt(bytes', call'[c]) = Behind(call[c]) + b
  BY <1>14, <1>15, <1>16, <1>17
<1>20. total' = total + 0 + 0 - b /\ 0 + 0 - b <= 0
  BY <1>4, <1>8, <1>16
<1> QED
  BY <1>6, <1>10, <1>11, <1>13, <1>17, <1>18, <1>19, <1>20, StepKeeps

LEMMA ClearStep ==
  ASSUME CacheInv, NEW c \in Calls, Clear(c)
  PROVE  CacheInv'
<1>1. PICK q : q = call[c]
  OBVIOUS
<1>2. PICK u : u = q.user
  OBVIOUS
<1>3. /\ q.pc = "clear" /\ Return(c) /\ closed' = closed /\ total' = total
      /\ entries' = [entries EXCEPT ![u] = <<>>] /\ bytes' = [bytes EXCEPT ![u] = 0]
  BY <1>1, <1>2 DEF Clear
<1>4. CacheType
  BY DEF CacheInv
<1>5. q \in CloseCall /\ u \in Users
  BY <1>1, <1>2, <1>3, <1>4, KindOfCall DEF CacheType, CallKinds, CloseCall
<1>6. bytes[u] \in Nat /\ bytes[u] \in Int /\ total \in Int
  BY <1>4, <1>5 DEF CacheType
<1>7. /\ call'[c] = Idle /\ \A d \in Calls \ {c} : call'[d] = call[d]
      /\ call' \in [Calls -> CallKinds]
      /\ Ahead(call'[c]) = 0 /\ Reserved(call'[c]) = 0 /\ BehindAt(bytes', call'[c]) = 0
      /\ PlanHolds(call[c])'
  BY <1>3, <1>4, Returns
<1>8. entries'[u] = <<>> /\ bytes'[u] = 0
  BY <1>3, <1>4, <1>5 DEF CacheType
<1>9. CacheType'
  <2>1. <<>> \in Seq(Entry)
    BY EmptySeq
  <2> QED
    BY <1>3, <1>4, <1>7, <2>1 DEF CacheType, CallKinds
<1>10. Frame(c, u)
  BY <1>1, <1>2, <1>3, <1>4, <1>7, HoldsMutex DEF Frame, Idle, CacheType
<1>11. LocalKept(c, u)
  <2>1. Distinct(<<>>) /\ Cached(<<>>) = {}
    BY DEF Distinct, Cached
  <2>2. ListExact(u)'
    BY <1>8, <2>1, SizeEmpty, LimitsAssumption DEF ListExact
  <2> QED
    BY <1>7, <1>8, <2>2 DEF LocalKept, Idle
<1>12. Ahead(call[c]) = 0 /\ Reserved(call[c]) = 0 /\ Behind(call[c]) = bytes[u]
  BY <1>1, <1>2, <1>3 DEF Ahead, Reserved, Behind
<1>13. PICK b : b = - bytes[u]
  OBVIOUS
<1>14. b \in Int /\ bytes'[u] = bytes[u] + b
  BY <1>6, <1>8, <1>13
<1>15. /\ Ahead(call'[c]) = Ahead(call[c]) + 0
       /\ Reserved(call'[c]) = Reserved(call[c]) + 0
  BY <1>7, <1>12
<1>16. BehindAt(bytes', call'[c]) = Behind(call[c]) + b
  BY <1>6, <1>7, <1>12, <1>13
<1>17. total' = total + b + 0 - b /\ b + 0 - b <= 0
  BY <1>3, <1>6, <1>14
<1> QED
  BY <1>5, <1>9, <1>10, <1>11, <1>14, <1>15, <1>16, <1>17, StepKeeps

-----------------------------------------------------------------------------
(* The theorems.                                                           *)

LEMMA InitHolds == Init => CacheInv
<1> SUFFICES ASSUME Init PROVE CacheInv
  OBVIOUS
<1>1. /\ entries = [u \in Users |-> <<>>] /\ bytes = [u \in Users |-> 0]
      /\ closed = [u \in Users |-> FALSE] /\ total = 0 /\ call = [c \in Calls |-> Idle]
  BY DEF Init
<1>2. Idle.pc = "idle"
  BY DEF Idle
<1>3. CacheType
  BY <1>1, EmptySeq DEF CacheType
<1>4. Mutex /\ PlansHold /\ ClosedEmpty
  BY <1>1, <1>2 DEF Mutex, PlansHold, PlanHolds, ClosedEmpty
<1>5. ListsExact
  <2>1. Distinct(<<>>) /\ Cached(<<>>) = {}
    BY DEF Distinct, Cached
  <2>2. ASSUME NEW u \in Users PROVE ListExact(u)
    <3>1. entries[u] = <<>> /\ bytes[u] = 0
      BY <1>1
    <3>2. 0 <= UserLimit
      BY LimitsAssumption
    <3> QED
      BY <2>1, <3>1, <3>2, SizeEmpty DEF ListExact
  <2> QED
    BY <2>2 DEF ListsExact
<1>6. SumOf(bytes) = 0
  BY <1>1, <1>3, SumZero DEF CacheType
<1>7. AheadSum = 0 /\ ReservedSum = 0 /\ BehindSum = 0
  <2>1. Ahead(Idle) = 0 /\ Reserved(Idle) = 0 /\ Behind(Idle) = 0
    BY <1>2 DEF Ahead, Reserved, Behind
  <2>2. /\ [c \in Calls |-> Ahead(call[c])] = [c \in Calls |-> 0]
        /\ [c \in Calls |-> Reserved(call[c])] = [c \in Calls |-> 0]
        /\ [c \in Calls |-> Behind(call[c])] = [c \in Calls |-> 0]
    BY <1>1, <2>1
  <2>3. SumOf([c \in Calls |-> 0]) = 0
    <3>1. [c \in Calls |-> 0] \in [Calls -> Nat]
      OBVIOUS
    <3> QED
      BY <3>1, SumZero
  <2> QED
    BY <2>2, <2>3 DEF AheadSum, ReservedSum, BehindSum
<1>8. TotalExact /\ ProcessBudget
  BY <1>1, <1>6, <1>7, LimitsAssumption
     DEF TotalExact, ProcessBudget, Settled, AheadSum, ReservedSum, BehindSum
<1> QED
  BY <1>3, <1>4, <1>5, <1>8 DEF CacheInv

LEMMA NextHolds == CacheInv /\ [Next]_vars => CacheInv'
<1> SUFFICES ASSUME CacheInv, [Next]_vars PROVE CacheInv'
  OBVIOUS
<1>1. ASSUME NEW c \in Calls, Enter(c) PROVE CacheInv'
  BY <1>1, GetStep, BeginPutStep, BeginDeleteStep, BeginCloseStep DEF Enter
<1>2. ASSUME NEW c \in Calls, Step(c) PROVE CacheInv'
  BY <1>2, ReserveStep, RollbackStep, CommitStep, ReleaseStep, SubtractStep, ClearStep
     DEF Step
<1>3. ASSUME UNCHANGED vars PROVE CacheInv'
  <2>1. /\ entries' = entries /\ bytes' = bytes /\ closed' = closed
        /\ total' = total /\ call' = call
    BY <1>3 DEF vars
  <2> QED
    BY <2>1 DEF CacheInv, CacheType, Mutex, ListsExact, ListExact, PlansHold, PlanHolds,
                ClosedEmpty, TotalExact, ProcessBudget, Settled, Behind
<1> QED
  BY <1>1, <1>2, <1>3 DEF Next

(* The caches' invariant: one call per cache, lists and plans that fit,    *)
(* an exact counter, and nothing settled above the process budget.         *)
THEOREM CacheInductive == Spec => []CacheInv
<1> QED
  BY InitHolds, NextHolds, PTL DEF Spec

(* The shared counter is exact up to the calls in flight and every c.bytes *)
(* is the sum of its list (Put, Delete, Close of profiler_cache.go).       *)
THEOREM CounterIsExact == Spec => []AccountingExact
<1>1. CacheInv => AccountingExact
  BY DEF CacheInv, TotalExact, ListsExact, ListExact, AccountingExact
<1> QED
  BY <1>1, CacheInductive, PTL

(* Racing inserts never settle above the process budget, without a lock    *)
(* over the caches (processProfileCacheBytes.Add in Put).                  *)
THEOREM ProcessStaysInBudget == Spec => []ProcessBudget
<1>1. CacheInv => ProcessBudget
  BY DEF CacheInv
<1> QED
  BY <1>1, CacheInductive, PTL

(* The eviction loop of Put keeps every user's cache within its budget and *)
(* every key in one entry.                                                 *)
THEOREM UsersStayInBudget == Spec => []UserBudget
<1>1. CacheInv => UserBudget
  BY DEF CacheInv, ListsExact, ListExact, Distinct, UserBudget
<1> QED
  BY <1>1, CacheInductive, PTL

(* A Put that comes after Close leaves nothing behind.                     *)
THEOREM ClosedStaysEmpty == Spec => []ClosedHoldsNothing
<1>1. CacheInv => ClosedHoldsNothing
  <2> SUFFICES ASSUME CacheInv, NEW u \in Users, closed[u], Unlocked(u)
               PROVE  entries[u] = <<>> /\ bytes[u] = 0
    BY DEF ClosedHoldsNothing
  <2>1. entries[u] = <<>>
    BY EntersEmpty
  <2>2. Cached(<<>>) = {}
    BY DEF Cached
  <2> QED
    BY <2>1, <2>2, SizeEmpty DEF CacheInv, ListsExact, ListExact
<1> QED
  BY <1>1, CacheInductive, PTL

(* An insert evicts no entry its caller asked to keep (errWouldEvict):     *)
(* the plan made under the mutex still holds when the list changes.        *)
THEOREM KeptEntriesSurvive == Spec => KeepHonoured
<1> DEFINE Kept == \A c \in Calls, u \in Users :
                     /\ call[c].pc = "commit" /\ call[c].user = u
                     /\ call'[c].pc = "idle"
                     => call[c].keep \cap KeysOf(u) \subseteq KeysOf(u)'
<1>1. CacheInv /\ [Next]_vars => [Kept]_vars
  <2> SUFFICES ASSUME CacheInv, Next, NEW c \in Calls, NEW u \in Users,
                      call[c].pc = "commit", call[c].user = u, call'[c].pc = "idle",
                      NEW k \in call[c].keep \cap KeysOf(u)
               PROVE  k \in KeysOf(u)'
    OBVIOUS
  <2>1. PICK q : q = call[c]
    OBVIOUS
  <2>2. CacheType
    BY DEF CacheInv
  <2>3. Commit(c)
    <3>1. PICK d \in Calls : Enter(d) \/ Step(d)
      BY DEF Next
    <3>2. CASE d # c
      <4>1. call'[c] = call[c] \/ Enter(d) \/ Step(d)
        BY <3>1
      <4>2. call'[c] = call[c]
        BY <2>2, <3>1, <3>2
           DEF Enter, Step, Get, BeginPut, BeginDelete, BeginClose, Reserve, Rollback,
               Commit, Release, Subtract, Clear, Return, CacheType
      <4> QED
        BY <4>2
    <3>3. CASE d = c
      BY <3>1, <3>3
         DEF Enter, Step, Get, BeginPut, BeginDelete, BeginClose, MayEnter, Reserve,
             Rollback, Release, Subtract, Clear
    <3> QED
      BY <3>2, <3>3
  <2>4. q \in PutCall /\ q.pc = "commit" /\ q.user = u
    BY <2>1, <2>2, KindOfCall DEF CacheType, CallKinds
  <2>5. PICK list : list = entries[u]
    OBVIOUS
  <2>6. entries'[u] = Replaced(list, q.evict, q.key, q.size)
    BY <2>1, <2>2, <2>3, <2>4, <2>5 DEF Commit, CacheType
  <2>7. list \in Seq(Entry) /\ Distinct(list) /\ PlanHolds(q)
    BY <2>1, <2>2, <2>5 DEF CacheInv, CacheType, ListsExact, ListExact, PlansHold
  <2>8. q.evict \in 0..Len(list) /\ ~ WouldEvict(list, q.evict, q.key, q.keep)
    BY <2>4, <2>5, <2>7 DEF PlanHolds
  <2>9. PICK new : new = [key |-> q.key, size |-> q.size]
    OBVIOUS
  <2>10. Cached(entries'[u]) = (Cached(list) \ Gone(list, q.key, q.evict)) \cup {new}
    BY <2>4, <2>6, <2>7, <2>8, <2>9, ReplacedSpec DEF PutCall
  <2>11. PICK e \in Cached(list) : e.key = k
    BY <2>5 DEF KeysOf, Cached
  <2>12. \E x \in Cached(entries'[u]) : x.key = k
    <3>1. CASE k = q.key
      BY <2>9, <2>10, <3>1
    <3>2. CASE k # q.key
      <4>1. e \notin Gone(list, q.key, q.evict)
        BY <2>1, <2>8, <2>11, <3>2 DEF Gone, WouldEvict
      <4> QED
        BY <2>10, <2>11, <4>1
    <3> QED
      BY <3>1, <3>2
  <2> QED
    BY <2>12 DEF KeysOf, Cached
<1> QED
  BY <1>1, CacheInductive, PTL DEF Spec, KeepHonoured
===============================================================================
