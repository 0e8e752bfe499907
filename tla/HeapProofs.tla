----------------------------- MODULE HeapProofs -----------------------------
(***************************************************************************)
(* Proofs about kernel memory, for every number of pages and every size    *)
(* asked for: the page allocator under all its callers (the free list is   *)
(* exact, first fit implements PageSpec), then the ring of kmalloc on top  *)
(* of it (sorted, merged, every block free or claimed once), and from both *)
(* the partition of memory.                                                *)
(***************************************************************************)
EXTENDS Heap, FiniteSetTheorems, SequenceTheorems, WellFoundedInduction, TLAPS

Page == 0 .. NPages - 1
run(p, n) == p .. p + n - 1

\* Blocks of pages, as a function from their heads to their lengths.
BlockMap(f) ==
    /\ DOMAIN f \in SUBSET Page /\ f \in [DOMAIN f -> Nat \ {0}]
    /\ \A p \in DOMAIN f : p + f[p] <= NPages
Apart(f) == \A p, q \in DOMAIN f : p < q => p + f[p] < q
Cover(f) == UNION {run(p, f[p]) : p \in DOMAIN f}

\* A list that names each element of S once, in rising order.
Lists(l, S) ==
    /\ l \in Seq(Int) /\ S = {l[i] : i \in 1 .. Len(l)}
    /\ \A i, j \in 1 .. Len(l) : i < j => l[i] < l[j]

\* The page allocator: the list has the heads of the blocks, PG_property marks them,
\* and nr_free counts their pages.
PmOK(m) ==
    /\ m = [free_list |-> m.free_list, property |-> m.property, flag |-> m.flag,
            nr_free |-> m.nr_free]
    /\ BlockMap(m.property) /\ Apart(m.property) /\ Lists(m.free_list, DOMAIN m.property)
    /\ m.flag = DOMAIN m.property /\ m.nr_free = Cardinality(Cover(m.property))

-----------------------------------------------------------------------------
(* Numbers and lists *)

LEMMA LeastNumber ==
    ASSUME NEW S \in SUBSET Nat, S # {}
    PROVE  \E k \in S : \A j \in S : k <= j
<1>1. PICK k \in S : \A j \in S : ~(<<j, k>> \in OpToRel(<, Nat))
  BY NatLessThanWellFounded, WFMin
<1>2. \A j \in S : ~(j < k)
  BY <1>1 DEF OpToRel
<1> QED BY <1>2

LEMMA ListFacts ==
    ASSUME NEW l \in Seq(Int)
    PROVE  Len(l) \in Nat /\ DOMAIN l = 1 .. Len(l) /\ \A k \in 1 .. Len(l) : l[k] \in Int
OBVIOUS

\* What the two list primitives return.
Added(r, l, n, i, p) ==
    /\ r \in Seq(Int) /\ Len(r) = n + 1
    /\ \A k \in 1 .. (n + 1) : /\ k < i => r[k] = l[k]
                               /\ k = i => r[k] = p
                               /\ k > i => r[k] = l[k - 1]

LEMMA AddBefore ==
    ASSUME NEW l \in Seq(Int), NEW n \in Nat, n = Len(l), NEW i \in 1 .. (n + 1), NEW p \in Int,
           NEW r, r = list_add_before(l, i, p)
    PROVE  Added(r, l, n, i, p)
<1>1. DOMAIN l = 1 .. n /\ \A k \in 1 .. n : l[k] \in Int
  BY ListFacts
<1>2. \A k \in 1 .. (n + 1) : (IF k < i THEN l[k] ELSE IF k = i THEN p ELSE l[k - 1]) \in Int
  BY <1>1
<1>3. r \in [1 .. (n + 1) -> Int]
  BY <1>2 DEF list_add_before
<1>4. r \in Seq(Int) /\ Len(r) = n + 1
  BY SMTT(30), <1>3, SeqDef, LenProperties
<1>5. \A k \in 1 .. (n + 1) : r[k] = IF k < i THEN l[k] ELSE IF k = i THEN p ELSE l[k - 1]
  BY DEF list_add_before
<1> QED BY <1>4, <1>5 DEF Added

LEMMA Del ==
    ASSUME NEW l \in Seq(Int), NEW i \in 1 .. Len(l)
    PROVE  LET r == list_del(l, i)
           IN  /\ r \in Seq(Int) /\ Len(r) = Len(l) - 1
               /\ \A k \in 1 .. (Len(l) - 1) : r[k] = IF k < i THEN l[k] ELSE l[k + 1]
<1>1. Len(l) \in Nat /\ DOMAIN l = 1 .. Len(l) /\ \A k \in 1 .. Len(l) : l[k] \in Int
  BY ListFacts
<1>2. \A k \in 1 .. (Len(l) - 1) : (IF k < i THEN l[k] ELSE l[k + 1]) \in Int
  BY <1>1
<1>3. list_del(l, i) \in [1 .. (Len(l) - 1) -> Int]
  BY <1>2 DEF list_del
<1>4. Len(l) - 1 \in Nat
  BY <1>1
<1> QED BY <1>1, <1>3, <1>4, SeqDef, LenProperties DEF list_del

\* An element enters a rising list at its place, or leaves it.
LEMMA RisingAdd ==
    ASSUME NEW l, NEW S, Lists(l, S), NEW i \in 1 .. (Len(l) + 1), NEW p \in Int,
           \A k \in 1 .. Len(l) : (k < i => l[k] < p) /\ (k >= i => p < l[k])
    PROVE  Lists(list_add_before(l, i, p), S \cup {p})
<1>1. l \in Seq(Int)
  BY DEF Lists
<1>2. PICK n \in Nat : n = Len(l)
  BY <1>1
<1>3. PICK r : r = list_add_before(l, i, p)
  OBVIOUS
<1>i. i \in 1 .. (n + 1)
  BY <1>2
<1>a. Added(r, l, n, i, p)
  BY <1>1, <1>2, <1>3, <1>i, AddBefore
<1>4. /\ r \in Seq(Int) /\ Len(r) = n + 1
      /\ \A k \in 1 .. (n + 1) : /\ k < i => r[k] = l[k]
                                 /\ k = i => r[k] = p
                                 /\ k > i => r[k] = l[k - 1]
  BY <1>a DEF Added
<1>5. \A k \in 1 .. n : l[k] \in Int
  BY <1>1, <1>2, ListFacts
<1>6. i \in 1 .. (n + 1) /\ \A k \in 1 .. n : (k < i => l[k] < p) /\ (k >= i => p < l[k])
  BY <1>2
<1>7. S = {l[k] : k \in 1 .. n} /\ \A k, m \in 1 .. n : k < m => l[k] < l[m]
  BY <1>2 DEF Lists
<1>8. \A k, m \in 1 .. (n + 1) : k < m => r[k] < r[m]
  <2> SUFFICES ASSUME NEW k \in 1 .. (n + 1), NEW m \in 1 .. (n + 1), k < m PROVE r[k] < r[m]
    OBVIOUS
  <2>1. CASE m < i
    <3>1. r[k] = l[k] /\ r[m] = l[m] /\ k \in 1 .. n /\ m \in 1 .. n
      BY <1>4, <1>6, <2>1
    <3> QED BY <3>1, <1>7
  <2>2. CASE m = i
    <3>1. r[k] = l[k] /\ r[m] = p /\ k \in 1 .. n /\ k < i
      BY <1>4, <1>6, <2>2
    <3> QED BY <3>1, <1>6
  <2>3. CASE k = i
    <3>1. r[k] = p /\ r[m] = l[m - 1] /\ m - 1 \in 1 .. n /\ m - 1 >= i
      BY <1>4, <1>6, <2>3
    <3> QED BY <3>1, <1>6
  <2>4. CASE k < i /\ i < m
    <3>1. r[k] = l[k] /\ r[m] = l[m - 1] /\ m - 1 \in 1 .. n /\ k \in 1 .. n /\ k < i /\ m - 1 >= i
      BY <1>4, <1>6, <2>4
    <3>2. l[k] < p /\ p < l[m - 1] /\ l[k] \in Int /\ l[m - 1] \in Int
      BY <3>1, <1>5, <1>6
    <3> QED BY <3>1, <3>2
  <2>5. CASE i < k
    <3>1. m > i /\ m - 1 \in 1 .. n /\ k - 1 \in 1 .. n /\ k - 1 < m - 1
      BY <1>6, <2>5
    <3>2. r[k] = l[k - 1] /\ r[m] = l[m - 1]
      BY <1>4, <2>5, <3>1
    <3> QED BY <3>1, <3>2, <1>7
  <2> QED BY <1>6, <2>1, <2>2, <2>3, <2>4, <2>5
<1>9. S \cup {p} = {r[k] : k \in 1 .. (n + 1)}
  <2>1. ASSUME NEW k \in 1 .. (n + 1) PROVE r[k] \in S \cup {p}
    <3>1. CASE k < i
      <4>1. k \in 1 .. n /\ r[k] = l[k]
        BY <1>4, <1>6, <3>1
      <4> QED BY <4>1, <1>7
    <3>2. CASE k = i
      BY <1>4, <3>2
    <3>3. CASE k > i
      <4>1. k - 1 \in 1 .. n /\ r[k] = l[k - 1]
        BY <1>4, <1>6, <3>3
      <4> QED BY <4>1, <1>7
    <3> QED BY <1>6, <3>1, <3>2, <3>3
  <2>2. ASSUME NEW k \in 1 .. n PROVE \E m \in 1 .. (n + 1) : r[m] = l[k]
    <3>1. CASE k < i
      <4>1. k \in 1 .. (n + 1) /\ r[k] = l[k]
        BY <1>4, <3>1
      <4> QED BY <4>1
    <3>2. CASE k >= i
      <4>1. k + 1 \in 1 .. (n + 1) /\ ~(k + 1 < i) /\ k + 1 # i /\ (k + 1) - 1 = k
        BY <1>6, <3>2
      <4>2. r[k + 1] = l[k]
        BY <1>4, <4>1
      <4> QED BY <4>1, <4>2
    <3> QED BY <1>6, <3>1, <3>2
  <2>3. r[i] = p
    BY <1>4, <1>6
  <2> QED BY <2>1, <2>2, <2>3, <1>6, <1>7
<1> QED BY <1>3, <1>4, <1>8, <1>9 DEF Lists

LEMMA RisingDel ==
    ASSUME NEW l, NEW S, Lists(l, S), NEW i \in 1 .. Len(l)
    PROVE  /\ Lists(list_del(l, i), S \ {l[i]})
           /\ Len(list_del(l, i)) = Len(l) - 1
           /\ \A k \in 1 .. (Len(l) - 1) : /\ k < i => list_del(l, i)[k] < l[i]
                                           /\ k >= i => l[i] < list_del(l, i)[k]
<1>1. l \in Seq(Int)
  BY DEF Lists
<1>2. PICK n \in Nat : n = Len(l)
  BY <1>1
<1>3. PICK r : r = list_del(l, i)
  OBVIOUS
<1>4. /\ r \in Seq(Int) /\ Len(r) = n - 1
      /\ \A k \in 1 .. (n - 1) : r[k] = IF k < i THEN l[k] ELSE l[k + 1]
  BY <1>1, <1>2, <1>3, Del
<1>5. \A k \in 1 .. n : l[k] \in Int
  BY <1>1, <1>2, ListFacts
<1>6. i \in 1 .. n
  BY <1>2
<1>7. S = {l[k] : k \in 1 .. n} /\ \A k, m \in 1 .. n : k < m => l[k] < l[m]
  BY <1>2 DEF Lists
<1>8. ASSUME NEW k \in 1 .. (n - 1)
      PROVE  \E m \in 1 .. n : /\ r[k] = l[m] /\ m # i /\ (k < i => m = k) /\ (k >= i => m = k + 1)
  BY SMTT(30), <1>4, <1>6
<1>9. \A k, m \in 1 .. (n - 1) : k < m => r[k] < r[m]
  <2> SUFFICES ASSUME NEW k \in 1 .. (n - 1), NEW m \in 1 .. (n - 1), k < m PROVE r[k] < r[m]
    OBVIOUS
  <2>1. PICK a \in 1 .. n : r[k] = l[a] /\ (k < i => a = k) /\ (k >= i => a = k + 1)
    BY <1>8
  <2>2. PICK b \in 1 .. n : r[m] = l[b] /\ (m < i => b = m) /\ (m >= i => b = m + 1)
    BY <1>8
  <2>3. a < b
    BY <1>6, <2>1, <2>2
  <2> QED BY <2>1, <2>2, <2>3, <1>7
<1>10. S \ {l[i]} = {r[k] : k \in 1 .. (n - 1)}
  <2>1. ASSUME NEW k \in 1 .. (n - 1) PROVE r[k] \in S \ {l[i]}
    <3>1. PICK m \in 1 .. n : r[k] = l[m] /\ m # i
      BY <1>8
    <3>2. l[m] # l[i]
      BY <1>5, <1>6, <1>7, <3>1
    <3> QED BY <3>1, <3>2, <1>7
  <2>2. ASSUME NEW m \in 1 .. n, l[m] # l[i] PROVE \E k \in 1 .. (n - 1) : r[k] = l[m]
    <3>1. CASE m < i
      <4>1. m \in 1 .. (n - 1) /\ r[m] = l[m]
        BY <1>4, <1>6, <3>1
      <4> QED BY <4>1
    <3>2. CASE m > i
      <4>1. m - 1 \in 1 .. (n - 1) /\ ~(m - 1 < i) /\ (m - 1) + 1 = m
        BY <1>6, <3>2
      <4>2. r[m - 1] = l[m]
        BY <1>4, <4>1
      <4> QED BY <4>1, <4>2
    <3>3. m # i
      BY <2>2
    <3> QED BY <1>6, <3>1, <3>2, <3>3
  <2>3. ASSUME NEW x \in S \ {l[i]} PROVE x \in {r[k] : k \in 1 .. (n - 1)}
    <3>1. PICK m \in 1 .. n : x = l[m]
      BY <1>7
    <3> QED BY <2>2, <3>1
  <2> QED BY <2>1, <2>3
<1>11. Lists(r, S \ {l[i]})
  BY <1>4, <1>9, <1>10 DEF Lists
<1>12. ASSUME NEW k \in 1 .. (n - 1) PROVE (k < i => r[k] < l[i]) /\ (k >= i => l[i] < r[k])
  <2>1. PICK m \in 1 .. n : r[k] = l[m] /\ (k < i => m = k) /\ (k >= i => m = k + 1)
    BY <1>8
  <2> QED BY <2>1, <1>6, <1>7
<1> QED BY <1>2, <1>3, <1>4, <1>11, <1>12

\* default_list_add keeps the list rising.
LEMMA ListAdd ==
    ASSUME NEW l, NEW S, Lists(l, S), NEW p \in Int, p \notin S
    PROVE  Lists(default_list_add(l, p), S \cup {p})
<1>1. l \in Seq(Int)
  BY DEF Lists
<1>2. PICK n \in Nat : n = Len(l)
  BY <1>1
<1>3. \A k \in 1 .. n : l[k] \in Int
  BY <1>1, <1>2, ListFacts
<1>4. S = {l[k] : k \in 1 .. n} /\ \A k, m \in 1 .. n : k < m => l[k] < l[m]
  BY <1>2 DEF Lists
<1> DEFINE above == {i \in 1 .. n : p < l[i]}
           at == CHOOSE i \in above \cup {n + 1} : \A j \in above : i <= j
<1>5. \E i \in above \cup {n + 1} : \A j \in above : i <= j
  <2>1. CASE above = {}
    BY <2>1
  <2>2. CASE above # {}
    <3>1. above \in SUBSET Nat
      OBVIOUS
    <3> HIDE DEF above
    <3>2. \E i \in above : \A j \in above : i <= j
      BY <2>2, <3>1, LeastNumber
    <3> QED BY <3>2
  <2> QED BY <2>1, <2>2
<1>6. at \in above \cup {n + 1} /\ \A j \in above : at <= j
  <2> HIDE DEF above
  <2> QED BY <1>5
<1>7. default_list_add(l, p) = list_add_before(l, at, p)
  BY <1>2 DEF default_list_add
<1> HIDE DEF at
<1>8. at \in 1 .. (n + 1)
  BY <1>6
<1>9. ASSUME NEW k \in 1 .. n PROVE (k < at => l[k] < p) /\ (k >= at => p < l[k])
  <2>1. CASE k < at
    <3>1. k \notin above
      BY <1>6, <1>8, <2>1
    <3>2. l[k] # p
      BY <1>4
    <3> QED BY <1>3, <1>8, <2>1, <3>1, <3>2
  <2>2. CASE k >= at
    <3>1. at \in 1 .. n /\ p < l[at]
      BY <1>6, <1>8, <2>2
    <3>2. l[at] < l[k] \/ at = k
      BY <1>4, <2>2, <3>1
    <3> QED BY <1>3, <1>8, <2>2, <3>1, <3>2
  <2> QED BY <1>8, <2>1, <2>2
<1>10. Lists(list_add_before(l, at, p), S \cup {p})
  <2> HIDE DEF above
  <2> QED BY <1>2, <1>8, <1>9, RisingAdd
<1> QED BY <1>7, <1>10

LEMMA RisingAppend ==
    ASSUME NEW l, NEW S, Lists(l, S), NEW p \in Int, \A x \in S : x < p
    PROVE  Lists(Append(l, p), S \cup {p})
<1>1. l \in Seq(Int)
  BY DEF Lists
<1>2. PICK n \in Nat : n = Len(l)
  BY <1>1
<1>3. PICK r : r = Append(l, p)
  OBVIOUS
<1>4. r \in Seq(Int) /\ Len(r) = n + 1 /\ r[n + 1] = p /\ \A k \in 1 .. n : r[k] = l[k]
  BY <1>1, <1>2, <1>3
<1>5. S = {l[k] : k \in 1 .. n} /\ \A k, m \in 1 .. n : k < m => l[k] < l[m]
  BY <1>2 DEF Lists
<1>6. S = {r[k] : k \in 1 .. n} /\ \A k, m \in 1 .. n : k < m => r[k] < r[m]
  BY <1>4, <1>5
<1>7. \A k, m \in 1 .. (n + 1) : k < m => r[k] < r[m]
  <2> SUFFICES ASSUME NEW k \in 1 .. (n + 1), NEW m \in 1 .. (n + 1), k < m PROVE r[k] < r[m]
    OBVIOUS
  <2>1. CASE m = n + 1
    <3>1. k \in 1 .. n
      BY <2>1
    <3>2. r[k] \in S
      BY <1>6, <3>1
    <3> QED BY <1>4, <2>1, <3>2
  <2>2. CASE m # n + 1
    <3>1. k \in 1 .. n /\ m \in 1 .. n
      BY <2>2
    <3> QED BY <1>6, <3>1
  <2> QED BY <2>1, <2>2
<1>8. 1 .. (n + 1) = (1 .. n) \cup {n + 1}
  OBVIOUS
<1>9. S \cup {p} = {r[k] : k \in 1 .. (n + 1)}
  BY <1>4, <1>6, <1>8
<1> QED BY <1>3, <1>4, <1>7, <1>9 DEF Lists

-----------------------------------------------------------------------------
(* Blocks of pages *)

LEMMA InRun ==
    ASSUME NEW p \in Int, NEW n \in Int, NEW x
    PROVE  x \in run(p, n) <=> x \in Int /\ p <= x /\ x < p + n
BY DEF run

LEMMA RunCard ==
    ASSUME NEW p \in Int, NEW n \in Nat
    PROVE  IsFiniteSet(run(p, n)) /\ Cardinality(run(p, n)) = n
<1>1. PICK e \in Int : e = p + n - 1
  OBVIOUS
<1>2. IsFiniteSet(p .. e) /\ Cardinality(p .. e) = IF p > e THEN 0 ELSE e - p + 1
  BY FS_Interval
<1>3. run(p, n) = p .. e
  BY <1>1 DEF run
<1> QED BY <1>1, <1>2, <1>3

LEMMA BlockFacts ==
    ASSUME NEW f, BlockMap(f), NEW p \in DOMAIN f
    PROVE  p \in Nat /\ f[p] \in Nat /\ f[p] > 0 /\ p + f[p] <= NPages
<1>1. p \in Page /\ f[p] \in Nat \ {0} /\ p + f[p] <= NPages
  BY DEF BlockMap
<1> QED BY <1>1, NPagesAssumption DEF Page

LEMMA InCover ==
    ASSUME NEW f, BlockMap(f), NEW x
    PROVE  x \in Cover(f) <=> x \in Int /\ \E p \in DOMAIN f : p <= x /\ x < p + f[p]
<1>1. ASSUME NEW p \in DOMAIN f
      PROVE  x \in run(p, f[p]) <=> x \in Int /\ p <= x /\ x < p + f[p]
  BY BlockFacts DEF run
<1>2. x \in Cover(f) <=> \E p \in DOMAIN f : x \in run(p, f[p])
  BY DEF Cover
<1> QED BY <1>1, <1>2

LEMMA CoverFinite ==
    ASSUME NEW f, BlockMap(f)
    PROVE  /\ Cover(f) \in SUBSET Page /\ IsFiniteSet(Cover(f))
           /\ Cardinality(Cover(f)) \in Nat
<1>1. ASSUME NEW x \in Cover(f) PROVE x \in Page
  <2>1. PICK p \in DOMAIN f : x \in Int /\ p <= x /\ x < p + f[p]
    BY InCover
  <2>2. p \in Nat /\ f[p] \in Nat /\ f[p] > 0 /\ p + f[p] <= NPages
    BY BlockFacts
  <2> QED BY <2>1, <2>2, NPagesAssumption DEF Page
<1>2. IsFiniteSet(Page)
  <2>1. 0 \in Int /\ NPages - 1 \in Int
    BY NPagesAssumption
  <2> QED BY <2>1, FS_Interval DEF Page
<1>3. Cover(f) \in SUBSET Page
  BY <1>1
<1> QED BY <1>2, <1>3, FS_Subset, FS_CardinalityType

\* A request that no block holds, or that is longer than nr_free, fits nowhere.
LEMMA Unfit ==
    ASSUME NEW f, BlockMap(f), Apart(f), NEW n \in Nat \ {0}, NEW b,
           n > Cardinality(Cover(f)) \/ \A p \in DOMAIN f : f[p] < n,
           b \in Int, run(b, n) \subseteq Cover(f)
    PROVE  FALSE
<1>1. CASE n > Cardinality(Cover(f))
  <2>1. Cardinality(run(b, n)) <= Cardinality(Cover(f))
    BY CoverFinite, FS_Subset
  <2> QED BY <1>1, <2>1, RunCard, CoverFinite
<1>2. CASE \A p \in DOMAIN f : f[p] < n
  <2>1. b \in run(b, n)
    BY InRun
  <2>2. PICK p \in DOMAIN f : p <= b /\ b < p + f[p]
    BY <2>1, InCover
  <2>3. p \in Nat /\ f[p] \in Nat /\ f[p] > 0 /\ f[p] < n
    BY <1>2, BlockFacts
  <2>4. PICK e \in Int : e = p + f[p]
    BY <2>3
  <2>5. e \in run(b, n)
    BY <2>2, <2>3, <2>4, InRun
  <2>6. PICK q \in DOMAIN f : q <= e /\ e < q + f[q]
    BY <2>5, InCover
  <2>7. q \in Nat /\ f[q] \in Nat
    BY BlockFacts
  <2>8. (p < q => p + f[p] < q) /\ (q < p => q + f[q] < p)
    BY DEF Apart
  <2> QED BY <2>2, <2>3, <2>4, <2>6, <2>7, <2>8
<1> QED BY <1>1, <1>2

\* The same map without n pages at the front of block p.
Taken(f, p, n, g) ==
    /\ BlockMap(g) /\ Apart(g) /\ run(p, n) \subseteq Cover(f) /\ Cover(g) = Cover(f) \ run(p, n)
    /\ DOMAIN g = (DOMAIN f \ {p}) \cup (IF f[p] = n THEN {} ELSE {p + n})

\* BlockMap from its parts.
LEMMA IsBlockMap ==
    ASSUME NEW D \in SUBSET Nat, NEW g, DOMAIN g = D, g = [x \in D |-> g[x]],
           \A x \in D : g[x] \in Nat /\ g[x] > 0 /\ x + g[x] <= NPages
    PROVE  BlockMap(g)
<1>1. \A x \in D : x \in Page
  BY NPagesAssumption DEF Page
<1> QED BY <1>1 DEF BlockMap

LEMMA TakeAll ==
    ASSUME NEW f, BlockMap(f), Apart(f), NEW p \in DOMAIN f, NEW g, g = drop(f, {p})
    PROVE  Taken(f, p, f[p], g)
<1>1. DOMAIN g = DOMAIN f \ {p} /\ \A x \in DOMAIN g : g[x] = f[x]
  BY DEF drop
<1>2. BlockMap(g)
  <2>1. \A x \in DOMAIN g : x \in Nat /\ g[x] \in Nat /\ g[x] > 0 /\ x + g[x] <= NPages
    BY <1>1, BlockFacts
  <2>2. g = [x \in DOMAIN g |-> g[x]]
    BY DEF drop
  <2> QED BY <2>1, <2>2, IsBlockMap
<1>3. Apart(g)
  BY <1>1 DEF Apart
<1>4. ASSUME NEW x PROVE /\ x \in run(p, f[p]) => x \in Cover(f)
                         /\ x \in Cover(g) <=> x \in Cover(f) /\ x \notin run(p, f[p])
  <2>1. x \in run(p, f[p]) <=> x \in Int /\ p <= x /\ x < p + f[p]
    BY BlockFacts, InRun
  <2>2. x \in Cover(f) <=> x \in Int /\ \E q \in DOMAIN f : q <= x /\ x < q + f[q]
    BY InCover
  <2>3. x \in Cover(g) <=> x \in Int /\ \E q \in DOMAIN g : q <= x /\ x < q + g[q]
    BY <1>2, InCover
  <2>4. ASSUME NEW q \in DOMAIN g, x \in Int, q <= x, x < q + f[q] PROVE ~(p <= x /\ x < p + f[p])
    <3>1. q \in DOMAIN f /\ q # p
      BY <1>1
    <3>2. p \in Nat /\ q \in Nat /\ f[p] \in Nat /\ f[q] \in Nat
      BY <3>1, BlockFacts
    <3>3. (p < q => p + f[p] < q) /\ (q < p => q + f[q] < p)
      BY <3>1 DEF Apart
    <3> QED BY <2>4, <3>1, <3>2, <3>3
  <2> QED BY <1>1, <2>1, <2>2, <2>3, <2>4
<1> QED BY <1>1, <1>2, <1>3, <1>4 DEF Taken

LEMMA TakeSome ==
    ASSUME NEW f, BlockMap(f), Apart(f), NEW p \in DOMAIN f, NEW n \in Nat \ {0}, n < f[p],
           NEW g, g = drop(put(f, p + n, f[p] - n), {p})
    PROVE  Taken(f, p, n, g)
<1>0. p \in Nat /\ f[p] \in Nat /\ f[p] > 0 /\ p + f[p] <= NPages
  BY BlockFacts
<1>1. PICK s \in Nat : s = p + n
  BY <1>0
<1>2. PICK v \in Nat : v = f[p] - n
  BY <1>0
<1>3. p # s /\ v > 0 /\ s + v = p + f[p] /\ p < s /\ s < p + f[p]
  BY <1>0, <1>1, <1>2
<1>4. s \notin DOMAIN f
  <2>1. s \in DOMAIN f => (p < s => p + f[p] < s)
    BY DEF Apart
  <2> QED BY <2>1, <1>0, <1>3
<1>5. g = drop(put(f, s, v), {p})
  BY <1>1, <1>2
<1>6. DOMAIN g = (DOMAIN f \cup {s}) \ {p} /\ g[s] = v /\ \A x \in (DOMAIN f \cup {s}) \ {p} : x # s => g[x] = f[x]
  BY <1>3, <1>5 DEF drop, put
<1>7. DOMAIN g = (DOMAIN f \ {p}) \cup {s} /\ \A x \in DOMAIN f \ {p} : g[x] = f[x]
  BY <1>3, <1>4, <1>6
<1>8. BlockMap(g)
  <2>1. ASSUME NEW x \in DOMAIN g PROVE x \in Nat /\ g[x] \in Nat /\ g[x] > 0 /\ x + g[x] <= NPages
    <3>1. CASE x = s
      BY <3>1, <1>0, <1>3, <1>6
    <3>2. CASE x # s
      BY <3>2, <1>7, BlockFacts
    <3> QED BY <3>1, <3>2
  <2>2. g = [x \in DOMAIN g |-> g[x]]
    BY DEF drop
  <2> QED BY <2>1, <2>2, IsBlockMap
\* A block other than p lies apart from p on one side of it.
<1>9. ASSUME NEW q \in DOMAIN f \ {p}
      PROVE  q \in Nat /\ f[q] \in Nat /\ (q + f[q] < p \/ p + f[p] < q)
  <2>1. q \in Nat /\ f[q] \in Nat
    BY BlockFacts
  <2>2. (p < q => p + f[p] < q) /\ (q < p => q + f[q] < p)
    BY DEF Apart
  <2> QED BY <1>0, <2>1, <2>2
<1>10. Apart(g)
  <2> SUFFICES ASSUME NEW x \in DOMAIN g, NEW y \in DOMAIN g, x < y PROVE x + g[x] < y
    BY DEF Apart
  <2>1. CASE x # s /\ y # s
    <3>1. x \in DOMAIN f /\ y \in DOMAIN f /\ g[x] = f[x]
      BY <2>1, <1>7
    <3> QED BY <3>1 DEF Apart
  <2>2. CASE x = s
    <3>1. y \in DOMAIN f \ {p} /\ g[x] = v /\ y # s
      BY <2>2, <1>1, <1>6, <1>7
    <3>2. y \in Nat /\ f[y] \in Nat /\ (y + f[y] < p \/ p + f[p] < y)
      BY <3>1, <1>9
    <3> QED BY <2>2, <3>1, <3>2, <1>0, <1>1, <1>2, <1>3
  <2>3. CASE y = s
    <3>1. x \in DOMAIN f \ {p} /\ g[x] = f[x]
      BY <2>3, <1>1, <1>7
    <3>2. x \in Nat /\ f[x] \in Nat /\ (x + f[x] < p \/ p + f[p] < x)
      BY <3>1, <1>9
    <3> QED BY <2>3, <3>1, <3>2, <1>0, <1>1, <1>2, <1>3
  <2> QED BY <2>1, <2>2, <2>3
<1>11. ASSUME NEW x PROVE /\ x \in run(p, n) => x \in Cover(f)
                          /\ x \in Cover(g) <=> x \in Cover(f) /\ x \notin run(p, n)
  <2>1. x \in run(p, n) <=> x \in Int /\ p <= x /\ x < s
    BY <1>0, <1>1, InRun
  <2>2. x \in Cover(f) <=> x \in Int /\ \E q \in DOMAIN f : q <= x /\ x < q + f[q]
    BY InCover
  <2>3. x \in Cover(g) <=> x \in Int /\ \E q \in DOMAIN g : q <= x /\ x < q + g[q]
    BY <1>8, InCover
  <2>4. ASSUME x \in run(p, n) PROVE x \in Cover(f)
    BY <2>1, <2>2, <2>4, <1>0, <1>3
  <2>5. ASSUME x \in Cover(g) PROVE x \in Cover(f) /\ x \notin run(p, n)
    <3>1. PICK q \in DOMAIN g : x \in Int /\ q <= x /\ x < q + g[q]
      BY <2>3, <2>5
    <3>2. CASE q = s
      <4>1. x < p + f[p] /\ p <= x /\ s <= x
        BY <3>1, <3>2, <1>0, <1>1, <1>3, <1>6
      <4> QED BY <4>1, <2>1, <2>2, <3>1, <1>1
    <3>3. CASE q # s
      <4>1. q \in DOMAIN f \ {p} /\ g[q] = f[q]
        BY <3>3, <1>7
      <4>2. q \in Nat /\ f[q] \in Nat /\ (q + f[q] < p \/ p + f[p] < q)
        BY <4>1, <1>9
      <4> QED BY <2>1, <2>2, <3>1, <4>1, <4>2, <1>0, <1>1, <1>3
    <3> QED BY <3>2, <3>3
  <2>6. ASSUME x \in Cover(f), x \notin run(p, n) PROVE x \in Cover(g)
    <3>1. PICK q \in DOMAIN f : x \in Int /\ q <= x /\ x < q + f[q]
      BY <2>2, <2>6
    <3>2. CASE q = p
      <4>1. s <= x /\ x < s + g[s] /\ s \in DOMAIN g
        BY <2>1, <2>6, <3>1, <3>2, <1>0, <1>1, <1>3, <1>6, <1>7
      <4> QED BY <4>1, <2>3, <3>1
    <3>3. CASE q # p
      BY <3>1, <3>3, <2>3, <1>7
    <3> QED BY <3>2, <3>3
  <2> QED BY <2>4, <2>5, <2>6
<1>12. DOMAIN g = (DOMAIN f \ {p}) \cup (IF f[p] = n THEN {} ELSE {p + n})
  BY <1>0, <1>1, <1>7
<1>13. run(p, n) \subseteq Cover(f) /\ Cover(g) = Cover(f) \ run(p, n)
  BY <1>11
<1> QED BY <1>8, <1>10, <1>12, <1>13 DEF Taken

\* Pages leave the free pages, or come back: the count follows.
LEMMA CardLess ==
    ASSUME NEW S, IsFiniteSet(S), NEW p \in Int, NEW n \in Nat, run(p, n) \subseteq S
    PROVE  Cardinality(S \ run(p, n)) = Cardinality(S) - n
<1>1. PICK T : T = run(p, n) /\ IsFiniteSet(T) /\ Cardinality(T) = n
  BY RunCard
<1>2. S \cap T = T
  BY <1>1
<1>3. Cardinality(S \ T) = Cardinality(S) - Cardinality(S \cap T)
  BY FS_Difference
<1> QED BY <1>1, <1>2, <1>3

LEMMA CardMore ==
    ASSUME NEW S, IsFiniteSet(S), NEW p \in Int, NEW n \in Nat, run(p, n) \cap S = {}
    PROVE  Cardinality(S \cup run(p, n)) = Cardinality(S) + n
<1>1. PICK T : T = run(p, n) /\ IsFiniteSet(T) /\ Cardinality(T) = n
  BY RunCard
<1>2. S \cap T = {}
  BY <1>1
<1>3. Cardinality(S \cup T) = Cardinality(S) + Cardinality(T) - Cardinality(S \cap T)
  BY <1>1, FS_Union
<1>4. Cardinality(S) \in Nat
  BY FS_CardinalityType
<1> QED BY <1>1, <1>2, <1>3, <1>4, FS_EmptySet

\* What default_alloc_pages returns for n pages.
Alloced(m, n, r) ==
    /\ r.page = NULL =>
           /\ r.pm = m
           /\ n > Cardinality(Cover(m.property)) \/ \A p \in DOMAIN m.property : m.property[p] < n
    /\ r.page # NULL =>
           /\ r.page \in Nat /\ PmOK(r.pm) /\ run(r.page, n) \subseteq Cover(m.property)
           /\ Cover(r.pm.property) = Cover(m.property) \ run(r.page, n)

LEMMA PmMade ==
    ASSUME NEW f, BlockMap(f), Apart(f), NEW l, Lists(l, DOMAIN f),
           NEW c, c = Cardinality(Cover(f)), NEW S, S = DOMAIN f,
           NEW m, m = [free_list |-> l, property |-> f, flag |-> S, nr_free |-> c]
    PROVE  PmOK(m)
<1>1. m.free_list = l /\ m.property = f /\ m.flag = S /\ m.nr_free = c
  OBVIOUS
<1> QED BY <1>1 DEF PmOK

LEMMA PmChanged ==
    ASSUME NEW a, NEW b, NEW c, NEW d, NEW w, NEW x, NEW y, NEW z,
           NEW m, m = [free_list |-> a, property |-> b, flag |-> c, nr_free |-> d],
           NEW u, u = [m EXCEPT !.free_list = w, !.property = x, !.nr_free = z, !.flag = y]
    PROVE  u = [free_list |-> w, property |-> x, flag |-> y, nr_free |-> z]
<1>1. DOMAIN m = {"free_list", "property", "flag", "nr_free"}
  OBVIOUS
<1>2. u = [k \in DOMAIN m |-> u[k]]
  OBVIOUS
<1>3. u.free_list = w /\ u.property = x /\ u.flag = y /\ u.nr_free = z
  BY <1>1
<1> QED BY <1>1, <1>2, <1>3

LEMMA AllocPages ==
    ASSUME NEW m, PmOK(m), NEW n \in Nat \ {0}, NEW r, r = default_alloc_pages(m, n)
    PROVE  Alloced(m, n, r)
<1>1. PICK L, f : L = m.free_list /\ f = m.property
  OBVIOUS
<1>2. /\ BlockMap(f) /\ Apart(f) /\ Lists(L, DOMAIN f) /\ m.flag = DOMAIN f
      /\ m.nr_free = Cardinality(Cover(f)) /\ L \in Seq(Int)
      /\ m = [free_list |-> L, property |-> f, flag |-> DOMAIN f, nr_free |-> m.nr_free]
  BY <1>1 DEF PmOK, Lists
<1>3. PICK len \in Nat : len = Len(L)
  BY <1>2
<1>4. /\ DOMAIN f = {L[i] : i \in 1 .. len}
      /\ \A i, j \in 1 .. len : i < j => L[i] < L[j]
  BY <1>2, <1>3 DEF Lists
<1>5. PICK fit : fit = {i \in 1 .. len : f[L[i]] >= n}
  OBVIOUS
<1>6. CASE n > m.nr_free \/ fit = {}
  <2>1. r = [pm |-> m, page |-> NULL]
    BY <1>1, <1>3, <1>5, <1>6 DEF default_alloc_pages
  <2>2. ASSUME fit = {}, NEW p \in DOMAIN f PROVE f[p] < n
    <3>1. PICK i \in 1 .. len : p = L[i]
      BY <1>4
    <3>2. ~(f[p] >= n)
      BY <1>5, <2>2, <3>1
    <3>3. f[p] \in Nat
      BY <1>2, BlockFacts
    <3> QED BY <3>2, <3>3
  <2> QED BY <1>1, <1>2, <1>6, <2>1, <2>2 DEF Alloced, NULL
<1>7. CASE ~(n > m.nr_free \/ fit = {})
  <2>1. fit \in SUBSET Nat /\ fit # {}
    BY <1>5, <1>7
  <2>2. \E i \in fit : \A j \in fit : i <= j
    BY <2>1, LeastNumber
  <2>3. PICK at : at = CHOOSE i \in fit : \A j \in fit : i <= j
    OBVIOUS
  <2>4. at \in fit
    BY <2>2, <2>3
  <2>5. at \in 1 .. len /\ f[L[at]] >= n
    BY <2>4, <1>5
  <2>6. PICK p : p = L[at]
    OBVIOUS
  <2>7. p \in DOMAIN f /\ p \in Nat /\ f[p] \in Nat /\ f[p] >= n
    BY <2>5, <2>6, <1>2, <1>4, BlockFacts
  <2>8. PICK rest : rest = list_del(L, at)
    OBVIOUS
  <2>9. /\ Lists(rest, DOMAIN f \ {p}) /\ Len(rest) = len - 1
        /\ \A k \in 1 .. (len - 1) : (k < at => rest[k] < p) /\ (k >= at => p < rest[k])
    BY <1>2, <1>3, <2>5, <2>6, <2>8, RisingDel
  <2> DEFINE fit_ == {i \in 1 .. Len(m.free_list) : m.property[m.free_list[i]] >= n}
             at_ == CHOOSE i \in fit_ : \A j \in fit_ : i <= j
             p_ == m.free_list[at_]
             rest_ == list_del(m.free_list, at_)
  <2>d. ~(n > m.nr_free \/ fit_ = {}) =>
            r = [page |-> p_,
                 pm |-> IF m.property[p_] = n
                        THEN [m EXCEPT !.free_list = rest_, !.property = drop(@, {p_}),
                                       !.nr_free = @ - n, !.flag = @ \ {p_}]
                        ELSE [m EXCEPT !.free_list = list_add_before(rest_, at_, p_ + n),
                                       !.property = drop(put(@, p_ + n, @[p_] - n), {p_}),
                                       !.nr_free = @ - n, !.flag = (@ \cup {p_ + n}) \ {p_}]]
    BY DEF default_alloc_pages
  <2>e. fit_ = fit
    BY <1>1, <1>3, <1>5
  <2> HIDE DEF fit_
  <2>f. at_ = at
    BY <2>3, <2>e
  <2> HIDE DEF at_
  <2>g. p_ = p /\ rest_ = rest
    BY <2>f, <2>6, <2>8, <1>1
  <2> HIDE DEF p_, rest_
  <2>10. r = [page |-> p,
              pm |-> IF f[p] = n
                     THEN [m EXCEPT !.free_list = rest, !.property = drop(@, {p}),
                                    !.nr_free = @ - n, !.flag = @ \ {p}]
                     ELSE [m EXCEPT !.free_list = list_add_before(rest, at, p + n),
                                    !.property = drop(put(@, p + n, @[p] - n), {p}),
                                    !.nr_free = @ - n, !.flag = (@ \cup {p + n}) \ {p}]]
    BY ONLY <2>d, <2>e, <2>f, <2>g, <1>1, <1>7
  <2>11. CASE f[p] = n
    <3>1. PICK g : g = drop(f, {p})
      OBVIOUS
    <3>2. r.page = p /\ r.pm = [free_list |-> rest, property |-> g, flag |-> DOMAIN f \ {p},
                                nr_free |-> m.nr_free - n]
      <4>1. r.page = p /\ r.pm = [m EXCEPT !.free_list = rest, !.property = drop(@, {p}),
                                           !.nr_free = @ - n, !.flag = @ \ {p}]
        BY <2>10, <2>11
      <4>2. r.pm = [free_list |-> rest, property |-> drop(f, {p}), flag |-> DOMAIN f \ {p},
                    nr_free |-> m.nr_free - n]
        BY <4>1, <1>1, <1>2, PmChanged
      <4> QED BY <4>1, <4>2, <3>1
    <3>3. Taken(f, p, n, g)
      BY <1>2, <2>7, <2>11, <3>1, TakeAll
    <3>4. DOMAIN g = DOMAIN f \ {p}
      BY <2>11, <3>3 DEF Taken
    <3>5. Cardinality(Cover(g)) = m.nr_free - n
      BY <1>2, <2>7, <3>3, CoverFinite, CardLess DEF Taken
    <3>6. PmOK(r.pm)
      <4>1. BlockMap(g) /\ Apart(g) /\ Lists(rest, DOMAIN g)
        BY <2>9, <3>3, <3>4 DEF Taken
      <4> QED BY <3>2, <3>4, <3>5, <4>1, PmMade
    <3> QED BY <1>1, <2>7, <3>2, <3>3, <3>6 DEF Alloced, Taken, NULL
  <2>12. CASE f[p] # n
    <3>0. n < f[p]
      BY <2>7, <2>12
    <3>s. PICK s \in Nat : s = p + n
      BY <2>7
    <3>p. p < s /\ s < p + f[p]
      BY <2>7, <3>0, <3>s
    <3>1. PICK g : g = drop(put(f, p + n, f[p] - n), {p})
      OBVIOUS
    <3>2. PICK l : l = list_add_before(rest, at, s)
      OBVIOUS
    <3>3. r.page = p /\ r.pm = [free_list |-> l, property |-> g, flag |-> (DOMAIN f \cup {s}) \ {p},
                                nr_free |-> m.nr_free - n]
      <4>1. r.page = p /\ r.pm = [m EXCEPT !.free_list = list_add_before(rest, at, p + n),
                                           !.property = drop(put(@, p + n, @[p] - n), {p}),
                                           !.nr_free = @ - n, !.flag = (@ \cup {p + n}) \ {p}]
        BY <2>10, <2>12
      <4>2. r.pm = [free_list |-> l, property |-> g, flag |-> (DOMAIN f \cup {s}) \ {p},
                    nr_free |-> m.nr_free - n]
        BY <4>1, <1>1, <1>2, <3>1, <3>2, <3>s, PmChanged
      <4> QED BY <4>1, <4>2
    <3>4. Taken(f, p, n, g)
      BY <1>2, <2>7, <3>0, <3>1, TakeSome
    <3>5. DOMAIN g = (DOMAIN f \ {p}) \cup {s} /\ DOMAIN g = (DOMAIN f \cup {s}) \ {p}
      BY <2>12, <3>4, <3>s, <3>p, <2>7 DEF Taken
    <3>6. Cardinality(Cover(g)) = m.nr_free - n
      <4>1. PICK S : S = Cover(f) /\ IsFiniteSet(S)
        BY <1>2, CoverFinite
      <4>2. run(p, n) \subseteq S /\ Cover(g) = S \ run(p, n)
        BY <4>1, <3>4 DEF Taken
      <4>3. Cardinality(S \ run(p, n)) = Cardinality(S) - n
        BY <4>1, <4>2, <2>7, CardLess
      <4> QED BY <4>1, <4>2, <4>3, <1>2
    <3>7. Lists(l, DOMAIN g)
      <4>1. at \in 1 .. (Len(rest) + 1)
        BY <2>5, <2>9, <1>3
      <4>2. ASSUME NEW k \in 1 .. Len(rest) PROVE (k < at => rest[k] < s) /\ (k >= at => s < rest[k])
        <5>1. k \in 1 .. (len - 1)
          BY <2>9
        <5>2. (k < at => rest[k] < p) /\ (k >= at => p < rest[k])
          BY <2>9, <5>1
        <5>3. rest[k] \in DOMAIN f
          BY <2>9 DEF Lists
        <5>4. rest[k] \in Nat
          BY <5>3, <1>2, BlockFacts
        <5>5. p < rest[k] => p + f[p] < rest[k]
          BY <1>2, <2>7, <5>3 DEF Apart
        <5> QED BY <5>2, <5>4, <5>5, <2>7, <3>p
      <4>3. Lists(list_add_before(rest, at, s), (DOMAIN f \ {p}) \cup {s})
        BY <2>9, <4>1, <4>2, RisingAdd
      <4> QED BY <3>2, <3>5, <4>3
    <3>8. PmOK(r.pm)
      <4>1. BlockMap(g) /\ Apart(g)
        BY <3>4 DEF Taken
      <4> QED BY <3>3, <3>5, <3>6, <3>7, <4>1, PmMade
    <3> QED BY <1>1, <2>7, <3>3, <3>4, <3>8 DEF Alloced, Taken, NULL
  <2> QED BY <2>11, <2>12
<1> QED BY <1>6, <1>7

-----------------------------------------------------------------------------
(* Freeing: the loop of default_free_pages joins base with its neighbours *)

Loose(f) == \A p, q \in DOMAIN f : p < q => p + f[p] <= q

\* g is f with the block hi, which follows lo, made part of lo.
Joined(f, lo, hi, g) ==
    /\ BlockMap(g) /\ Loose(g) /\ Cover(g) = Cover(f)
    /\ DOMAIN g = DOMAIN f \ {hi} /\ g[lo] = f[lo] + f[hi]
    /\ \A x \in DOMAIN f \ {lo, hi} : g[x] = f[x]

LEMMA Join ==
    ASSUME NEW f, BlockMap(f), Loose(f), NEW lo \in DOMAIN f, NEW hi \in DOMAIN f,
           lo + f[lo] = hi, NEW g, g = drop(put(f, lo, f[lo] + f[hi]), {hi})
    PROVE  Joined(f, lo, hi, g)
<1>0. lo \in Nat /\ f[lo] \in Nat /\ f[lo] > 0 /\ hi \in Nat /\ f[hi] \in Nat /\ f[hi] > 0 /\ hi + f[hi] <= NPages
  BY BlockFacts
<1>1. lo < hi
  BY <1>0
<1>2. /\ DOMAIN g = DOMAIN f \ {hi} /\ g[lo] = f[lo] + f[hi]
      /\ \A x \in DOMAIN f \ {lo, hi} : g[x] = f[x]
  BY <1>0, <1>1 DEF drop, put
<1>3. BlockMap(g)
  <2>1. ASSUME NEW x \in DOMAIN g PROVE x \in Nat /\ g[x] \in Nat /\ g[x] > 0 /\ x + g[x] <= NPages
    <3>1. CASE x = lo
      BY <3>1, <1>0, <1>2
    <3>2. CASE x # lo
      BY <3>2, <1>2, BlockFacts
    <3> QED BY <3>1, <3>2
  <2>2. g = [x \in DOMAIN g |-> g[x]]
    BY DEF drop
  <2> QED BY <2>1, <2>2, IsBlockMap
<1>4. Loose(g)
  <2> SUFFICES ASSUME NEW x \in DOMAIN g, NEW y \in DOMAIN g, x < y PROVE x + g[x] <= y
    BY DEF Loose
  <2>0. x \in DOMAIN f \ {hi} /\ y \in DOMAIN f \ {hi} /\ x \in Nat /\ y \in Nat
    BY <1>2, BlockFacts
  <2>1. CASE x = lo
    <3>1. (y < hi => lo + f[lo] <= y) /\ (hi < y => hi + f[hi] <= y)
      BY <2>0, <2>1 DEF Loose
    <3> QED BY <1>0, <1>2, <2>0, <2>1, <3>1
  <2>2. CASE x # lo
    <3>1. g[x] = f[x] /\ x + f[x] <= y
      BY <1>2, <2>0, <2>2 DEF Loose
    <3> QED BY <3>1
  <2> QED BY <2>1, <2>2
<1>5. ASSUME NEW x PROVE x \in Cover(g) <=> x \in Cover(f)
  <2>1. x \in Cover(f) <=> x \in Int /\ \E q \in DOMAIN f : q <= x /\ x < q + f[q]
    BY InCover
  <2>2. x \in Cover(g) <=> x \in Int /\ \E q \in DOMAIN g : q <= x /\ x < q + g[q]
    BY <1>3, InCover
  <2>3. ASSUME x \in Cover(g) PROVE x \in Cover(f)
    <3>1. PICK q \in DOMAIN g : x \in Int /\ q <= x /\ x < q + g[q]
      BY <2>2, <2>3
    <3>2. CASE q = lo
      <4>1. (lo <= x /\ x < lo + f[lo]) \/ (hi <= x /\ x < hi + f[hi])
        BY <3>1, <3>2, <1>0, <1>2
      <4> QED BY <4>1, <3>1, <2>1
    <3>3. CASE q # lo
      BY <3>1, <3>3, <1>2, <2>1
    <3> QED BY <3>2, <3>3
  <2>4. ASSUME x \in Cover(f) PROVE x \in Cover(g)
    <3>1. PICK q \in DOMAIN f : x \in Int /\ q <= x /\ x < q + f[q]
      BY <2>1, <2>4
    <3>2. CASE q = lo \/ q = hi
      <4>1. lo \in DOMAIN g /\ lo <= x /\ x < lo + g[lo]
        BY <3>1, <3>2, <1>0, <1>1, <1>2
      <4> QED BY <4>1, <3>1, <2>2
    <3>3. CASE q # lo /\ q # hi
      BY <3>1, <3>3, <1>2, <2>2
    <3> QED BY <3>2, <3>3
  <2> QED BY <2>3, <2>4
<1> QED BY <1>2, <1>3, <1>4, <1>5 DEF Joined

\* The blocks in the middle of the loop: b is base, R are the blocks not yet looked
\* at.  Only base and a block of R may touch.
Blocks(C, f, b, R) ==
    /\ BlockMap(f) /\ Loose(f) /\ Cover(f) = C
    /\ b \in DOMAIN f /\ R \in SUBSET (DOMAIN f \ {b})
    /\ \A p, q \in DOMAIN f : p < q /\ p + f[p] = q => (p = b /\ q \in R) \/ (q = b /\ p \in R)
    /\ \A x \in DOMAIN f \ ({b} \cup R), y \in R : x < y

LEMMA MergeUp ==
    ASSUME NEW C, NEW f, NEW b, NEW R, Blocks(C, f, b, R), NEW p \in R, b + f[b] = p,
           NEW g, g = drop(put(f, b, f[b] + f[p]), {p})
    PROVE  Blocks(C, g, b, R \ {p}) /\ DOMAIN g = DOMAIN f \ {p}
<1>0. BlockMap(f) /\ Loose(f) /\ Cover(f) = C /\ b \in DOMAIN f /\ p \in DOMAIN f /\ p # b
  BY DEF Blocks
<1>1. Joined(f, b, p, g)
  BY <1>0, Join
<1>2. /\ BlockMap(g) /\ Loose(g) /\ Cover(g) = C /\ DOMAIN g = DOMAIN f \ {p}
      /\ g[b] = f[b] + f[p] /\ \A x \in DOMAIN f \ {b, p} : g[x] = f[x]
  BY <1>0, <1>1 DEF Joined
<1>3. b \in Nat /\ f[b] \in Nat /\ f[b] > 0 /\ p \in Nat /\ f[p] \in Nat /\ f[p] > 0
  BY <1>0, BlockFacts
<1>4. ASSUME NEW x \in DOMAIN g, NEW y \in DOMAIN g, x < y, x + g[x] = y
      PROVE  (x = b /\ y \in R \ {p}) \/ (y = b /\ x \in R \ {p})
  <2>0. x \in DOMAIN f /\ y \in DOMAIN f /\ x # p /\ y # p /\ y \in Nat
    BY <1>0, <1>2, BlockFacts
  <2>1. CASE x = b
    <3>1. p + f[p] = y /\ p < y
      BY <1>2, <1>3, <1>4, <2>0, <2>1
    <3>2. (p = b /\ y \in R) \/ (y = b /\ p \in R)
      BY <1>0, <2>0, <3>1 DEF Blocks
    <3> QED BY <1>0, <1>3, <1>4, <2>1, <3>2
  <2>2. CASE x # b
    <3>1. x + f[x] = y
      BY <1>2, <1>4, <2>0, <2>2
    <3>2. (x = b /\ y \in R) \/ (y = b /\ x \in R)
      BY <1>4, <2>0, <3>1 DEF Blocks
    <3> QED BY <2>0, <3>2
  <2> QED BY <2>1, <2>2
<1>5. \A x \in DOMAIN g \ ({b} \cup (R \ {p})), y \in R \ {p} : x < y
  BY <1>2 DEF Blocks
<1>6. b \in DOMAIN g /\ R \ {p} \in SUBSET (DOMAIN g \ {b})
  BY <1>0, <1>2 DEF Blocks
<1> QED BY <1>2, <1>4, <1>5, <1>6 DEF Blocks

Follows(f, p, q) == p + f[p] = q
Unite(f, p, q) == drop(put(f, p, f[p] + f[q]), {q})

LEMMA MergeDown ==
    ASSUME NEW C, NEW f, NEW b, NEW R, Blocks(C, f, b, R), NEW p \in R, Follows(f, p, b),
           NEW g, g = Unite(f, p, b), NEW Q, Q = R \ {p}
    PROVE  Blocks(C, g, p, Q)
<1>0. BlockMap(f) /\ Loose(f) /\ Cover(f) = C /\ b \in DOMAIN f /\ p \in DOMAIN f /\ p # b
  BY DEF Blocks
<1>1. Joined(f, p, b, g)
  BY <1>0, Join DEF Follows, Unite
<1>2. /\ BlockMap(g) /\ Loose(g) /\ Cover(g) = C /\ DOMAIN g = DOMAIN f \ {b}
      /\ g[p] = f[p] + f[b] /\ \A x \in DOMAIN f \ {b, p} : g[x] = f[x]
  BY <1>0, <1>1 DEF Joined
<1>3. p + f[p] = b /\ b \in Nat /\ f[b] \in Nat /\ f[b] > 0 /\ p \in Nat /\ f[p] \in Nat /\ f[p] > 0
  BY <1>0, BlockFacts DEF Follows
<1>4. ASSUME NEW x \in DOMAIN g, NEW y \in DOMAIN g, x < y, x + g[x] = y
      PROVE  (x = p /\ y \in Q) \/ (y = p /\ x \in Q)
  <2>0. x \in DOMAIN f /\ y \in DOMAIN f /\ x # b /\ y # b /\ x \in Nat /\ y \in Nat
    BY <1>0, <1>2, BlockFacts
  <2>1. CASE x = p
    <3>1. b + f[b] = y /\ b < y
      BY <1>2, <1>3, <1>4, <2>0, <2>1
    <3>2. (b = b /\ y \in R) \/ (y = b /\ b \in R)
      BY <1>0, <2>0, <3>1 DEF Blocks
    <3> QED BY <1>3, <1>4, <2>0, <2>1, <3>2
  <2>2. CASE x # p
    <3>1. x + f[x] = y
      BY <1>2, <1>4, <2>0, <2>2
    <3>2. (x = b /\ y \in R) \/ (y = b /\ x \in R)
      BY <1>4, <2>0, <3>1 DEF Blocks
    <3> QED BY <2>0, <3>2
  <2> QED BY <2>1, <2>2
<1>5. \A x \in DOMAIN g \ ({p} \cup (Q)), y \in Q : x < y
  BY <1>2 DEF Blocks
<1>6. p \in DOMAIN g /\ Q \in SUBSET (DOMAIN g \ {p})
  BY <1>0, <1>2 DEF Blocks
<1> QED BY <1>2, <1>4, <1>5, <1>6 DEF Blocks

LEMMA KeepBlock ==
    ASSUME NEW C, NEW f, NEW b, NEW R, Blocks(C, f, b, R), NEW p \in R,
           b + f[b] # p, p + f[p] # b, \A y \in R : p <= y
    PROVE  Blocks(C, f, b, R \ {p})
<1>0. BlockMap(f) /\ Loose(f) /\ Cover(f) = C /\ b \in DOMAIN f /\ R \in SUBSET (DOMAIN f \ {b})
  BY DEF Blocks
<1>1. ASSUME NEW x \in DOMAIN f, NEW y \in DOMAIN f, x < y, x + f[x] = y
      PROVE  (x = b /\ y \in R \ {p}) \/ (y = b /\ x \in R \ {p})
  <2>1. (x = b /\ y \in R) \/ (y = b /\ x \in R)
    BY <1>1 DEF Blocks
  <2> QED BY <1>1, <2>1
<1>2. ASSUME NEW x \in DOMAIN f \ ({b} \cup (R \ {p})), NEW y \in R \ {p} PROVE x < y
  <2>1. CASE x = p
    <3>1. p <= y /\ y # p /\ p \in Nat /\ y \in Nat
      BY <1>0, BlockFacts
    <3> QED BY <2>1, <3>1
  <2>2. CASE x # p
    BY <2>2 DEF Blocks
  <2> QED BY <2>1, <2>2
<1>3. R \ {p} \in SUBSET (DOMAIN f \ {b})
  BY <1>0
<1> QED BY <1>0, <1>1, <1>2, <1>3 DEF Blocks

\* The block being freed, before the loop.
LEMMA FirstBlocks ==
    ASSUME NEW f, BlockMap(f), Apart(f), NEW b \in Nat, NEW n \in Nat \ {0}, b + n <= NPages,
           run(b, n) \cap Cover(f) = {}, NEW g, g = put(f, b, n)
    PROVE  /\ Blocks(Cover(f) \cup run(b, n), g, b, DOMAIN f)
           /\ DOMAIN g = DOMAIN f \cup {b} /\ b \notin DOMAIN f
<1>1. ASSUME NEW p \in DOMAIN f
      PROVE  p \in Nat /\ f[p] \in Nat /\ f[p] > 0 /\ (p + f[p] <= b \/ b + n <= p) /\ p # b
  <2>1. p \in Nat /\ f[p] \in Nat /\ f[p] > 0
    BY BlockFacts
  <2>2. p \in Cover(f)
    BY <2>1, InCover
  <2>3. ~(b <= p /\ p < b + n)
    BY <2>1, <2>2, InRun
  <2>4. b \in run(b, n)
    BY InRun
  <2>5. ~(p <= b /\ b < p + f[p])
    BY <2>4, InCover
  <2> QED BY <2>1, <2>3, <2>5
<1>2. b \notin DOMAIN f
  BY <1>1
<1>3. DOMAIN g = DOMAIN f \cup {b} /\ g[b] = n /\ \A p \in DOMAIN f : g[p] = f[p]
  BY <1>2 DEF put
<1>4. BlockMap(g)
  <2>1. ASSUME NEW x \in DOMAIN g PROVE x \in Nat /\ g[x] \in Nat /\ g[x] > 0 /\ x + g[x] <= NPages
    <3>1. CASE x = b
      BY <3>1, <1>3
    <3>2. CASE x # b
      BY <3>2, <1>3, BlockFacts
    <3> QED BY <3>1, <3>2
  <2>2. g = [x \in DOMAIN g |-> g[x]]
    BY DEF put
  <2> QED BY <2>1, <2>2, IsBlockMap
<1>5. ASSUME NEW x \in DOMAIN g, NEW y \in DOMAIN g, x < y
      PROVE  /\ x + g[x] <= y
             /\ x + g[x] = y => (x = b /\ y \in DOMAIN f) \/ (y = b /\ x \in DOMAIN f)
  <2>1. CASE x = b
    <3>1. y \in DOMAIN f /\ y # b
      BY <1>3, <1>5, <2>1
    <3>2. y \in Nat /\ f[y] \in Nat /\ f[y] > 0 /\ (y + f[y] <= b \/ b + n <= y)
      BY <3>1, <1>1
    <3> QED BY <1>3, <1>5, <2>1, <3>1, <3>2
  <2>2. CASE y = b
    <3>1. x \in DOMAIN f /\ x # b
      BY <1>3, <1>5, <2>2
    <3>2. x \in Nat /\ f[x] \in Nat /\ f[x] > 0 /\ (x + f[x] <= b \/ b + n <= x)
      BY <3>1, <1>1
    <3> QED BY <1>3, <1>5, <2>2, <3>1, <3>2
  <2>3. CASE x # b /\ y # b
    <3>1. x \in DOMAIN f /\ y \in DOMAIN f /\ g[x] = f[x] /\ x \in Nat /\ y \in Nat /\ f[x] \in Nat
      BY <1>1, <1>3, <2>3
    <3>2. x + f[x] < y
      BY <1>5, <3>1 DEF Apart
    <3> QED BY <3>1, <3>2
  <2> QED BY <2>1, <2>2, <2>3
<1>6. ASSUME NEW x PROVE x \in Cover(g) <=> x \in Cover(f) \cup run(b, n)
  <2>1. x \in Cover(f) <=> x \in Int /\ \E q \in DOMAIN f : q <= x /\ x < q + f[q]
    BY InCover
  <2>2. x \in Cover(g) <=> x \in Int /\ \E q \in DOMAIN g : q <= x /\ x < q + g[q]
    BY <1>4, InCover
  <2>3. x \in run(b, n) <=> x \in Int /\ b <= x /\ x < b + n
    BY InRun
  <2> QED BY <1>2, <1>3, <2>1, <2>2, <2>3
<1>7. Loose(g)
  BY <1>5 DEF Loose
<1>8. DOMAIN f \in SUBSET (DOMAIN g \ {b}) /\ DOMAIN g \ ({b} \cup DOMAIN f) = {}
  BY <1>2, <1>3
<1>9. Cover(g) = Cover(f) \cup run(b, n)
  BY <1>6
<1> QED BY <1>2, <1>3, <1>4, <1>5, <1>7, <1>8, <1>9 DEF Blocks

\* The variables of the loop.
Merging(C, a, R) ==
    /\ a = [base |-> a.base, property |-> a.property, flag |-> a.flag, list |-> a.list]
    /\ Blocks(C, a.property, a.base, R) /\ a.flag = DOMAIN a.property
    /\ Lists(a.list, DOMAIN a.property \ ({a.base} \cup R))

LEMMA MergingMade ==
    ASSUME NEW C, NEW f, NEW b, NEW R, Blocks(C, f, b, R), NEW l,
           Lists(l, DOMAIN f \ ({b} \cup R)), NEW S, S = DOMAIN f,
           NEW a, a = [base |-> b, property |-> f, flag |-> S, list |-> l]
    PROVE  Merging(C, a, R)
<1>1. a.base = b /\ a.property = f /\ a.flag = S /\ a.list = l
  OBVIOUS
<1> QED BY <1>1 DEF Merging

LEMMA AccChanged ==
    ASSUME NEW b, NEW f, NEW c, NEW l, NEW w, NEW x, NEW y,
           NEW a, a = [base |-> b, property |-> f, flag |-> c, list |-> l]
    PROVE  /\ [a EXCEPT !.property = x, !.flag = y] = [base |-> b, property |-> x, flag |-> y, list |-> l]
           /\ [a EXCEPT !.property = x, !.flag = y, !.base = w] = [base |-> w, property |-> x, flag |-> y, list |-> l]
           /\ [a EXCEPT !.list = w] = [base |-> b, property |-> f, flag |-> c, list |-> w]
<1>1. DOMAIN a = {"base", "property", "flag", "list"}
  OBVIOUS
<1>2. ASSUME NEW u, u = [a EXCEPT !.property = x, !.flag = y]
      PROVE  u = [base |-> b, property |-> x, flag |-> y, list |-> l]
  <2>1. u = [k \in DOMAIN a |-> u[k]]
    BY <1>2
  <2>2. u.base = b /\ u.property = x /\ u.flag = y /\ u.list = l
    BY <1>1, <1>2
  <2> QED BY <1>1, <2>1, <2>2
<1>3. ASSUME NEW u, u = [a EXCEPT !.property = x, !.flag = y, !.base = w]
      PROVE  u = [base |-> w, property |-> x, flag |-> y, list |-> l]
  <2>1. u = [k \in DOMAIN a |-> u[k]]
    BY <1>3
  <2>2. u.base = w /\ u.property = x /\ u.flag = y /\ u.list = l
    BY <1>1, <1>3
  <2> QED BY <1>1, <2>1, <2>2
<1>4. ASSUME NEW u, u = [a EXCEPT !.list = w]
      PROVE  u = [base |-> b, property |-> f, flag |-> c, list |-> w]
  <2>1. u = [k \in DOMAIN a |-> u[k]]
    BY <1>4
  <2>2. u.base = b /\ u.property = f /\ u.flag = c /\ u.list = w
    BY <1>1, <1>4
  <2> QED BY <1>1, <2>1, <2>2
<1> QED BY <1>2, <1>3, <1>4

\* One round of the loop, for the lowest block not yet looked at.
LEMMA MergeStep ==
    ASSUME NEW C, NEW a, NEW R, Merging(C, a, R), NEW p \in R, \A y \in R : p <= y,
           NEW z, z = merge(a, p)
    PROVE  Merging(C, z, R \ {p})
<1>1. PICK f, b, l : f = a.property /\ b = a.base /\ l = a.list
  OBVIOUS
<1>2. /\ Blocks(C, f, b, R) /\ Lists(l, DOMAIN f \ ({b} \cup R)) /\ a.flag = DOMAIN f
      /\ a = [base |-> b, property |-> f, flag |-> DOMAIN f, list |-> l]
  BY <1>1 DEF Merging
<1>3. /\ BlockMap(f) /\ p \in DOMAIN f /\ p # b /\ b \in DOMAIN f /\ R \in SUBSET (DOMAIN f \ {b})
      /\ \A x \in DOMAIN f \ ({b} \cup R) : x < p
  BY <1>2 DEF Blocks
<1>4. CASE b + f[b] = p
  <2>1. PICK g : g = drop(put(f, b, f[b] + f[p]), {p})
    OBVIOUS
  <2>2. z = [a EXCEPT !.property = g, !.flag = DOMAIN f \ {p}]
    BY <1>1, <1>2, <1>4, <2>1 DEF merge
  <2>3. z = [base |-> b, property |-> g, flag |-> DOMAIN f \ {p}, list |-> l]
    BY <1>2, <2>2, AccChanged
  <2>4. Blocks(C, g, b, R \ {p}) /\ DOMAIN g = DOMAIN f \ {p}
    BY <1>2, <1>4, <2>1, MergeUp
  <2>5. DOMAIN g \ ({b} \cup (R \ {p})) = DOMAIN f \ ({b} \cup R)
    BY <2>4
  <2> QED BY <1>2, <2>3, <2>4, <2>5, MergingMade
<1>5. CASE b + f[b] # p /\ p + f[p] = b
  <2>1. PICK g : g = drop(put(f, p, f[p] + f[b]), {b})
    OBVIOUS
  <2>2. z = [a EXCEPT !.property = g, !.flag = DOMAIN f \ {b}, !.base = p]
    BY <1>1, <1>2, <1>5, <2>1 DEF merge
  <2>3. z = [base |-> p, property |-> g, flag |-> DOMAIN f \ {b}, list |-> l]
    BY <1>2, <2>2, AccChanged
  <2>4. Blocks(C, g, p, R \ {p}) /\ DOMAIN g = DOMAIN f \ {b}
    <3>1. Follows(f, p, b) /\ g = Unite(f, p, b)
      BY <1>5, <2>1 DEF Follows, Unite
    <3>2. PICK Q : Q = R \ {p}
      OBVIOUS
    <3>3. Blocks(C, g, p, Q)
      BY <1>2, <3>1, <3>2, MergeDown
    <3>4. DOMAIN g = DOMAIN f \ {b}
      BY <1>3, <2>1 DEF drop, put
    <3> QED BY <3>2, <3>3, <3>4
  <2>5. DOMAIN g \ ({p} \cup (R \ {p})) = DOMAIN f \ ({b} \cup R)
    BY <1>3, <2>4
  <2> QED BY <1>2, <2>3, <2>4, <2>5, MergingMade
<1>6. CASE b + f[b] # p /\ p + f[p] # b
  <2>1. PICK w : w = Append(l, p)
    OBVIOUS
  <2>2. z = [a EXCEPT !.list = w]
    BY <1>1, <1>6, <2>1 DEF merge
  <2>3. z = [base |-> b, property |-> f, flag |-> DOMAIN f, list |-> w]
    BY <1>2, <2>2, AccChanged
  <2>4. Blocks(C, f, b, R \ {p})
    BY <1>2, <1>6, KeepBlock
  <2>5. PICK S : S = DOMAIN f \ ({b} \cup R)
    OBVIOUS
  <2>6. p \in Int /\ Lists(l, S) /\ \A x \in S : x < p
    BY <1>2, <1>3, <2>5, BlockFacts
  <2>7. Lists(w, S \cup {p})
    BY <2>1, <2>6, RisingAppend
  <2>8. S \cup {p} = DOMAIN f \ ({b} \cup (R \ {p}))
    BY <1>3, <2>5
  <2> QED BY <2>3, <2>4, <2>7, <2>8, MergingMade
<1> QED BY <1>4, <1>5, <1>6

\* The values of the loop, round by round.
Round(L, n, a, g) == g = [i \in 0 .. n |-> IF i = 0 THEN a ELSE merge(g[i - 1], L[i])]

LEMMA RoundExists ==
    ASSUME NEW L, NEW n \in Nat, NEW a
    PROVE  \E g : Round(L, n, a, g)
<1> DEFINE Lacks == {m \in Nat : ~\E g : Round(L, m, a, g)}
<1> SUFFICES ASSUME n \in Lacks PROVE FALSE
  OBVIOUS
<1>1. PICK m \in Lacks : \A j \in Lacks : m <= j
  <2>1. Lacks \in SUBSET Nat /\ Lacks # {}
    OBVIOUS
  <2> HIDE DEF Lacks
  <2> QED BY <2>1, LeastNumber
<1>2. m \in Nat /\ ~\E g : Round(L, m, a, g)
  BY <1>1
<1>3. m # 0
  <2>1. ASSUME NEW g, g = [k \in 0 .. 0 |-> a] PROVE Round(L, 0, a, g)
    <3>1. g = [k \in 0 .. 0 |-> IF k = 0 THEN a ELSE merge(g[k - 1], L[k])]
      BY <2>1
    <3> QED BY <3>1 DEF Round
  <2> QED BY <2>1, <1>2
<1>4. m - 1 \in Nat /\ m - 1 \notin Lacks
  <2> HIDE DEF Lacks
  <2> QED BY <1>1, <1>2, <1>3
<1>5. PICK g : Round(L, m - 1, a, g)
  BY <1>4
<1>6. \A k \in 0 .. m - 1 : g[k] = IF k = 0 THEN a ELSE merge(g[k - 1], L[k])
  BY <1>5 DEF Round
<1>7. PICK v : v = merge(g[m - 1], L[m])
  OBVIOUS
<1>8. PICK h : h = [k \in 0 .. m |-> IF k = m THEN v ELSE g[k]]
  OBVIOUS
<1>9. ASSUME NEW k \in 0 .. m PROVE h[k] = IF k = 0 THEN a ELSE merge(h[k - 1], L[k])
  <2>1. CASE k = m
    <3>1. h[k] = v /\ h[k - 1] = g[m - 1]
      BY <1>2, <1>3, <1>8, <2>1
    <3> QED BY <1>3, <1>7, <2>1, <3>1
  <2>2. CASE k # m /\ k # 0
    <3>1. k \in 0 .. m - 1 /\ h[k] = g[k] /\ h[k - 1] = g[k - 1]
      BY <1>2, <1>8, <2>2
    <3> QED BY <1>6, <2>2, <3>1
  <2>3. CASE k # m /\ k = 0
    <3>1. k \in 0 .. m - 1 /\ h[k] = g[k]
      BY <1>2, <1>8, <2>3
    <3> QED BY <1>6, <2>3, <3>1
  <2> QED BY <2>1, <2>2, <2>3
<1>10. h = [k \in 0 .. m |-> h[k]]
  BY <1>8
<1>11. Round(L, m, a, h)
  BY <1>9, <1>10 DEF Round
<1> QED BY <1>2, <1>11

\* The blocks of the list from place k on.
from(L, n, k) == {L[j] : j \in k .. n}

LEMMA Loop ==
    ASSUME NEW C, NEW L, NEW D, Lists(L, D), NEW n \in Nat, n = Len(L),
           NEW a, Merging(C, a, D), NEW g, Round(L, n, a, g)
    PROVE  Merging(C, g[n], {})
<1>0. /\ D = {L[i] : i \in 1 .. n} /\ \A i, j \in 1 .. n : i < j => L[i] < L[j]
      /\ \A i \in 1 .. n : L[i] \in Int
  BY ListFacts DEF Lists
<1>1. \A k \in 0 .. n : g[k] = IF k = 0 THEN a ELSE merge(g[k - 1], L[k])
  BY DEF Round
<1>2. \A k \in 0 .. n : Merging(C, g[k], from(L, n, k + 1))
  <2> DEFINE Off == {k \in 0 .. n : ~Merging(C, g[k], from(L, n, k + 1))}
  <2> SUFFICES ASSUME Off # {} PROVE FALSE
    OBVIOUS
  <2>1. PICK k \in Off : \A j \in Off : k <= j
    <3>1. Off \in SUBSET Nat
      OBVIOUS
    <3> HIDE DEF Off
    <3> QED BY <3>1, LeastNumber
  <2>2. k \in 0 .. n /\ ~Merging(C, g[k], from(L, n, k + 1))
    BY <2>1
  <2>3. k # 0
    <3>1. from(L, n, 1) = D
      BY <1>0 DEF from
    <3>2. g[0] = a
      BY <1>1
    <3> QED BY <2>2, <3>1, <3>2
  <2>4. k \in 1 .. n /\ k - 1 \in 0 .. n /\ (k - 1) + 1 = k
    BY <2>2, <2>3
  <2>5. k - 1 \notin Off
    <3> HIDE DEF Off
    <3> QED BY <2>1, <2>2, <2>4
  <2>6. Merging(C, g[k - 1], from(L, n, k))
    BY <2>4, <2>5
  <2>7. PICK R : R = from(L, n, k)
    OBVIOUS
  <2>8. L[k] \in R /\ \A y \in R : L[k] <= y
    <3>1. L[k] \in R
      BY <2>4, <2>7 DEF from
    <3>2. ASSUME NEW y \in R PROVE L[k] <= y
      <4>1. PICK j \in k .. n : y = L[j]
        BY <2>7 DEF from
      <4>2. j \in 1 .. n /\ (k = j \/ k < j)
        BY <2>4, <4>1
      <4>3. k < j => L[k] < L[j]
        BY <1>0, <2>4, <4>2
      <4> QED BY <1>0, <2>4, <4>1, <4>2, <4>3
    <3> QED BY <3>1, <3>2
  <2>9. R \ {L[k]} = from(L, n, k + 1)
    <3>1. ASSUME NEW j \in (k + 1) .. n PROVE j \in k .. n /\ L[j] # L[k]
      <4>1. j \in 1 .. n /\ j \in k .. n /\ k < j
        BY <2>4
      <4>2. L[k] < L[j]
        BY <1>0, <2>4, <4>1
      <4> QED BY <1>0, <2>4, <4>1, <4>2
    <3>2. ASSUME NEW j \in k .. n, j # k PROVE j \in (k + 1) .. n
      BY <2>4, <3>2
    <3> QED BY <2>7, <3>1, <3>2 DEF from
  <2>10. g[k] = merge(g[k - 1], L[k])
    BY <1>1, <2>2, <2>3
  <2>11. Merging(C, g[k], R \ {L[k]})
    BY <2>6, <2>7, <2>8, <2>10, MergeStep
  <2> QED BY <2>2, <2>9, <2>11
<1>3. from(L, n, n + 1) = {}
  BY DEF from
<1>4. Merging(C, g[n], from(L, n, n + 1))
  BY <1>2
<1> QED BY <1>3, <1>4

\* default_free_pages puts the block back where it belongs.
LEMMA FreePagesBack ==
    ASSUME NEW m, PmOK(m), NEW b \in Nat, NEW n \in Nat \ {0}, b + n <= NPages,
           run(b, n) \cap Cover(m.property) = {}, NEW r, r = default_free_pages(m, b, n)
    PROVE  PmOK(r) /\ Cover(r.property) = Cover(m.property) \cup run(b, n)
<1>1. PICK L, f : L = m.free_list /\ f = m.property
  OBVIOUS
<1>2. /\ BlockMap(f) /\ Apart(f) /\ Lists(L, DOMAIN f) /\ m.flag = DOMAIN f
      /\ m.nr_free = Cardinality(Cover(f)) /\ L \in Seq(Int) /\ run(b, n) \cap Cover(f) = {}
  BY <1>1 DEF PmOK, Lists
<1>3. PICK len \in Nat : len = Len(L)
  BY <1>2
<1>4. PICK a : a = [base |-> b, property |-> put(f, b, n), flag |-> DOMAIN f \cup {b}, list |-> <<>>]
  OBVIOUS
<1>5. PICK C : C = Cover(f) \cup run(b, n)
  OBVIOUS
<1>6. Merging(C, a, DOMAIN f)
  <2>1. PICK g : g = put(f, b, n)
    OBVIOUS
  <2>2. Blocks(C, g, b, DOMAIN f) /\ DOMAIN g = DOMAIN f \cup {b}
    BY <1>2, <1>5, <2>1, FirstBlocks
  <2>3. Lists(<<>>, DOMAIN g \ ({b} \cup DOMAIN f))
    BY <2>2 DEF Lists
  <2> QED BY <1>4, <2>1, <2>2, <2>3, MergingMade
<1>7. PICK g : /\ Round(L, len, a, g)
               /\ r = [free_list |-> default_list_add(g[len].list, g[len].base),
                       property  |-> g[len].property, flag |-> g[len].flag,
                       nr_free   |-> m.nr_free + n]
  <2> DEFINE a_ == [base |-> b, property |-> put(m.property, b, n),
                    flag |-> m.flag \cup {b}, list |-> <<>>]
             Is(h) == h = [i \in 0 .. Len(m.free_list) |->
                               IF i = 0 THEN a_ ELSE merge(h[i - 1], m.free_list[i])]
             c == CHOOSE h : Is(h)
  <2>1. r = [free_list |-> default_list_add(c[Len(m.free_list)].list, c[Len(m.free_list)].base),
             property  |-> c[Len(m.free_list)].property, flag |-> c[Len(m.free_list)].flag,
             nr_free   |-> m.nr_free + n]
    BY DEF default_free_pages
  <2>2. ASSUME NEW h PROVE Is(h) <=> Round(L, len, a, h)
    <3>1. a_ = a
      BY <1>1, <1>2, <1>4
    <3> HIDE DEF a_
    <3> QED BY <1>1, <1>3, <3>1 DEF Round
  <2>3. \E h : Is(h)
    <3> HIDE DEF Is
    <3> QED BY <2>2, RoundExists
  <2>4. Is(c)
    <3> HIDE DEF Is
    <3> QED BY <2>3
  <2> HIDE DEF c, Is
  <2> QED BY <1>1, <1>3, <2>1, <2>2, <2>4
<1>8. Merging(C, g[len], {})
  BY <1>2, <1>3, <1>6, <1>7, Loop
<1>9. PICK e : e = g[len]
  OBVIOUS
<1>10. PICK h, d, l : h = e.property /\ d = e.base /\ l = e.list
  OBVIOUS
<1>11. Blocks(C, h, d, {}) /\ e.flag = DOMAIN h /\ Lists(l, DOMAIN h \ ({d} \cup {}))
  BY <1>8, <1>9, <1>10 DEF Merging
<1>12. /\ BlockMap(h) /\ Loose(h) /\ Cover(h) = C /\ d \in DOMAIN h /\ Lists(l, DOMAIN h \ {d})
       /\ \A p, q \in DOMAIN h : p < q => p + h[p] # q
  BY <1>11 DEF Blocks
<1>13. Apart(h)
  <2> SUFFICES ASSUME NEW p \in DOMAIN h, NEW q \in DOMAIN h, p < q PROVE p + h[p] < q
    BY DEF Apart
  <2>1. p + h[p] <= q /\ p + h[p] # q
    BY <1>12 DEF Loose
  <2>2. p \in Nat /\ q \in Nat /\ h[p] \in Nat
    BY <1>12, BlockFacts
  <2> QED BY <2>1, <2>2
<1>14. PICK fl : fl = default_list_add(l, d)
  OBVIOUS
<1>15. Lists(fl, DOMAIN h)
  <2>1. d \in Int /\ d \notin DOMAIN h \ {d}
    BY <1>12, BlockFacts
  <2>2. Lists(fl, (DOMAIN h \ {d}) \cup {d})
    BY <1>12, <1>14, <2>1, ListAdd
  <2>3. (DOMAIN h \ {d}) \cup {d} = DOMAIN h
    BY <1>12
  <2> QED BY <2>2, <2>3
<1>16. Cardinality(C) = m.nr_free + n
  <2>1. PICK S : S = Cover(f) /\ IsFiniteSet(S)
    BY <1>2, CoverFinite
  <2>2. Cardinality(S \cup run(b, n)) = Cardinality(S) + n
    <3>1. run(b, n) \cap S = {} /\ b \in Int /\ n \in Nat
      BY <1>2, <2>1
    <3> QED BY <2>1, <3>1, CardMore
  <2> QED BY <1>2, <1>5, <2>1, <2>2
<1>17. r = [free_list |-> fl, property |-> h, flag |-> DOMAIN h, nr_free |-> m.nr_free + n]
  BY <1>7, <1>9, <1>10, <1>11, <1>14
<1>18. PmOK(r)
  <2>1. m.nr_free + n = Cardinality(Cover(h))
    BY <1>12, <1>16
  <2> QED BY <1>12, <1>13, <1>15, <1>17, <2>1, PmMade
<1> QED BY <1>1, <1>5, <1>12, <1>17, <1>18

-----------------------------------------------------------------------------
(* Sizes *)

Recurs(T, a, step, n) ==
    \E g \in [0 .. n -> T] : g[0] = a /\ \A k \in 1 .. n : g[k] = step[k][g[k - 1]]

\* A function is defined by its first value and a step from each value to the next.
LEMMA Recursion ==
    ASSUME NEW T, NEW a \in T, NEW step \in [Nat -> [T -> T]], NEW n \in Nat
    PROVE  Recurs(T, a, step, n)
<1> DEFINE Good(g, m) == g[0] = a /\ \A k \in 1 .. m : g[k] = step[k][g[k - 1]]
           Lacks == {m \in Nat : ~\E g \in [0 .. m -> T] : Good(g, m)}
<1> SUFFICES ASSUME n \in Lacks PROVE FALSE
  BY DEF Recurs
<1>1. PICK m \in Lacks : \A j \in Lacks : m <= j
  <2>1. Lacks \in SUBSET Nat /\ Lacks # {}
    OBVIOUS
  <2> HIDE DEF Lacks
  <2> QED BY <2>1, LeastNumber
<1>2. m \in Nat /\ ~\E g \in [0 .. m -> T] : Good(g, m)
  BY <1>1
<1>3. m # 0
  <2> SUFFICES ASSUME m = 0 PROVE FALSE
    OBVIOUS
  <2> DEFINE g == [k \in 0 .. 0 |-> a]
  <2>1. g \in [0 .. 0 -> T] /\ Good(g, 0)
    OBVIOUS
  <2> QED BY <2>1, <1>2
<1>4. m - 1 \in Nat /\ m - 1 \notin Lacks
  <2> HIDE DEF Lacks
  <2> QED BY <1>1, <1>2, <1>3
<1>5. PICK g \in [0 .. m - 1 -> T] : Good(g, m - 1)
  BY <1>4
<1> DEFINE v == step[m][g[m - 1]]
           h == [k \in 0 .. m |-> IF k = m THEN v ELSE g[k]]
<1>6. g[m - 1] \in T
  BY <1>4, <1>5
<1>7. v \in T
  BY <1>2, <1>6
<1>8. h \in [0 .. m -> T]
  <2> HIDE DEF v
  <2> QED BY <1>2, <1>5, <1>7
<1>9. h[0] = a
  <2> HIDE DEF v
  <2> QED BY <1>2, <1>3, <1>5
<1>10. ASSUME NEW k \in 1 .. m PROVE h[k] = step[k][h[k - 1]]
  <2>1. CASE k = m
    <3>1. h[k] = v /\ h[k - 1] = g[m - 1]
      BY <2>1, <1>2, <1>3
    <3> QED BY <2>1, <3>1
  <2>2. CASE k # m
    <3>1. k \in 1 .. m - 1 /\ h[k] = g[k] /\ h[k - 1] = g[k - 1]
      BY <2>2, <1>2
    <3>2. g[k] = step[k][g[k - 1]]
      BY <3>1, <1>5
    <3> HIDE DEF h
    <3> QED BY <3>1, <3>2
  <2> QED BY <2>1, <2>2
<1> HIDE DEF h
<1> QED BY <1>2, <1>8, <1>9, <1>10

\* n is 1, doubled k times.
Doubled(k, n) ==
    \E g : g[k] = n /\ \A i \in 0 .. k : /\ g[i] \in Nat \ {0}
                                       /\ g[i] = IF i = 0 THEN 1 ELSE 2 * g[i - 1]

LEMMA PagesNat ==
    ASSUME NEW order \in Nat
    PROVE  Pages(order) \in Nat \ {0} /\ Doubled(order, Pages(order))
<1> DEFINE T == Nat \ {0}
           step == [k \in Nat |-> [x \in T |-> 2 * x]]
           Is(g) == g = [k \in 0 .. order |-> IF k = 0 THEN 1 ELSE 2 * g[k - 1]]
           c == CHOOSE g : Is(g)
<1>1. Pages(order) = c[order]
  BY DEF Pages
<1>2. PICK g \in [0 .. order -> T] : g[0] = 1 /\ \A k \in 1 .. order : g[k] = 2 * g[k - 1]
  <2>1. 1 \in T /\ step \in [Nat -> [T -> T]]
    OBVIOUS
  <2>2. \A k \in Nat, x \in T : step[k][x] = 2 * x
    OBVIOUS
  <2> HIDE DEF T, step
  <2>3. PICK g \in [0 .. order -> T] : g[0] = 1 /\ \A k \in 1 .. order : g[k] = step[k][g[k - 1]]
    <3>1. PICK a \in T : a = 1
      BY <2>1
    <3>2. Recurs(T, a, step, order)
      BY <2>1, Recursion
    <3> QED BY <3>1, <3>2 DEF Recurs
  <2>4. ASSUME NEW k \in 1 .. order PROVE g[k] = 2 * g[k - 1]
    <3>1. k \in Nat /\ k - 1 \in 0 .. order
      OBVIOUS
    <3> QED BY <2>2, <2>3, <3>1
  <2> QED BY <2>3, <2>4
<1>3. Is(g)
  <2>1. g = [k \in 0 .. order |-> g[k]]
    BY <1>2
  <2>2. ASSUME NEW k \in 0 .. order PROVE g[k] = IF k = 0 THEN 1 ELSE 2 * g[k - 1]
    BY <1>2
  <2> QED BY <2>1, <2>2
<1>4. Is(c)
  <2> HIDE DEF Is
  <2> QED BY <1>3
<1>5. \A k \in 0 .. order : c[k] = IF k = 0 THEN 1 ELSE 2 * c[k - 1]
  <2> SUFFICES ASSUME NEW h, Is(h) PROVE \A k \in 0 .. order : h[k] = IF k = 0 THEN 1 ELSE 2 * h[k - 1]
    <3> HIDE DEF c, Is
    <3> QED BY <1>4
  <2> QED OBVIOUS
<1> HIDE DEF c, Is, T
<1>6. \A k \in 0 .. order : c[k] = g[k]
  <2> DEFINE Off == {k \in 0 .. order : c[k] # g[k]}
  <2> SUFFICES ASSUME Off # {} PROVE FALSE
    OBVIOUS
  <2>1. PICK k \in Off : \A j \in Off : k <= j
    <3>1. Off \in SUBSET Nat
      OBVIOUS
    <3> HIDE DEF Off
    <3> QED BY <3>1, LeastNumber
  <2>2. k \in 0 .. order /\ c[k] # g[k]
    BY <2>1
  <2>3. k # 0
    BY <1>2, <1>5, <2>2
  <2>4. k \in 1 .. order /\ k - 1 \in 0 .. order
    BY <2>2, <2>3
  <2>5. k - 1 \notin Off
    <3> HIDE DEF Off
    <3> QED BY <2>1, <2>2, <2>4
  <2>6. c[k - 1] = g[k - 1]
    BY <2>4, <2>5
  <2> QED BY <1>2, <1>5, <2>2, <2>3, <2>4, <2>6
<1>7. c[order] = g[order] /\ g[order] \in T
  BY <1>2, <1>6
<1>8. Doubled(order, Pages(order))
  <2>1. \A k \in 0 .. order : c[k] \in Nat \ {0}
    BY <1>2, <1>6 DEF T
  <2> QED BY <1>1, <1>5, <2>1 DEF Doubled
<1> QED BY <1>1, <1>7, <1>8 DEF T

\* k is the first time that size, halved k times, is no more than a page.
Halved(size, k) ==
    \E g : /\ \A i \in 0 .. size : g[i] = IF i = 0 THEN size ELSE g[i - 1] \div 2
          /\ k \in 0 .. size /\ g[k] <= PageUnits /\ \A j \in 0 .. k - 1 : g[j] > PageUnits

\* Halving a size brings it below a page in no more than size steps.
LEMMA OrderNat ==
    ASSUME NEW size \in Nat
    PROVE  find_order(size) \in Nat /\ Halved(size, find_order(size))
<1> DEFINE step == [k \in Nat |-> [x \in Nat |-> x \div 2]]
           Is(g) == g = [k \in 0 .. size |-> IF k = 0 THEN size ELSE g[k - 1] \div 2]
           c == CHOOSE g : Is(g)
<1>1. find_order(size) = CHOOSE k \in 0 .. size : c[k] <= PageUnits /\ \A j \in 0 .. k - 1 : c[j] > PageUnits
  BY DEF find_order
<1>2. PICK g \in [0 .. size -> Nat] : g[0] = size /\ \A k \in 1 .. size : g[k] = g[k - 1] \div 2
  <2>1. step \in [Nat -> [Nat -> Nat]]
    OBVIOUS
  <2>2. \A k \in Nat, x \in Nat : step[k][x] = x \div 2
    OBVIOUS
  <2> HIDE DEF step
  <2>3. Recurs(Nat, size, step, size)
    BY <2>1, Recursion
  <2>4. PICK g \in [0 .. size -> Nat] : g[0] = size /\ \A k \in 1 .. size : g[k] = step[k][g[k - 1]]
    BY <2>3 DEF Recurs
  <2>5. ASSUME NEW k \in 1 .. size PROVE g[k] = g[k - 1] \div 2
    <3>1. k \in Nat /\ k - 1 \in 0 .. size
      OBVIOUS
    <3> QED BY <2>2, <2>4, <3>1
  <2> QED BY <2>4, <2>5
<1>3. Is(g)
  <2>1. g = [k \in 0 .. size |-> g[k]]
    BY <1>2
  <2>2. ASSUME NEW k \in 0 .. size PROVE g[k] = IF k = 0 THEN size ELSE g[k - 1] \div 2
    BY <1>2
  <2> QED BY <2>1, <2>2
<1>4. Is(c)
  <2> HIDE DEF Is
  <2> QED BY <1>3
<1>5. \A k \in 0 .. size : c[k] = IF k = 0 THEN size ELSE c[k - 1] \div 2
  <2> SUFFICES ASSUME NEW h, Is(h) PROVE \A k \in 0 .. size : h[k] = IF k = 0 THEN size ELSE h[k - 1] \div 2
    <3> HIDE DEF c, Is
    <3> QED BY <1>4
  <2> QED OBVIOUS
<1> HIDE DEF c, Is
<1>6. \A k \in 0 .. size : c[k] \in Nat /\ c[k] <= size - k
  <2> DEFINE Off == {k \in 0 .. size : ~(c[k] \in Nat /\ c[k] <= size - k)}
  <2> SUFFICES ASSUME Off # {} PROVE FALSE
    OBVIOUS
  <2>1. PICK k \in Off : \A j \in Off : k <= j
    <3>1. Off \in SUBSET Nat
      OBVIOUS
    <3> HIDE DEF Off
    <3> QED BY <3>1, LeastNumber
  <2>2. k \in 0 .. size /\ ~(c[k] \in Nat /\ c[k] <= size - k)
    BY <2>1
  <2>3. k # 0
    BY <1>5, <2>2
  <2>4. k \in 1 .. size /\ k - 1 \in 0 .. size
    BY <2>2, <2>3
  <2>5. k - 1 \notin Off
    <3> HIDE DEF Off
    <3> QED BY <2>1, <2>2, <2>4
  <2>6. PICK x \in Nat : x = c[k - 1] /\ x <= size - (k - 1)
    BY <2>4, <2>5
  <2>7. c[k] = x \div 2
    BY <1>5, <2>4, <2>6
  <2>8. x \div 2 \in Nat /\ (x = 0 => x \div 2 = 0) /\ (x > 0 => x \div 2 <= x - 1)
    OBVIOUS
  <2>9. PICK y \in Nat : y = c[k] /\ (x = 0 => y = 0) /\ (x > 0 => y <= x - 1)
    BY <2>7, <2>8
  <2>10. y <= size - k
    <3>1. k \in Nat /\ k <= size /\ x <= size - (k - 1) /\ (x = 0 => y = 0) /\ (x > 0 => y <= x - 1)
      BY <2>4, <2>6, <2>9
    <3> QED BY ONLY <3>1, x \in Nat, y \in Nat, size \in Nat
  <2> QED BY <2>2, <2>9, <2>10
<1>7. PICK S : S = {k \in 0 .. size : c[k] <= PageUnits}
  OBVIOUS
<1>8. S \in SUBSET Nat /\ S # {}
  <2>1. size \in 0 .. size /\ c[size] \in Nat /\ c[size] <= size - size
    BY <1>6
  <2> QED BY <1>7, <2>1, HeapAssumption
<1>9. PICK k \in S : \A j \in S : k <= j
  BY <1>8, LeastNumber
<1>10. \A j \in 0 .. k - 1 : c[j] > PageUnits
  <2> SUFFICES ASSUME NEW j \in 0 .. k - 1 PROVE c[j] > PageUnits
    OBVIOUS
  <2>1. j \in 0 .. size /\ j \notin S
    BY <1>7, <1>9
  <2>2. c[j] \in Nat /\ ~(c[j] <= PageUnits)
    BY <1>6, <1>7, <2>1
  <2> QED BY <2>2, HeapAssumption
<1>11. k \in 0 .. size /\ c[k] <= PageUnits
  BY <1>7, <1>9
<1>12. \E i \in 0 .. size : c[i] <= PageUnits /\ \A j \in 0 .. i - 1 : c[j] > PageUnits
  BY <1>10, <1>11
<1>13. find_order(size) \in 0 .. size /\ c[find_order(size)] <= PageUnits
       /\ \A j \in 0 .. find_order(size) - 1 : c[j] > PageUnits
  BY <1>1, <1>12
<1> QED BY SMTT(30), <1>5, <1>13 DEF Halved

-----------------------------------------------------------------------------
(* The pages in use *)

\* A block somebody holds: pages of memory, none of them free.
Busy(C, p, n) == p \in Nat /\ n \in Nat \ {0} /\ p + n <= NPages /\ run(p, n) \cap C = {}

\* W are the blocks of other users, B the descriptors of kmalloc, C the free pages.
\* No two of the blocks share a page, and each has a length that was asked for.
InUse(C, W, B) ==
    /\ \A w \in W : Busy(C, w.page, w.n) /\ w.n \in 1 .. MaxBlock
    /\ \A d \in B : /\ Busy(C, d.page, Pages(d.order))
                    /\ \E size \in Big : d.order = find_order(size)
    /\ \A w, v \in W : w # v => run(w.page, w.n) \cap run(v.page, v.n) = {}
    /\ \A d, e \in B : d # e => run(d.page, Pages(d.order)) \cap run(e.page, Pages(e.order)) = {}
    /\ \A w \in W, d \in B : run(w.page, w.n) \cap run(d.page, Pages(d.order)) = {}

\* The kmalloc call under way.
CallOK(c) ==
    c # NoCall => /\ c = [size |-> c.size, bb |-> c.bb]
                  /\ c.size \in Small \cup Big
                  /\ c.bb # NULL => c.size \in Big

HeapInv ==
    /\ PmOK(pm)
    /\ InUse(Cover(pm.property), owned, bigblocks)
    /\ CallOK(call)

LEMMA BusyFewer ==
    ASSUME NEW C, NEW D \in SUBSET C, NEW p, NEW n, Busy(C, p, n)
    PROVE  Busy(D, p, n)
BY DEF Busy

LEMMA UseFewer ==
    ASSUME NEW C, NEW D \in SUBSET C, NEW W, NEW B, InUse(C, W, B)
    PROVE  InUse(D, W, B)
BY BusyFewer DEF InUse

LEMMA UseOwned ==
    ASSUME NEW C \in SUBSET Page, NEW W, NEW B, InUse(C, W, B), NEW p \in Nat, NEW n \in 1 .. MaxBlock,
           run(p, n) \subseteq C, NEW D, D = C \ run(p, n), NEW w, w = [page |-> p, n |-> n]
    PROVE  InUse(D, W \cup {w}, B)
<1>1. InUse(D, W, B)
  BY UseFewer
<1>2. n \in Nat \ {0} /\ w.page = p /\ w.n = n
  BY HeapAssumption
<1>3. Busy(D, p, n)
  <2>1. p + n - 1 \in run(p, n)
    BY <1>2 DEF run
  <2>2. p + n - 1 \in 0 .. NPages - 1
    BY <2>1 DEF Page
  <2>3. p + n <= NPages
    BY <1>2, <2>2, NPagesAssumption
  <2> QED BY <1>2, <2>3 DEF Busy
<1>4. \A v \in W : run(v.page, v.n) \cap run(p, n) = {}
  BY DEF InUse, Busy
<1>5. \A d \in B : run(d.page, Pages(d.order)) \cap run(p, n) = {}
  BY DEF InUse, Busy
<1> QED BY <1>1, <1>2, <1>3, <1>4, <1>5 DEF InUse

LEMMA UseBig ==
    ASSUME NEW C \in SUBSET Page, NEW W, NEW B, InUse(C, W, B), NEW p \in Nat, NEW size \in Big,
           NEW o, o = find_order(size), NEW n \in Nat \ {0}, n = Pages(o),
           run(p, n) \subseteq C, NEW D, D = C \ run(p, n),
           NEW x, NEW d, d = [bb |-> x, order |-> o, page |-> p]
    PROVE  InUse(D, W, B \cup {d})
<1>1. InUse(D, W, B)
  BY UseFewer
<1>2. d.page = p /\ Pages(d.order) = n /\ d.order = o
  OBVIOUS
<1>3. Busy(D, p, n)
  <2>1. p + n - 1 \in run(p, n)
    BY DEF run
  <2>2. p + n - 1 \in 0 .. NPages - 1
    BY <2>1 DEF Page
  <2>3. p + n <= NPages
    BY <2>2, NPagesAssumption
  <2> QED BY <2>3 DEF Busy
<1>4. \A v \in W : run(v.page, v.n) \cap run(p, n) = {}
  BY DEF InUse, Busy
<1>5. \A e \in B : run(e.page, Pages(e.order)) \cap run(p, n) = {}
  BY DEF InUse, Busy
<1>6. ASSUME NEW e \in B \cup {d}
      PROVE  Busy(D, e.page, Pages(e.order)) /\ \E s \in Big : e.order = find_order(s)
  <2>1. CASE e = d
    BY <1>2, <1>3, <2>1
  <2>2. CASE e # d
    BY <1>1, <2>2 DEF InUse
  <2> QED BY <2>1, <2>2
<1>7. ASSUME NEW e \in B \cup {d}, NEW c \in B \cup {d}, e # c
      PROVE  run(e.page, Pages(e.order)) \cap run(c.page, Pages(c.order)) = {}
  <2>1. CASE e = d
    BY <1>2, <1>5, <1>7, <2>1
  <2>2. CASE c = d
    BY <1>2, <1>5, <1>7, <2>2
  <2>3. CASE e # d /\ c # d
    BY <1>1, <1>7, <2>3 DEF InUse
  <2> QED BY <2>1, <2>2, <2>3
<1>8. ASSUME NEW w \in W, NEW e \in B \cup {d}
      PROVE  run(w.page, w.n) \cap run(e.page, Pages(e.order)) = {}
  <2>1. CASE e = d
    BY <1>2, <1>4, <2>1
  <2>2. CASE e # d
    BY <1>1, <2>2 DEF InUse
  <2> QED BY <2>1, <2>2
<1>9. /\ \A w \in W : Busy(D, w.page, w.n) /\ w.n \in 1 .. MaxBlock
      /\ \A w, v \in W : w # v => run(w.page, w.n) \cap run(v.page, v.n) = {}
  BY <1>1 DEF InUse
<1> QED BY <1>6, <1>7, <1>8, <1>9 DEF InUse

LEMMA UseLessOwned ==
    ASSUME NEW C, NEW W, NEW B, InUse(C, W, B), NEW w \in W
    PROVE  InUse(C \cup run(w.page, w.n), W \ {w}, B)
<1>1. PICK T : T = run(w.page, w.n)
  OBVIOUS
<1>2. \A v \in W \ {w} : Busy(C \cup T, v.page, v.n)
  <2> TAKE v \in W \ {w}
  <2>1. Busy(C, v.page, v.n) /\ run(v.page, v.n) \cap T = {}
    BY <1>1 DEF InUse
  <2> QED BY <2>1 DEF Busy
<1>3. \A d \in B : Busy(C \cup T, d.page, Pages(d.order))
  <2> TAKE d \in B
  <2>1. Busy(C, d.page, Pages(d.order)) /\ run(d.page, Pages(d.order)) \cap T = {}
    BY <1>1 DEF InUse
  <2> QED BY <2>1 DEF Busy
<1>4. InUse(C \cup T, W \ {w}, B)
  BY <1>2, <1>3 DEF InUse
<1> QED BY <1>1, <1>4

LEMMA UseLessBig ==
    ASSUME NEW C, NEW W, NEW B, InUse(C, W, B), NEW e \in B
    PROVE  InUse(C \cup run(e.page, Pages(e.order)), W, B \ {e})
<1>1. PICK T : T = run(e.page, Pages(e.order))
  OBVIOUS
<1>2. \A v \in W : Busy(C \cup T, v.page, v.n)
  <2> TAKE v \in W
  <2>1. Busy(C, v.page, v.n) /\ run(v.page, v.n) \cap T = {}
    BY <1>1 DEF InUse
  <2> QED BY <2>1 DEF Busy
<1>3. \A d \in B \ {e} : Busy(C \cup T, d.page, Pages(d.order))
  <2> TAKE d \in B \ {e}
  <2>1. Busy(C, d.page, Pages(d.order)) /\ run(d.page, Pages(d.order)) \cap T = {}
    BY <1>1 DEF InUse
  <2> QED BY <2>1 DEF Busy
<1>4. InUse(C \cup T, W, B \ {e})
  BY <1>2, <1>3 DEF InUse
<1> QED BY <1>1, <1>4

-----------------------------------------------------------------------------
(* The invariant *)

LEMMA FreeIsCover ==
    ASSUME NEW m, PmOK(m)
    PROVE  FreePages(m) = Cover(m.property)
<1>1. PICK L, f : L = m.free_list /\ f = m.property
  OBVIOUS
<1>2. DOMAIN f = {L[i] : i \in 1 .. Len(L)}
  BY <1>1 DEF PmOK, Lists
<1>3. FreePages(m) = UNION {run(L[i], f[L[i]]) : i \in 1 .. Len(L)}
  BY <1>1 DEF FreePages, FreeBlock, run
<1>4. Cover(f) = UNION {run(L[i], f[L[i]]) : i \in 1 .. Len(L)}
  BY <1>2 DEF Cover
<1> QED BY <1>1, <1>3, <1>4

LEMMA FirstPm == PmOK(default_init_memmap) /\ Cover(default_init_memmap.property) = Page
<1>1. PICK f : f = [p \in {0} |-> NPages]
  OBVIOUS
<1>2. DOMAIN f = {0} /\ f[0] = NPages
  BY <1>1
<1>3. BlockMap(f)
  <2>1. \A x \in {0} : f[x] \in Nat /\ f[x] > 0 /\ x + f[x] <= NPages
    BY <1>2, NPagesAssumption
  <2>2. f = [x \in {0} |-> f[x]] /\ {0} \in SUBSET Nat
    BY <1>1
  <2> QED BY <1>2, <2>1, <2>2, IsBlockMap
<1>4. Apart(f)
  BY <1>2 DEF Apart
<1>5. Cover(f) = run(0, NPages)
  BY <1>2 DEF Cover
<1>6. run(0, NPages) = Page
  BY NPagesAssumption DEF run, Page
<1>7. NPages = Cardinality(Cover(f))
  BY <1>5, RunCard, NPagesAssumption
<1>8. Lists(<<0>>, {0})
  <2>1. <<0>> \in Seq(Int) /\ Len(<<0>>) = 1 /\ <<0>>[1] = 0 /\ 1 .. 1 = {1}
    OBVIOUS
  <2> QED BY <2>1 DEF Lists
<1>9. default_init_memmap = [free_list |-> <<0>>, property |-> f, flag |-> {0}, nr_free |-> NPages]
  BY <1>1 DEF default_init_memmap
<1>10. PmOK(default_init_memmap)
  BY <1>2, <1>3, <1>4, <1>7, <1>8, <1>9, PmMade
<1> QED BY <1>5, <1>6, <1>9, <1>10

\* What a request asks for.
LEMMA OrderPages ==
    ASSUME NEW size \in Big
    PROVE  Pages(find_order(size)) \in Nat \ {0}
<1>1. size \in Nat
  BY HeapAssumption
<1> QED BY <1>1, OrderNat, PagesNat

\* What alloc_pages does to the pages, whoever calls it.
LEMMA AllocStep ==
    ASSUME HeapInv, NEW n \in Nat \ {0}, NEW r, r = default_alloc_pages(pm, n)
    PROVE  /\ r.page = NULL => r.pm = pm
           /\ r.page # NULL => /\ r.page \in Nat /\ PmOK(r.pm)
                               /\ run(r.page, n) \subseteq Cover(pm.property)
                               /\ Cover(r.pm.property) = Cover(pm.property) \ run(r.page, n)
           /\ Cover(pm.property) \in SUBSET Page
<1>1. PmOK(pm)
  BY DEF HeapInv
<1>2. Alloced(pm, n, r)
  BY <1>1, AllocPages
<1>3. BlockMap(pm.property)
  BY <1>1 DEF PmOK
<1> QED BY <1>2, <1>3, CoverFinite DEF Alloced

LEMMA FreeBusy ==
    ASSUME NEW m, PmOK(m), NEW p, NEW n, Busy(Cover(m.property), p, n),
           NEW r, r = default_free_pages(m, p, n)
    PROVE  PmOK(r) /\ Cover(r.property) = Cover(m.property) \cup run(p, n)
BY FreePagesBack DEF Busy

LEMMA InvInit == Init => HeapInv
<1> SUFFICES ASSUME Init PROVE HeapInv
  OBVIOUS
<1>1. PmOK(pm)
  BY FirstPm DEF Init
<1>2. InUse(Cover(pm.property), owned, bigblocks)
  BY DEF Init, InUse
<1>3. CallOK(call)
  BY DEF Init, CallOK
<1> QED BY <1>1, <1>2, <1>3 DEF HeapInv

LEMMA InvNext == HeapInv /\ [Next]_vars => HeapInv'
<1> SUFFICES ASSUME HeapInv, [Next]_vars PROVE HeapInv'
  OBVIOUS
<1>0. PmOK(pm) /\ InUse(Cover(pm.property), owned, bigblocks) /\ CallOK(call)
  BY DEF HeapInv
<1> USE <1>0
<1>1. ASSUME NEW s \in Small \cup Big, Kmalloc(s) PROVE HeapInv'
  <2>1. call' = [size |-> s, bb |-> NULL] /\ pm' = pm /\ owned' = owned /\ bigblocks' = bigblocks
    BY <1>1 DEF Kmalloc
  <2>2. CallOK(call')
    BY <2>1 DEF CallOK
  <2> QED BY <2>1, <2>2 DEF HeapInv
<1>2. CASE SlobTakes
  <2>1. call # NoCall /\ pm' = pm /\ owned' = owned /\ bigblocks' = bigblocks
    BY <1>2 DEF SlobTakes
  <2>2. \/ call' = NoCall
        \/ call.size >= PageUnits - Header /\ \E b : call' = [call EXCEPT !.bb = b]
    BY <1>2 DEF SlobTakes
  <2>3. CallOK(call')
    <3>1. CASE call' = NoCall
      BY <3>1 DEF CallOK
    <3>2. CASE call.size >= PageUnits - Header /\ \E b : call' = [call EXCEPT !.bb = b]
      <4>1. PICK b : call' = [call EXCEPT !.bb = b]
        BY <3>2
      <4>2. call = [size |-> call.size, bb |-> call.bb] /\ call.size \in Small \cup Big
        BY <2>1 DEF CallOK
      <4>3. PICK s, x : s = call.size /\ call = [size |-> s, bb |-> x]
        BY <4>2
      <4>4. call' = [size |-> s, bb |-> b]
        BY <4>1, <4>3
      <4>5. s \in Big
        <5>1. s \in Small => s \in Nat /\ s + 2 < PageUnits
          BY HeapAssumption
        <5>2. s \in Small => FALSE
          BY <3>2, <4>3, <5>1, HeapAssumption DEF Header
        <5> QED BY <4>2, <4>3, <5>2
      <4> QED BY <4>4, <4>5 DEF CallOK
    <3> QED BY <2>2, <3>1, <3>2
  <2> QED BY <2>1, <2>3 DEF HeapInv
<1>3. CASE SlobGrows
  <2>1. PICK r : r = default_alloc_pages(pm, 1)
    OBVIOUS
  <2>2. pm' = r.pm /\ owned' = owned /\ bigblocks' = bigblocks /\ (call' = NoCall \/ call' = call)
    BY <1>3, <2>1 DEF SlobGrows, alloc_pages
  <2>3. PmOK(r.pm) /\ Cover(r.pm.property) \in SUBSET Cover(pm.property)
    BY <2>1, AllocStep
  <2>4. InUse(Cover(r.pm.property), owned, bigblocks)
    BY <2>3, UseFewer
  <2>5. CallOK(call')
    BY <2>2 DEF CallOK
  <2> QED BY <2>2, <2>3, <2>4, <2>5 DEF HeapInv
<1>4. CASE BigPages
  <2>1. PICK o : o = find_order(call.size)
    OBVIOUS
  <2>2. PICK r : r = default_alloc_pages(pm, Pages(o))
    OBVIOUS
  <2>3. /\ pm' = r.pm /\ owned' = owned /\ call' = NoCall
        /\ r.page = NULL => bigblocks' = bigblocks
        /\ r.page # NULL => bigblocks' = bigblocks \cup {[bb |-> call.bb, order |-> o, page |-> r.page]}
    BY <1>4, <2>1, <2>2 DEF BigPages, alloc_pages
  <2>4. call.size \in Big
    BY <1>4 DEF BigPages, CallOK
  <2>5. PICK n \in Nat \ {0} : n = Pages(o)
    BY <2>1, <2>4, OrderPages
  <2>6. CallOK(call')
    BY <2>3 DEF CallOK
  <2>7. CASE r.page = NULL
    <3>1. r.pm = pm
      BY <2>2, <2>5, <2>7, AllocStep
    <3> QED BY <2>3, <2>6, <2>7, <3>1 DEF HeapInv
  <2>8. CASE r.page # NULL
    <3>1. /\ r.page \in Nat /\ PmOK(r.pm) /\ run(r.page, n) \subseteq Cover(pm.property)
          /\ Cover(r.pm.property) = Cover(pm.property) \ run(r.page, n)
          /\ Cover(pm.property) \in SUBSET Page
      BY <2>2, <2>5, <2>8, AllocStep
    <3>2. PICK p \in Nat : p = r.page
      BY <3>1
    <3>3. PICK d : d = [bb |-> call.bb, order |-> o, page |-> p]
      OBVIOUS
    <3>4. PICK C, D : C = Cover(pm.property) /\ D = Cover(r.pm.property)
      OBVIOUS
    <3>5. InUse(D, owned, bigblocks \cup {d})
      BY <2>1, <2>4, <2>5, <3>1, <3>2, <3>3, <3>4, UseBig
    <3> QED BY <2>3, <2>6, <2>8, <3>1, <3>2, <3>3, <3>4, <3>5 DEF HeapInv
  <2> QED BY <2>7, <2>8
<1>5. ASSUME NEW o \in objs, Kfree(o) PROVE HeapInv'
  <2>1. call' = call /\ owned' = owned
    BY <1>5 DEF Kfree
  <2>2. CASE descriptor(o.addr) = {}
    <3>1. pm' = pm /\ bigblocks' = bigblocks
      BY <1>5, <2>2 DEF Kfree
    <3> QED BY <2>1, <3>1 DEF HeapInv
  <2>3. CASE descriptor(o.addr) # {}
    <3>1. PICK d : d = CHOOSE e \in descriptor(o.addr) : TRUE
      OBVIOUS
    <3>2. d \in bigblocks
      BY <2>3, <3>1 DEF descriptor
    <3>3. pm' = default_free_pages(pm, d.page, Pages(d.order)) /\ bigblocks' = bigblocks \ {d}
      BY <1>5, <2>3, <3>1 DEF Kfree
    <3>4. Busy(Cover(pm.property), d.page, Pages(d.order))
      BY <3>2 DEF InUse
    <3>5. PmOK(pm') /\ Cover(pm'.property) = Cover(pm.property) \cup run(d.page, Pages(d.order))
      BY <3>3, <3>4, FreeBusy
    <3>6. InUse(Cover(pm'.property), owned, bigblocks \ {d})
      BY <3>2, <3>5, UseLessBig
    <3> QED BY <2>1, <3>3, <3>5, <3>6 DEF HeapInv
  <2> QED BY <2>2, <2>3
<1>6. ASSUME NEW n \in 1 .. MaxBlock, AllocBlock(n) PROVE HeapInv'
  <2>0. n \in Nat \ {0}
    BY HeapAssumption
  <2>1. PICK r : r = default_alloc_pages(pm, n)
    OBVIOUS
  <2>2. /\ pm' = r.pm /\ bigblocks' = bigblocks /\ call' = call
        /\ r.page = NULL => owned' = owned
        /\ r.page # NULL => owned' = owned \cup {[page |-> r.page, n |-> n]}
    BY <1>6, <2>1 DEF AllocBlock, alloc_pages
  <2>3. CASE r.page = NULL
    <3>1. r.pm = pm
      BY <2>0, <2>1, <2>3, AllocStep
    <3> QED BY <2>2, <2>3, <3>1 DEF HeapInv
  <2>4. CASE r.page # NULL
    <3>1. /\ r.page \in Nat /\ PmOK(r.pm) /\ run(r.page, n) \subseteq Cover(pm.property)
          /\ Cover(r.pm.property) = Cover(pm.property) \ run(r.page, n)
          /\ Cover(pm.property) \in SUBSET Page
      BY <2>0, <2>1, <2>4, AllocStep
    <3>2. PICK p \in Nat : p = r.page
      BY <3>1
    <3>3. PICK w : w = [page |-> p, n |-> n]
      OBVIOUS
    <3>4. PICK C, D : C = Cover(pm.property) /\ D = Cover(r.pm.property)
      OBVIOUS
    <3>5. InUse(D, owned \cup {w}, bigblocks)
      BY <3>1, <3>2, <3>3, <3>4, UseOwned
    <3> QED BY <2>2, <2>4, <3>1, <3>2, <3>3, <3>4, <3>5 DEF HeapInv
  <2> QED BY <2>3, <2>4
<1>7. ASSUME NEW w \in owned, FreeBlockOf(w) PROVE HeapInv'
  <2>1. /\ pm' = default_free_pages(pm, w.page, w.n) /\ owned' = owned \ {w}
        /\ call' = call /\ bigblocks' = bigblocks
    BY <1>7 DEF FreeBlockOf
  <2>2. Busy(Cover(pm.property), w.page, w.n)
    BY DEF InUse
  <2>3. PmOK(pm') /\ Cover(pm'.property) = Cover(pm.property) \cup run(w.page, w.n)
    BY <2>1, <2>2, FreeBusy
  <2>4. InUse(Cover(pm'.property), owned \ {w}, bigblocks)
    BY <2>3, UseLessOwned
  <2> QED BY <2>1, <2>3, <2>4 DEF HeapInv
<1>8. CASE SwapInit
  BY <1>8 DEF SwapInit, HeapInv
<1>9. CASE UNCHANGED vars
  BY <1>9 DEF vars, HeapInv
<1> QED BY <1>1, <1>2, <1>3, <1>4, <1>5, <1>6, <1>7, <1>8, <1>9 DEF Next

\* The allocator's state is consistent and every block held is apart from the free
\* pages and from every other block, after every call of kmalloc, kfree, alloc_pages
\* and free_pages.
THEOREM HeapInvariant == Spec => []HeapInv
<1> QED BY InvInit, InvNext, PTL DEF Spec

\* The free list is sorted and merged, PG_property and nr_free agree with it, and no
\* block that may be freed trips the assertion of default_free_pages.
THEOREM ListExact == Spec => []FreeListExact
<1>1. ASSUME HeapInv PROVE FreeListExact
  <2>1. PICK L, f : L = pm.free_list /\ f = pm.property
    OBVIOUS
  <2>2. /\ BlockMap(f) /\ Apart(f) /\ Lists(L, DOMAIN f) /\ pm.flag = DOMAIN f
        /\ pm.nr_free = Cardinality(Cover(f)) /\ FreePages(pm) = Cover(f)
        /\ InUse(Cover(f), owned, bigblocks)
    BY <1>1, <2>1, FreeIsCover DEF HeapInv, PmOK
  <2>3. PICK len \in Nat : len = Len(L)
    BY <2>2 DEF Lists
  <2>4. /\ DOMAIN f = {L[i] : i \in 1 .. len}
        /\ \A i, j \in 1 .. len : i < j => L[i] < L[j]
    BY <2>2, <2>3 DEF Lists
  <2>5. ASSUME NEW i \in 1 .. (len - 1) PROVE L[i] + f[L[i]] < L[i + 1]
    <3>1. i \in 1 .. len /\ i + 1 \in 1 .. len /\ i < i + 1
      OBVIOUS
    <3>2. L[i] < L[i + 1] /\ L[i] \in DOMAIN f /\ L[i + 1] \in DOMAIN f
      BY <2>4, <3>1
    <3> QED BY <2>2, <3>2 DEF Apart
  <2>6. ASSUME NEW p, NEW n, Busy(Cover(f), p, n) PROVE FreeAsserts(pm, p, n)
    <3>1. ASSUME NEW x \in DOMAIN f PROVE x \in Cover(f)
      BY <2>2, BlockFacts, InCover
    <3> QED BY <2>2, <2>6, <3>1 DEF FreeAsserts, Busy, run
  <2>7. /\ \A w \in owned : FreeAsserts(pm, w.page, w.n)
        /\ \A d \in bigblocks : FreeAsserts(pm, d.page, Pages(d.order))
    BY <2>2, <2>6 DEF InUse
  <2>8. \A i \in 1 .. Len(pm.free_list) - 1 :
            pm.free_list[i] + pm.property[pm.free_list[i]] < pm.free_list[i + 1]
    BY <2>1, <2>3, <2>5
  <2>9. pm.flag = {pm.free_list[i] : i \in 1 .. Len(pm.free_list)}
    BY <2>1, <2>2, <2>3, <2>4
  <2> QED BY <2>2, <2>7, <2>8, <2>9 DEF FreeListExact
<1> QED BY <1>1, HeapInvariant, PTL

-----------------------------------------------------------------------------
(* The refinement *)

Asked == {1} \cup (1 .. MaxBlock) \cup {Pages(find_order(size)) : size \in Big}

LEMMA AskedNat == ASSUME NEW n \in Asked PROVE n \in Nat \ {0}
BY OrderPages, HeapAssumption DEF Asked

\* A call of alloc_pages grants free pages, or refuses because nothing fits.
LEMMA AllocImplements ==
    ASSUME PmOK(pm), NEW n \in Asked, NEW r, r = default_alloc_pages(pm, n), pm' = r.pm,
           refused' = IF r.page = NULL THEN n ELSE 0
    PROVE  Pages_!PageNext
<1>0. n \in Nat \ {0}
  BY AskedNat
<1>1. Alloced(pm, n, r)
  BY <1>0, AllocPages
<1>2. BlockMap(pm.property) /\ Apart(pm.property) /\ Cover(pm.property) \in SUBSET Page
  BY CoverFinite DEF PmOK
<1>3. CASE r.page = NULL
  <2>1. pm' = pm /\ refused' = n
    BY <1>1, <1>3 DEF Alloced
  <2>2. ASSUME NEW b \in FreePages(pm), Pages_!Run(b, n) \subseteq FreePages(pm) PROVE FALSE
    <3>1. b \in Int /\ run(b, n) \subseteq Cover(pm.property)
      BY <1>2, <2>2, FreeIsCover DEF Page, run, Pages_!Run
    <3>2. n > Cardinality(Cover(pm.property)) \/ \A p \in DOMAIN pm.property : pm.property[p] < n
      BY <1>1, <1>3 DEF Alloced
    <3> QED BY <1>0, <1>2, <3>1, <3>2, Unfit
  <2>3. Pages_!Refuse(n)
    BY <2>1, <2>2 DEF Pages_!Refuse
  <2> QED BY <2>3 DEF Pages_!PageNext, Asked
<1>4. CASE r.page # NULL
  <2>1. PICK b \in Nat : b = r.page
    BY <1>1, <1>4 DEF Alloced
  <2>2. /\ refused' = 0 /\ PmOK(pm') /\ run(b, n) \subseteq Cover(pm.property)
        /\ Cover(pm'.property) = Cover(pm.property) \ run(b, n)
    BY <1>1, <1>4, <2>1 DEF Alloced
  <2>3. FreePages(pm) = Cover(pm.property) /\ FreePages(pm') = Cover(pm'.property)
    BY <2>2, FreeIsCover
  <2>4. Pages_!Grant(b, n)
    BY <2>2, <2>3 DEF Pages_!Grant, Pages_!Run, run
  <2>5. b \in 0 .. NPages - n
    <3>1. b + n - 1 \in run(b, n)
      BY <1>0 DEF run
    <3>2. b + n - 1 \in 0 .. NPages - 1
      BY <1>2, <2>2, <3>1 DEF Page
    <3> QED BY <1>0, <3>2, NPagesAssumption
  <2> QED BY <2>4, <2>5 DEF Pages_!PageNext, Asked
<1> QED BY <1>3, <1>4

\* A call of free_pages gives back pages that were not free.
LEMMA FreeImplements ==
    ASSUME PmOK(pm), NEW n \in Asked, NEW b, Busy(Cover(pm.property), b, n),
           pm' = default_free_pages(pm, b, n), refused' = 0
    PROVE  Pages_!PageNext
<1>1. PmOK(pm') /\ Cover(pm'.property) = Cover(pm.property) \cup run(b, n)
  BY FreeBusy
<1>2. FreePages(pm) = Cover(pm.property) /\ FreePages(pm') = Cover(pm'.property)
  BY <1>1, FreeIsCover
<1>3. Pages_!GiveBack(b, n)
  BY <1>1, <1>2 DEF Busy, run, Pages_!GiveBack, Pages_!Run
<1>4. b \in 0 .. NPages - n
  BY NPagesAssumption DEF Busy
<1> QED BY <1>3, <1>4 DEF Pages_!PageNext, Asked

LEMMA PageStep == HeapInv /\ [Next]_vars => [Pages_!PageNext]_(Pages_!pageVars)
<1> SUFFICES ASSUME HeapInv, [Next]_vars PROVE [Pages_!PageNext]_(Pages_!pageVars)
  OBVIOUS
<1>0. PmOK(pm) /\ InUse(Cover(pm.property), owned, bigblocks) /\ CallOK(call)
  BY DEF HeapInv
<1>s. ASSUME pm' = pm, refused' = refused PROVE UNCHANGED Pages_!pageVars
  BY <1>s DEF Pages_!pageVars, FreePages, FreeBlock
<1>1. ASSUME NEW s \in Small \cup Big, Kmalloc(s) PROVE UNCHANGED Pages_!pageVars
  BY <1>1, <1>s DEF Kmalloc
<1>2. ASSUME SlobTakes PROVE UNCHANGED Pages_!pageVars
  BY <1>2, <1>s DEF SlobTakes
<1>3. ASSUME SlobGrows PROVE Pages_!PageNext
  <2>1. PICK r : r = default_alloc_pages(pm, 1)
    OBVIOUS
  <2>2. pm' = r.pm /\ refused' = IF r.page = NULL THEN 1 ELSE 0
    BY <1>3, <2>1 DEF SlobGrows, alloc_pages
  <2>3. 1 \in Asked
    BY DEF Asked
  <2> QED BY <1>0, <2>1, <2>2, <2>3, AllocImplements
<1>4. ASSUME BigPages PROVE Pages_!PageNext
  <2>1. PICK n : n = Pages(find_order(call.size))
    OBVIOUS
  <2>2. PICK r : r = default_alloc_pages(pm, n)
    OBVIOUS
  <2>3. pm' = r.pm /\ refused' = IF r.page = NULL THEN n ELSE 0
    BY <1>4, <2>1, <2>2 DEF BigPages, alloc_pages
  <2>4. call.size \in Big
    BY <1>0, <1>4 DEF BigPages, CallOK
  <2>5. n \in Asked
    BY <2>1, <2>4 DEF Asked
  <2> QED BY <1>0, <2>2, <2>3, <2>5, AllocImplements
<1>5. ASSUME NEW o \in objs, Kfree(o) PROVE [Pages_!PageNext]_(Pages_!pageVars)
  <2>1. CASE descriptor(o.addr) = {}
    BY <1>5, <1>s, <2>1 DEF Kfree
  <2>2. CASE descriptor(o.addr) # {}
    <3>1. PICK d : d = CHOOSE e \in descriptor(o.addr) : TRUE
      OBVIOUS
    <3>2. d \in bigblocks
      BY <2>2, <3>1 DEF descriptor
    <3>3. PICK n, b : n = Pages(d.order) /\ b = d.page
      OBVIOUS
    <3>4. pm' = default_free_pages(pm, b, n) /\ refused' = 0
      BY <1>5, <2>2, <3>1, <3>3 DEF Kfree
    <3>5. Busy(Cover(pm.property), b, n)
      BY <1>0, <3>2, <3>3 DEF InUse
    <3>6. n \in Asked
      BY <1>0, <3>2, <3>3 DEF InUse, Asked
    <3> QED BY <1>0, <3>4, <3>5, <3>6, FreeImplements
  <2> QED BY <2>1, <2>2
<1>6. ASSUME NEW n \in 1 .. MaxBlock, AllocBlock(n) PROVE Pages_!PageNext
  <2>1. PICK r : r = default_alloc_pages(pm, n)
    OBVIOUS
  <2>2. pm' = r.pm /\ refused' = IF r.page = NULL THEN n ELSE 0
    BY <1>6, <2>1 DEF AllocBlock, alloc_pages
  <2>3. n \in Asked
    BY DEF Asked
  <2> QED BY <1>0, <2>1, <2>2, <2>3, AllocImplements
<1>7. ASSUME NEW w \in owned, FreeBlockOf(w) PROVE Pages_!PageNext
  <2>1. PICK n, b : n = w.n /\ b = w.page
    OBVIOUS
  <2>2. pm' = default_free_pages(pm, b, n) /\ refused' = 0
    BY <1>7, <2>1 DEF FreeBlockOf
  <2>3. Busy(Cover(pm.property), b, n) /\ n \in 1 .. MaxBlock
    BY <1>0, <2>1 DEF InUse
  <2>4. n \in Asked
    BY <2>3 DEF Asked
  <2> QED BY <1>0, <2>2, <2>3, <2>4, FreeImplements
<1>8. ASSUME SwapInit PROVE UNCHANGED Pages_!pageVars
  BY <1>8, <1>s DEF SwapInit
<1>9. ASSUME UNCHANGED vars PROVE UNCHANGED Pages_!pageVars
  BY <1>9, <1>s DEF vars
<1> QED BY <1>1, <1>2, <1>3, <1>4, <1>5, <1>6, <1>7, <1>8, <1>9 DEF Next

\* The page allocator keeps the promise of PageSpec whatever its callers ask for:
\* blocks are granted from free pages, no page is lost or freed twice, and first
\* fit refuses only a request that fits nowhere.
THEOREM PagesImplement == Spec => PagesSafety
<1>1. Init => Pages_!PageInit
  <2> SUFFICES ASSUME Init PROVE Pages_!PageInit
    OBVIOUS
  <2>1. pm = default_init_memmap /\ refused = 0
    BY DEF Init
  <2>2. FreePages(pm) = Page
    BY <2>1, FirstPm, FreeIsCover
  <2> QED BY <2>1, <2>2 DEF Pages_!PageInit, Page
<1> QED BY <1>1, PageStep, HeapInvariant, PTL DEF Spec, PagesSafety, Pages_!PageSafety

-----------------------------------------------------------------------------
(* The ring of free blocks of the heap *)

LEMMA UnitInt == Unit \in SUBSET Int /\ \A x \in Unit : x # arena => x > arena
BY HeapAssumption, NPagesAssumption DEF Unit, arena

LEMMA UnitFinite == IsFiniteSet(Unit) /\ Cardinality(Unit) \in Nat
<1>1. PICK m \in Int : m = NPages * PageUnits - 1
  BY HeapAssumption, NPagesAssumption
<1>2. IsFiniteSet(0 .. m)
  BY FS_Interval
<1>3. IsFiniteSet((0 .. m) \cup {arena})
  BY <1>2, FS_AddElement
<1>4. Unit = (0 .. m) \cup {arena}
  BY <1>1 DEF Unit
<1> QED BY <1>3, <1>4, FS_CardinalityType

\* A set of integers between two bounds has a greatest element.
LEMMA Greatest ==
    ASSUME NEW S \in SUBSET Unit, S # {}
    PROVE  \E m \in S : \A x \in S : x <= m
<1>1. PICK e \in Int : e = NPages * PageUnits
  BY HeapAssumption, NPagesAssumption
<1>2. \A x \in S : x \in Int /\ x <= e
  BY <1>1, HeapAssumption, NPagesAssumption DEF Unit, arena
<1>3. PICK T : T = {e - x : x \in S}
  OBVIOUS
<1>4. T \in SUBSET Nat /\ T # {}
  BY <1>2, <1>3
<1>5. PICK k \in T : \A j \in T : k <= j
  BY <1>4, LeastNumber
<1>6. PICK m \in S : k = e - m
  BY <1>3, <1>5
<1>7. ASSUME NEW x \in S PROVE x <= m
  <2>1. e - x \in T
    BY <1>3
  <2>2. e - m <= e - x
    BY <1>5, <1>6, <2>1
  <2> QED BY <1>1, <1>2, <2>2
<1> QED BY <1>7

\* c is the element of S after b, going round.
Succ(S, b, c) ==
    /\ c \in S
    /\ b < c => \A x \in S : x <= b \/ c <= x
    /\ c <= b => \A x \in S : c <= x /\ x <= b

Cyclic(S, nx) == S \in SUBSET Unit /\ nx \in [S -> S] /\ \A b \in S : Succ(S, b, nx[b])

LEMMA SuccInjective ==
    ASSUME NEW S, NEW nx, Cyclic(S, nx), NEW b \in S, NEW c \in S, nx[b] = nx[c]
    PROVE  b = c
<1>1. PICK y : y = nx[b] /\ y = nx[c]
  OBVIOUS
<1>2. Succ(S, b, y) /\ Succ(S, c, y) /\ b \in Int /\ c \in Int /\ y \in Int
  BY <1>1, UnitInt DEF Cyclic
<1>3. /\ b < y => (c <= b \/ y <= c) /\ (b <= c => c <= b \/ y <= c)
      /\ y <= b => y <= c /\ c <= b
      /\ c < y => (b <= c \/ y <= b)
      /\ y <= c => y <= b /\ b <= c
  BY <1>2 DEF Succ
<1> QED BY <1>2, <1>3

\* c leaves the ring.
LEMMA Cut ==
    ASSUME NEW S, NEW nx, Cyclic(S, nx), NEW p \in S, NEW c, c = nx[p], c # p,
           NEW ny, ny = drop([nx EXCEPT ![p] = nx[c]], {c})
    PROVE  Cyclic(S \ {c}, ny)
<1>1. S \in SUBSET Unit /\ nx \in [S -> S] /\ c \in S /\ S \in SUBSET Int
  BY UnitInt DEF Cyclic
<1>2. DOMAIN ny = S \ {c} /\ ny[p] = nx[c] /\ \A b \in S \ {c, p} : ny[b] = nx[b]
  BY <1>1 DEF drop
<1>3. ASSUME NEW b \in S \ {c} PROVE Succ(S \ {c}, b, ny[b])
  <2>1. CASE b # p
    <3>0. b \in S /\ (nx[b] = nx[p] => b = p)
      BY SuccInjective
    <3>1. ny[b] = nx[b] /\ nx[b] # c
      BY <1>2, <2>1, <3>0
    <3>2. Succ(S, b, nx[b])
      BY DEF Cyclic
    <3> QED BY <3>1, <3>2 DEF Succ
  <2>2. CASE b = p
    <3>1. PICK y : y = nx[c]
      OBVIOUS
    <3>2. Succ(S, p, c) /\ Succ(S, c, y) /\ p \in Int /\ c \in Int /\ y \in Int
      BY <1>1, <3>1 DEF Cyclic
    <3>3. y # c
      BY <3>2, <1>1 DEF Succ
    <3>4. y \in S \ {c}
      BY <3>2, <3>3 DEF Succ
    <3>5. ASSUME NEW x \in S \ {c}
          PROVE  (p < y => x <= p \/ y <= x) /\ (y <= p => y <= x /\ x <= p)
      <4>1. x \in Int /\ x # c
        BY <1>1
      <4>2. /\ p < c => (x <= p \/ c <= x) /\ (y <= p \/ c <= y)
            /\ c <= p => c <= x /\ x <= p /\ c <= y /\ y <= p
            /\ c < y => (x <= c \/ y <= x) /\ (p <= c \/ y <= p)
            /\ y <= c => y <= x /\ x <= c /\ y <= p /\ p <= c
        BY <3>2, <3>4 DEF Succ
      <4> QED BY <3>2, <3>3, <4>1, <4>2
    <3> QED BY <1>2, <2>2, <3>1, <3>4, <3>5 DEF Succ
  <2> QED BY <2>1, <2>2
<1>4. ny \in [S \ {c} -> S \ {c}]
  <2>1. ny = [b \in S \ {c} |-> ny[b]]
    BY <1>1 DEF drop
  <2> QED BY <1>3, <2>1 DEF Succ
<1> QED BY <1>1, <1>3, <1>4 DEF Cyclic

\* b enters the ring after cur, the last element below it.
LEMMA Insert ==
    ASSUME NEW S, NEW nx, Cyclic(S, nx), NEW cur \in S, NEW b \in Unit, b \notin S, cur < b,
           \A x \in S : x < b => x <= cur,
           NEW ny, ny = put(put(nx, cur, b), b, nx[cur])
    PROVE  Cyclic(S \cup {b}, ny)
<1>1. S \in SUBSET Unit /\ nx \in [S -> S] /\ S \in SUBSET Int /\ b \in Int /\ b # cur
  BY UnitInt DEF Cyclic
<1>2. /\ DOMAIN ny = S \cup {b} /\ ny[cur] = b /\ ny[b] = nx[cur]
      /\ \A x \in S \ {cur} : ny[x] = nx[x]
  BY <1>1 DEF put
<1>3. PICK y : y = nx[cur]
  OBVIOUS
<1>4. Succ(S, cur, y) /\ cur \in Int /\ y \in Int /\ y \in S
  BY <1>1, <1>3 DEF Cyclic
<1>5. ASSUME NEW x \in S PROVE x \in Int /\ x # b /\ (x < b => x <= cur)
  BY <1>1
<1>6. ASSUME NEW z \in S \cup {b} PROVE Succ(S \cup {b}, z, ny[z])
  <2>1. CASE z = cur
    <3>1. ASSUME NEW x \in S \cup {b} PROVE x <= cur \/ b <= x
      BY <1>1, <1>4, <1>5
    <3> QED BY <1>1, <1>2, <1>4, <2>1, <3>1 DEF Succ
  <2>2. CASE z = b
    <3>1. ny[z] = y
      BY <1>2, <1>3, <2>2
    <3>2. ASSUME NEW x \in S \cup {b}
          PROVE  (b < y => x <= b \/ y <= x) /\ (y <= b => y <= x /\ x <= b)
      <4>1. CASE x = b
        BY <1>1, <1>4, <4>1
      <4>2. CASE x # b
        <5>1. x \in S /\ x \in Int /\ (x < b => x <= cur) /\ (y < b => y <= cur) /\ y # b
          BY <1>4, <1>5, <4>2
        <5>2. (cur < y => x <= cur \/ y <= x) /\ (y <= cur => y <= x /\ x <= cur)
          BY <1>4, <5>1 DEF Succ
        <5> QED BY <1>1, <1>4, <5>1, <5>2
      <4> QED BY <4>1, <4>2
    <3> QED BY <1>4, <2>2, <3>1, <3>2 DEF Succ
  <2>3. CASE z # cur /\ z # b
    <3>1. z \in S /\ z \in Int /\ (z < b => z <= cur) /\ ny[z] = nx[z]
      BY <1>2, <1>5, <2>3
    <3>2. PICK v : v = nx[z]
      OBVIOUS
    <3>3. Succ(S, z, v) /\ v \in S /\ v \in Int /\ (v < b => v <= cur) /\ v # b
      BY <1>1, <1>5, <3>1, <3>2 DEF Cyclic
    <3>4. ASSUME NEW x \in S \cup {b}
          PROVE  (z < v => x <= z \/ v <= x) /\ (v <= z => v <= x /\ x <= z)
      <4>1. CASE x # b
        BY <3>3, <4>1 DEF Succ
      <4>2. CASE x = b
        <5>1. (z < v => cur <= z \/ v <= cur) /\ (v <= z => v <= cur /\ cur <= z)
          BY <3>3 DEF Succ
        <5>2. v <= z => y <= z /\ v <= y
          BY <1>4, <3>3 DEF Succ
        <5>3. (cur < y => z <= cur \/ y <= z) /\ (y <= cur => y <= z /\ z <= cur)
          BY <1>4, <3>1 DEF Succ
        <5> QED BY <1>1, <1>4, <2>3, <3>1, <3>3, <4>2, <5>1, <5>2, <5>3
      <4> QED BY <4>1, <4>2
    <3> QED BY <3>1, <3>2, <3>3, <3>4 DEF Succ
  <2> QED BY <2>1, <2>2, <2>3
<1>7. ny \in [S \cup {b} -> S \cup {b}]
  <2>1. ny = [x \in S \cup {b} |-> ny[x]]
    BY <1>1 DEF put
  <2> QED BY <1>6, <2>1 DEF Succ
<1> QED BY <1>1, <1>6, <1>7 DEF Cyclic

\* The walk of slob_alloc and slob_free from slobfree round the ring.
Walk(s, r, len) ==
    /\ len \in Nat \ {0} /\ r \in [0 .. len -> DOMAIN s.next]
    /\ r[0] = s.slobfree /\ r[len] = s.slobfree
    /\ \A k \in 1 .. len : r[k] = s.next[r[k - 1]]
    /\ \A k \in 1 .. (len - 1) : r[k] # s.slobfree

LEMMA RingWalk ==
    ASSUME NEW s, Cyclic(DOMAIN s.next, s.next), s.slobfree \in DOMAIN s.next
    PROVE  \E len : Walk(s, ring(s), len)
<1>1. PICK C \in Nat : C = Cardinality(Unit)
  BY UnitFinite
<1>2. PICK S, nx, a : S = DOMAIN s.next /\ nx = s.next /\ a = s.slobfree
  OBVIOUS
<1>3. Cyclic(S, nx) /\ a \in S /\ S \in SUBSET Unit /\ nx \in [S -> S]
  BY <1>2 DEF Cyclic
<1> DEFINE Is(g) == g = [k \in 0 .. Cardinality(Unit) |->
                             IF k = 0 THEN s.slobfree ELSE s.next[g[k - 1]]]
           c == CHOOSE g : Is(g)
           len_ == CHOOSE k \in 1 .. Cardinality(Unit) :
                       c[k] = s.slobfree /\ \A j \in 1 .. k - 1 : c[j] # s.slobfree
<1>4. ring(s) = [k \in 0 .. len_ |-> c[k]]
  BY DEF ring
<1>5. PICK g \in [0 .. C -> S] : g[0] = a /\ \A k \in 1 .. C : g[k] = nx[g[k - 1]]
  <2>1. PICK step : step = [k \in Nat |-> nx]
    OBVIOUS
  <2>2. step \in [Nat -> [S -> S]] /\ \A k \in Nat : step[k] = nx
    BY <1>3, <2>1
  <2>3. Recurs(S, a, step, C)
    BY <1>3, <2>2, Recursion
  <2>4. PICK g \in [0 .. C -> S] : g[0] = a /\ \A k \in 1 .. C : g[k] = step[k][g[k - 1]]
    BY <2>3 DEF Recurs
  <2>5. ASSUME NEW k \in 1 .. C PROVE g[k] = nx[g[k - 1]]
    BY <2>2, <2>4
  <2> QED BY <2>4, <2>5
<1>6. Is(g)
  <2>1. g = [k \in 0 .. C |-> g[k]]
    BY <1>5
  <2>2. ASSUME NEW k \in 0 .. C PROVE g[k] = IF k = 0 THEN a ELSE nx[g[k - 1]]
    BY <1>5
  <2> QED BY <1>1, <1>2, <2>1, <2>2
<1>7. Is(c)
  <2> HIDE DEF Is
  <2> QED BY <1>6
<1>8. \A k \in 0 .. C : c[k] = IF k = 0 THEN a ELSE nx[c[k - 1]]
  <2> SUFFICES ASSUME NEW h, Is(h) PROVE \A k \in 0 .. C : h[k] = IF k = 0 THEN a ELSE nx[h[k - 1]]
    <3> HIDE DEF c, Is
    <3> QED BY <1>7
  <2> QED BY <1>1, <1>2
<1>9. len_ = CHOOSE k \in 1 .. C : c[k] = a /\ \A j \in 1 .. k - 1 : c[j] # a
  <2> HIDE DEF c
  <2> QED BY <1>1, <1>2
<1> HIDE DEF c, Is, len_
<1>10. \A k \in 0 .. C : c[k] \in S
  <2> DEFINE Off == {k \in 0 .. C : c[k] \notin S}
  <2> SUFFICES ASSUME Off # {} PROVE FALSE
    OBVIOUS
  <2>1. PICK k \in Off : \A j \in Off : k <= j
    <3>1. Off \in SUBSET Nat
      OBVIOUS
    <3> HIDE DEF Off
    <3> QED BY <3>1, LeastNumber
  <2>2. k \in 0 .. C /\ c[k] \notin S
    BY <2>1
  <2>3. k # 0
    BY <1>3, <1>8, <2>2
  <2>4. k - 1 \in 0 .. C
    BY <2>2, <2>3
  <2>5. k - 1 \notin Off
    <3> HIDE DEF Off
    <3> QED BY <2>1, <2>2, <2>4
  <2>6. c[k - 1] \in S
    BY <2>4, <2>5
  <2> QED BY <1>3, <1>8, <2>2, <2>3, <2>6
\* Some block comes twice, and the first to do so is slobfree.
<1>11. \E j \in 1 .. C : c[j] = a
  <2>1. PICK x, y \in 0 .. C : x # y /\ c[x] = c[y]
    <3>1. PICK t : t = [k \in 0 .. C |-> c[k]]
      OBVIOUS
    <3>2. t \in [0 .. C -> Unit]
      BY <1>3, <1>10, <3>1
    <3>3. PICK I : I = 0 .. C
      OBVIOUS
    <3>4. IsFiniteSet(I) /\ Cardinality(I) = C + 1
      <4>1. IsFiniteSet(0 .. C) /\ Cardinality(0 .. C) = IF 0 > C THEN 0 ELSE C - 0 + 1
        BY FS_Interval
      <4> QED BY <3>3, <4>1
    <3>5. \E x, y \in I : x # y /\ t[x] = t[y]
      <4>1. Cardinality(Unit) < Cardinality(I) /\ t \in [I -> Unit]
        BY <1>1, <3>2, <3>3, <3>4
      <4> QED BY <3>4, <4>1, UnitFinite, FS_PigeonHole
    <3> QED BY <3>1, <3>3, <3>5
  <2>2. PICK P : P = {i \in 0 .. C : \E j \in 0 .. C : i < j /\ c[i] = c[j]}
    OBVIOUS
  <2>3. P \in SUBSET Nat /\ P # {}
    BY <2>1, <2>2
  <2>4. PICK i \in P : \A j \in P : i <= j
    BY <2>3, LeastNumber
  <2>5. PICK j \in 0 .. C : i \in 0 .. C /\ i < j /\ c[i] = c[j]
    BY <2>2, <2>4
  <2>6. i = 0
    <3> SUFFICES ASSUME i # 0 PROVE FALSE
      OBVIOUS
    <3>1. i - 1 \in 0 .. C /\ j - 1 \in 0 .. C /\ i - 1 < j - 1 /\ j # 0
      BY <2>5
    <3>2. c[i - 1] \in S /\ c[j - 1] \in S /\ nx[c[i - 1]] = nx[c[j - 1]]
      BY <1>8, <1>10, <2>5, <3>1
    <3>3. c[i - 1] = c[j - 1]
      BY <1>3, <3>2, SuccInjective
    <3>4. i - 1 \in P
      BY <2>2, <3>1, <3>3
    <3> QED BY <2>4, <2>5, <3>1, <3>4
  <2>7. c[0] = a
    BY <1>8
  <2> QED BY <2>5, <2>6, <2>7
<1>12. len_ \in 1 .. C /\ c[len_] = a /\ \A j \in 1 .. len_ - 1 : c[j] # a
  <2>1. PICK Z : Z = {j \in 1 .. C : c[j] = a}
    OBVIOUS
  <2>2. Z \in SUBSET Nat /\ Z # {}
    BY <1>11, <2>1
  <2>3. PICK k \in Z : \A j \in Z : k <= j
    BY <2>2, LeastNumber
  <2>4. k \in 1 .. C /\ c[k] = a /\ \A j \in 1 .. k - 1 : c[j] # a
    BY <2>1, <2>3
  <2> QED BY <1>9, <2>4
<1>13. PICK len, r : len = len_ /\ r = ring(s) /\ r = [k \in 0 .. len |-> c[k]]
  BY <1>4
<1>14. len \in 1 .. C /\ \A k \in 0 .. len : k \in 0 .. C /\ r[k] = c[k]
  BY <1>12, <1>13
<1>15. r \in [0 .. len -> S] /\ r[0] = a /\ r[len] = a
  <2>1. 0 \in 0 .. len /\ len \in 0 .. len
    BY <1>14
  <2> QED BY <1>8, <1>10, <1>12, <1>13, <1>14, <2>1
<1>16. ASSUME NEW k \in 1 .. len PROVE r[k] = nx[r[k - 1]]
  <2>1. k \in 0 .. len /\ k - 1 \in 0 .. len /\ k # 0
    BY <1>14
  <2> QED BY <1>8, <1>14, <2>1
<1>17. ASSUME NEW k \in 1 .. (len - 1) PROVE r[k] # a
  <2>1. k \in 0 .. len
    BY <1>14
  <2> QED BY <1>12, <1>13, <1>14, <2>1
<1>18. Walk(s, r, len)
  BY <1>2, <1>14, <1>15, <1>16, <1>17 DEF Walk
<1> QED BY <1>13, <1>18

\* The walk meets every block, ...
LEMMA WalkAll ==
    ASSUME NEW s, Cyclic(DOMAIN s.next, s.next), NEW r, NEW len, Walk(s, r, len),
           NEW y \in DOMAIN s.next
    PROVE  \E k \in 0 .. (len - 1) : r[k] = y
<1>1. PICK S, nx : S = DOMAIN s.next /\ nx = s.next
  OBVIOUS
<1>2. Cyclic(S, nx) /\ S \in SUBSET Unit /\ S \in SUBSET Int /\ nx \in [S -> S] /\ y \in S
  BY <1>1, UnitInt DEF Cyclic
<1>3. /\ len \in Nat \ {0} /\ r \in [0 .. len -> S] /\ r[0] = r[len]
      /\ \A k \in 1 .. len : r[k] = nx[r[k - 1]]
  BY <1>1 DEF Walk
<1>4. PICK X : X = {r[k] : k \in 0 .. (len - 1)}
  OBVIOUS
<1>5. X \in SUBSET S /\ X # {}
  BY <1>3, <1>4
<1>6. ASSUME NEW x \in X PROVE nx[x] \in X
  <2>1. PICK k \in 0 .. (len - 1) : x = r[k]
    BY <1>4
  <2>2. k + 1 \in 1 .. len /\ (k + 1) - 1 = k
    BY <1>3
  <2>3. nx[x] = r[k + 1]
    BY <1>3, <2>1, <2>2
  <2>4. CASE k + 1 = len
    <3>1. 0 \in 0 .. (len - 1)
      BY <1>3
    <3> QED BY <1>3, <1>4, <2>3, <2>4, <3>1
  <2>5. CASE k + 1 # len
    <3>1. k + 1 \in 0 .. (len - 1)
      BY <1>3, <2>5
    <3> QED BY <1>4, <2>3, <3>1
  <2> QED BY <2>4, <2>5
<1>7. ASSUME NEW x \in S, nx[x] \in X PROVE x \in X
  <2>1. PICK k \in 0 .. (len - 1) : nx[x] = r[k]
    BY <1>4, <1>7
  <2>2. PICK j \in 1 .. len : nx[x] = r[j]
    <3>1. CASE k = 0
      BY <1>3, <2>1, <3>1
    <3>2. CASE k # 0
      BY <1>3, <2>1, <3>2
    <3> QED BY <3>1, <3>2
  <2>3. j - 1 \in 0 .. (len - 1) /\ j - 1 \in 0 .. len
    BY <1>3
  <2>4. r[j - 1] \in S /\ nx[r[j - 1]] = nx[x]
    BY <1>3, <2>2, <2>3
  <2>5. r[j - 1] = x
    BY <1>2, <2>4, SuccInjective
  <2> QED BY <1>4, <2>3, <2>5
<1>8. S \in SUBSET X
  <2> SUFFICES ASSUME S \ X # {} PROVE FALSE
    OBVIOUS
  <2>1. PICK Y : Y = S \ X /\ Y \in SUBSET Unit /\ Y # {}
    BY <1>2
  <2>2. PICK z \in Y : \A x \in Y : x <= z
    BY <2>1, Greatest
  <2>3. X \in SUBSET Unit
    BY <1>2, <1>5
  <2>4. PICK m \in X : \A x \in X : x <= m
    BY <1>5, <2>3, Greatest
  <2>5. z \in S /\ z \in Int /\ z \notin X /\ m \in S /\ m \in Int
    BY <1>2, <1>5, <2>1
  <2>6. nx[z] \in Y /\ nx[z] \in Int
    BY <1>2, <1>7, <2>1, <2>5
  <2>7. nx[z] <= z /\ nx[m] <= m /\ Succ(S, z, nx[z]) /\ Succ(S, m, nx[m])
    BY <1>2, <1>6, <2>2, <2>4, <2>5, <2>6 DEF Cyclic
  <2>8. m <= z /\ z <= m
    BY <2>5, <2>7 DEF Succ
  <2> QED BY <2>5, <2>8
<1> QED BY <1>2, <1>4, <1>8

\* ... each once.
LEMMA WalkOnce ==
    ASSUME NEW s, Cyclic(DOMAIN s.next, s.next), NEW r, NEW len, Walk(s, r, len),
           NEW k \in 0 .. (len - 1), NEW j \in 0 .. (len - 1), r[k] = r[j]
    PROVE  k = j
<1>1. PICK S, nx : S = DOMAIN s.next /\ nx = s.next
  OBVIOUS
<1>2. Cyclic(S, nx)
  BY <1>1
<1>3. /\ len \in Nat \ {0} /\ r \in [0 .. len -> S]
      /\ \A i \in 1 .. len : r[i] = nx[r[i - 1]]
      /\ \A i \in 1 .. (len - 1) : r[i] # r[0]
  BY <1>1 DEF Walk
<1>4. PICK P : P = {x \in 0 .. (len - 1) : \E y \in 0 .. (len - 1) : x < y /\ r[x] = r[y]}
  OBVIOUS
<1>5. P = {}
  <2> SUFFICES ASSUME P # {} PROVE FALSE
    OBVIOUS
  <2>1. P \in SUBSET Nat
    BY <1>4
  <2>2. PICK x \in P : \A y \in P : x <= y
    BY <2>1, LeastNumber
  <2>3. PICK y \in 0 .. (len - 1) : x \in 0 .. (len - 1) /\ x < y /\ r[x] = r[y]
    BY <1>4, <2>2
  <2>4. y \in 1 .. (len - 1) /\ x # 0
    BY <1>3, <2>3
  <2>5. /\ x - 1 \in 0 .. (len - 1) /\ y - 1 \in 0 .. (len - 1) /\ x - 1 < y - 1
        /\ x \in 1 .. len /\ y \in 1 .. len /\ x - 1 \in 0 .. len /\ y - 1 \in 0 .. len
    BY <1>3, <2>3, <2>4
  <2>6. r[x - 1] \in S /\ r[y - 1] \in S /\ nx[r[x - 1]] = nx[r[y - 1]]
    BY <1>3, <2>3, <2>5
  <2>7. r[x - 1] = r[y - 1]
    BY <1>2, <2>6, SuccInjective
  <2>8. x - 1 \in P
    BY <1>4, <2>5, <2>7
  <2> QED BY <2>2, <2>3, <2>5, <2>8
<1>6. ~(k < j) /\ ~(j < k)
  BY <1>4, <1>5
<1> QED BY <1>6

-----------------------------------------------------------------------------
(* The heap's blocks: free ones in the ring, others behind a header *)

MemEnd == NPages * PageUnits

UnitMap(f) ==
    /\ DOMAIN f \in SUBSET Unit /\ f \in [DOMAIN f -> Nat \ {0}]
    /\ \A b \in DOMAIN f : b + f[b] <= MemEnd
InUnits(f, x) == \E b \in DOMAIN f : b <= x /\ x < b + f[b]

\* s.units has every block of the heap, s.next the free ones, none of which touch.
RingOK(D, nx, f) ==
    /\ Cyclic(D, nx) /\ D \in SUBSET DOMAIN f
    /\ \A b, c \in D : b < c => b + f[b] < c
SlobOK(s) ==
    /\ s = [units |-> s.units, next |-> s.next, slobfree |-> s.slobfree]
    /\ UnitMap(s.units) /\ Loose(s.units) /\ RingOK(DOMAIN s.next, s.next, s.units)
    /\ arena \in DOMAIN s.next /\ s.units[arena] = 1 /\ s.slobfree \in DOMAIN s.next

HeldBlocks(s) == DOMAIN s.units \ DOMAIN s.next

\* The heap's pages: neither free (C) nor in a block of other users (W) or of a
\* descriptor (B).
HeapPages(C, W, B) ==
    {p \in Page : /\ p \notin C
                  /\ \A w \in W : p \notin run(w.page, w.n)
                  /\ \A d \in B : p \notin run(d.page, Pages(d.order))}
OnPage(p, x) == p * PageUnits <= x /\ x < p * PageUnits + PageUnits
UnitsExact(f, G) == \A x \in Int : x >= 0 => (InUnits(f, x) <=> \E p \in G : OnPage(p, x))

\* O are the objects handed out, B the descriptors, X the block of a call under way:
\* each holds its own block, with the units it needs, and nobody else holds one.
Claims(s, O, B, X) ==
    /\ \A o \in O : o.addr \in Int
    /\ \A o \in O : o.size \in Small =>
           o.addr - Header \in HeldBlocks(s) /\ s.units[o.addr - Header] = o.size + Header
    /\ \A o \in O : o.size \notin Small =>
           o.size \in Big /\ \E d \in B : o.addr = d.page * PageUnits /\ d.order = find_order(o.size)
    /\ \A d \in B : d.bb \in HeldBlocks(s) /\ s.units[d.bb] = BigUnits
    /\ \A x \in X : x \in HeldBlocks(s) /\ s.units[x] = BigUnits
    /\ \A o, v \in O : o.addr = v.addr /\ (o.size \in Small <=> v.size \in Small) => o = v
    /\ \A d, e \in B : d.bb = e.bb => d = e
    /\ \A o \in O, d \in B : o.size \in Small => o.addr - Header # d.bb
    /\ \A x \in X : /\ \A o \in O : o.size \in Small => o.addr - Header # x
                    /\ \A d \in B : d.bb # x
    /\ \A b \in HeldBlocks(s) : \/ \E o \in O : o.size \in Small /\ b = o.addr - Header
                                \/ \E d \in B : b = d.bb
                                \/ b \in X

CallBlocks(c) == IF c # NoCall /\ c.bb # NULL THEN {c.bb} ELSE {}

SlobInv ==
    /\ SlobOK(slob)
    /\ UnitsExact(slob.units, HeapPages(Cover(pm.property), owned, bigblocks))
    /\ Claims(slob, objs, bigblocks, CallBlocks(call))

LEMMA MemEndNat == MemEnd \in Nat \ {0} /\ Unit = {arena} \cup (0 .. MemEnd - 1)
BY HeapAssumption, NPagesAssumption DEF MemEnd, Unit

LEMMA UnitFacts ==
    ASSUME NEW f, UnitMap(f), NEW b \in DOMAIN f
    PROVE  /\ b \in Unit /\ b \in Int /\ f[b] \in Nat /\ f[b] > 0 /\ b + f[b] <= MemEnd
           /\ (b = arena \/ b >= 0)
<1>1. b \in Unit /\ f[b] \in Nat \ {0} /\ b + f[b] <= MemEnd
  BY DEF UnitMap
<1> QED BY <1>1, MemEndNat DEF arena

\* g is f with the block hi, which follows lo, made part of lo.
JoinedUnits(f, lo, hi, g) ==
    /\ UnitMap(g) /\ Loose(g) /\ DOMAIN g = DOMAIN f \ {hi} /\ g[lo] = f[lo] + f[hi]
    /\ \A x \in DOMAIN f \ {lo, hi} : g[x] = f[x]
    /\ \A x \in Int : InUnits(g, x) <=> InUnits(f, x)

LEMMA JoinUnits ==
    ASSUME NEW f, UnitMap(f), Loose(f), NEW lo \in DOMAIN f, NEW hi \in DOMAIN f,
           lo + f[lo] = hi, NEW v, v = f[lo] + f[hi], NEW g, g = drop([f EXCEPT ![lo] = v], {hi})
    PROVE  JoinedUnits(f, lo, hi, g)
<1>0. /\ lo \in Int /\ f[lo] \in Nat /\ f[lo] > 0 /\ hi \in Int /\ f[hi] \in Nat /\ f[hi] > 0
      /\ hi + f[hi] <= MemEnd /\ MemEnd \in Nat
  BY UnitFacts, MemEndNat
<1>1. lo < hi
  BY <1>0
<1>2. /\ DOMAIN g = DOMAIN f \ {hi} /\ g[lo] = f[lo] + f[hi]
      /\ \A x \in DOMAIN f \ {lo, hi} : g[x] = f[x]
  BY <1>0, <1>1 DEF drop
<1>3. UnitMap(g)
  <2>1. ASSUME NEW x \in DOMAIN g
        PROVE  x \in Unit /\ g[x] \in Nat \ {0} /\ x + g[x] <= MemEnd
    <3>1. CASE x = lo
      BY <3>1, <1>0, <1>2, UnitFacts
    <3>2. CASE x # lo
      <4>1. x \in DOMAIN f /\ g[x] = f[x]
        BY <3>2, <1>2
      <4>2. x \in Unit /\ f[x] \in Nat /\ f[x] > 0 /\ x + f[x] <= MemEnd
        BY <4>1, UnitFacts
      <4> QED BY <4>1, <4>2
    <3> QED BY <3>1, <3>2
  <2>2. g = [x \in DOMAIN g |-> g[x]]
    BY DEF drop
  <2>3. g \in [DOMAIN g -> Nat \ {0}]
    BY <2>1, <2>2
  <2> QED BY <2>1, <2>3 DEF UnitMap
<1>4. Loose(g)
  <2> SUFFICES ASSUME NEW x \in DOMAIN g, NEW y \in DOMAIN g, x < y PROVE x + g[x] <= y
    BY DEF Loose
  <2>0. x \in DOMAIN f \ {hi} /\ y \in DOMAIN f \ {hi} /\ x \in Int /\ y \in Int
    BY <1>2, UnitFacts
  <2>1. CASE x = lo
    <3>1. (y < hi => lo + f[lo] <= y) /\ (hi < y => hi + f[hi] <= y)
      BY <2>0, <2>1 DEF Loose
    <3> QED BY <1>0, <1>2, <2>0, <2>1, <3>1
  <2>2. CASE x # lo
    <3>1. g[x] = f[x] /\ x + f[x] <= y
      BY <1>2, <2>0, <2>2 DEF Loose
    <3> QED BY <3>1
  <2> QED BY <2>1, <2>2
<1>5. ASSUME NEW x \in Int PROVE InUnits(g, x) <=> InUnits(f, x)
  <2>3. ASSUME InUnits(g, x) PROVE InUnits(f, x)
    <3>1. PICK q \in DOMAIN g : q <= x /\ x < q + g[q]
      BY <2>3 DEF InUnits
    <3>2. CASE q = lo
      <4>1. (lo <= x /\ x < lo + f[lo]) \/ (hi <= x /\ x < hi + f[hi])
        BY <3>1, <3>2, <1>0, <1>2
      <4> QED BY <4>1 DEF InUnits
    <3>3. CASE q # lo
      BY <3>1, <3>3, <1>2 DEF InUnits
    <3> QED BY <3>2, <3>3
  <2>4. ASSUME InUnits(f, x) PROVE InUnits(g, x)
    <3>1. PICK q \in DOMAIN f : q <= x /\ x < q + f[q]
      BY <2>4 DEF InUnits
    <3>2. CASE q = lo \/ q = hi
      <4>1. lo \in DOMAIN g /\ lo <= x /\ x < lo + g[lo]
        BY <3>1, <3>2, <1>0, <1>1, <1>2
      <4> QED BY <4>1 DEF InUnits
    <3>3. CASE q # lo /\ q # hi
      BY <3>1, <3>3, <1>2 DEF InUnits
    <3> QED BY <3>2, <3>3
  <2> QED BY <2>3, <2>4
<1> QED BY <1>2, <1>3, <1>4, <1>5 DEF JoinedUnits

\* g is f with the units of c above n made a block of their own.
SplitUnits(f, c, n, g) ==
    /\ UnitMap(g) /\ Loose(g) /\ c + n \in Unit /\ c + n \notin DOMAIN f
    /\ DOMAIN g = DOMAIN f \cup {c + n}
    /\ g[c] = n /\ g[c + n] = f[c] - n /\ \A x \in DOMAIN f \ {c} : g[x] = f[x]
    /\ \A x \in Int : InUnits(g, x) <=> InUnits(f, x)

LEMMA Split ==
    ASSUME NEW f, UnitMap(f), Loose(f), NEW c \in DOMAIN f, c # arena, NEW n \in Nat \ {0}, n < f[c],
           NEW r, r = c + n, NEW g, g = put(put(f, r, f[c] - n), c, n)
    PROVE  SplitUnits(f, c, n, g)
<1>0. /\ c \in Int /\ c >= 0 /\ f[c] \in Nat /\ f[c] > 0 /\ c + f[c] <= MemEnd /\ MemEnd \in Nat
      /\ r \in Int /\ c < r /\ r < c + f[c]
  BY UnitFacts, MemEndNat
<1>1. r \in Unit
  BY <1>0, MemEndNat
<1>2. r \notin DOMAIN f
  <2> SUFFICES ASSUME r \in DOMAIN f PROVE FALSE
    OBVIOUS
  <2>1. c + f[c] <= r
    BY <1>0 DEF Loose
  <2> QED BY <1>0, <2>1
<1>3. /\ DOMAIN g = DOMAIN f \cup {r} /\ g[c] = n /\ g[r] = f[c] - n
      /\ \A x \in DOMAIN f \ {c} : g[x] = f[x]
  BY <1>0, <1>2 DEF put
<1>4. UnitMap(g)
  <2>1. ASSUME NEW x \in DOMAIN g
        PROVE  x \in Unit /\ g[x] \in Nat \ {0} /\ x + g[x] <= MemEnd
    <3>1. CASE x = c
      BY <3>1, <1>0, <1>3, UnitFacts
    <3>2. CASE x = r
      BY <3>2, <1>0, <1>1, <1>3
    <3>3. CASE x # c /\ x # r
      BY <3>3, <1>3, UnitFacts
    <3> QED BY <3>1, <3>2, <3>3
  <2>2. g = [x \in DOMAIN g |-> g[x]]
    BY DEF put
  <2>3. g \in [DOMAIN g -> Nat \ {0}]
    BY <2>1, <2>2
  <2> QED BY <2>1, <2>3 DEF UnitMap
<1>5. Loose(g)
  <2> SUFFICES ASSUME NEW x \in DOMAIN g, NEW y \in DOMAIN g, x < y PROVE x + g[x] <= y
    BY DEF Loose
  <2>0. x \in Int /\ y \in Int
    BY <1>0, <1>3, UnitFacts
  <2>1. CASE x = c
    <3>1. CASE y = r
      BY <1>0, <1>3, <2>1, <3>1
    <3>2. CASE y # r
      <4>1. c + f[c] <= y
        BY <1>3, <2>1, <3>2 DEF Loose
      <4> QED BY <1>0, <1>3, <2>0, <2>1, <4>1
    <3> QED BY <3>1, <3>2
  <2>2. CASE x = r
    <3>1. y \in DOMAIN f /\ c < y
      BY <1>0, <1>3, <2>0, <2>2
    <3>2. c + f[c] <= y
      BY <3>1 DEF Loose
    <3> QED BY <1>0, <1>3, <2>2, <3>2
  <2>3. CASE x # c /\ x # r
    <3>1. x \in DOMAIN f /\ g[x] = f[x] /\ f[x] \in Nat
      BY <1>3, <2>3, UnitFacts
    <3>2. CASE y = r
      <4>1. x < c
        <5>1. c < x => c + f[c] <= x
          BY <3>1 DEF Loose
        <5> QED BY <1>0, <2>0, <2>3, <3>2, <5>1
      <4>2. x + f[x] <= c
        BY <3>1, <4>1 DEF Loose
      <4> QED BY <1>0, <2>0, <3>1, <3>2, <4>2
    <3>3. CASE y # r
      <4>1. y \in DOMAIN f
        BY <1>3, <3>3
      <4>2. x + f[x] <= y
        BY <3>1, <4>1 DEF Loose
      <4> QED BY <3>1, <4>2
    <3> QED BY <3>2, <3>3
  <2> QED BY <2>1, <2>2, <2>3
<1>6. ASSUME NEW x \in Int PROVE InUnits(g, x) <=> InUnits(f, x)
  <2>3. ASSUME InUnits(g, x) PROVE InUnits(f, x)
    <3>1. PICK q \in DOMAIN g : q <= x /\ x < q + g[q]
      BY <2>3 DEF InUnits
    <3>2. CASE q = c \/ q = r
      <4>1. c <= x /\ x < c + f[c]
        BY <3>1, <3>2, <1>0, <1>3
      <4> QED BY <4>1 DEF InUnits
    <3>3. CASE q # c /\ q # r
      BY <3>1, <3>3, <1>3 DEF InUnits
    <3> QED BY <3>2, <3>3
  <2>4. ASSUME InUnits(f, x) PROVE InUnits(g, x)
    <3>1. PICK q \in DOMAIN f : q <= x /\ x < q + f[q]
      BY <2>4 DEF InUnits
    <3>2. CASE q = c
      <4>1. (c <= x /\ x < c + g[c]) \/ (r <= x /\ x < r + g[r])
        BY <3>1, <3>2, <1>0, <1>3
      <4>2. c \in DOMAIN g /\ r \in DOMAIN g
        BY <1>3
      <4> QED BY <4>1, <4>2 DEF InUnits
    <3>3. CASE q # c
      BY <3>1, <3>3, <1>3 DEF InUnits
    <3> QED BY <3>2, <3>3
  <2> QED BY <2>3, <2>4
<1> QED BY <1>1, <1>2, <1>3, <1>4, <1>5, <1>6 DEF SplitUnits

LEMMA SlobMade ==
    ASSUME NEW u, NEW D, NEW nx, DOMAIN nx = D, NEW a \in D, UnitMap(u), Loose(u), RingOK(D, nx, u),
           arena \in D, u[arena] = 1, NEW t, t = [units |-> u, next |-> nx, slobfree |-> a]
    PROVE  SlobOK(t)
<1>1. t.units = u /\ t.next = nx /\ t.slobfree = a
  OBVIOUS
<1> QED BY <1>1 DEF SlobOK

LEMMA SlobChanged ==
    ASSUME NEW f, NEW nn, NEW b, NEW s, s = [units |-> f, next |-> nn, slobfree |-> b],
           NEW u, NEW nx, NEW a
    PROVE  /\ [s EXCEPT !.units = u, !.next = nx, !.slobfree = a]
                  = [units |-> u, next |-> nx, slobfree |-> a]
           /\ [s EXCEPT !.next = nx, !.slobfree = a]
                  = [units |-> f, next |-> nx, slobfree |-> a]
           /\ [s EXCEPT !.next = nx, !.units = u, !.slobfree = a]
                  = [units |-> u, next |-> nx, slobfree |-> a]
           /\ [s EXCEPT !.units = u] = [units |-> u, next |-> nn, slobfree |-> b]
<1>1. DOMAIN s = {"units", "next", "slobfree"}
  OBVIOUS
<1>2. ASSUME NEW v, v = [s EXCEPT !.units = u, !.next = nx, !.slobfree = a]
      PROVE  v = [units |-> u, next |-> nx, slobfree |-> a]
  <2>1. v = [k \in DOMAIN s |-> v[k]]
    BY <1>2
  <2>2. v.units = u /\ v.next = nx /\ v.slobfree = a
    BY <1>1, <1>2
  <2> QED BY <1>1, <2>1, <2>2
<1>3. ASSUME NEW v, v = [s EXCEPT !.next = nx, !.slobfree = a]
      PROVE  v = [units |-> f, next |-> nx, slobfree |-> a]
  <2>1. v = [k \in DOMAIN s |-> v[k]]
    BY <1>3
  <2>2. v.units = f /\ v.next = nx /\ v.slobfree = a
    BY <1>1, <1>3
  <2> QED BY <1>1, <2>1, <2>2
<1>4. ASSUME NEW v, v = [s EXCEPT !.next = nx, !.units = u, !.slobfree = a]
      PROVE  v = [units |-> u, next |-> nx, slobfree |-> a]
  <2>1. v = [k \in DOMAIN s |-> v[k]]
    BY <1>4
  <2>2. v.units = u /\ v.next = nx /\ v.slobfree = a
    BY <1>1, <1>4
  <2> QED BY <1>1, <2>1, <2>2
<1>5. ASSUME NEW v, v = [s EXCEPT !.units = u]
      PROVE  v = [units |-> u, next |-> nn, slobfree |-> b]
  <2>1. v = [k \in DOMAIN s |-> v[k]]
    BY <1>5
  <2>2. v.units = u /\ v.next = nn /\ v.slobfree = b
    BY <1>1, <1>5
  <2> QED BY <1>1, <2>1, <2>2
<1> QED BY <1>2, <1>3, <1>4, <1>5

\* The arena is the lowest block of the ring, so what follows anything but the last
\* block is above it.
LEMMA AboveArena ==
    ASSUME NEW D, NEW nx, Cyclic(D, nx), arena \in D, NEW p \in D, NEW c, c = nx[p], c # arena
    PROVE  p < c
<1>1. Succ(D, p, c) /\ c \in Int /\ p \in Int /\ arena \in Int /\ arena < c
  BY UnitInt DEF Cyclic
<1>2. c <= p => c <= arena
  BY <1>1 DEF Succ
<1> QED BY <1>1, <1>2

\* The part of the ring slob_alloc takes out, and what it puts in.
LEMMA RingCut ==
    ASSUME NEW D, NEW nx, NEW f, UnitMap(f), RingOK(D, nx, f), arena \in D, NEW p \in D, NEW c, c = nx[p], c # arena,
           NEW ny, ny = drop([nx EXCEPT ![p] = nx[c]], {c}), NEW g,
           DOMAIN f \in SUBSET DOMAIN g \/ DOMAIN f \ {c} \in SUBSET DOMAIN g,
           \A x \in D \ {c} : g[x] = f[x]
    PROVE  RingOK(D \ {c}, ny, g) /\ DOMAIN ny = D \ {c} /\ c \in D /\ p \in D \ {c}
<1>1. Cyclic(D, nx) /\ p < c /\ p \in Int /\ c \in Int /\ c \in D
  BY AboveArena, UnitInt DEF RingOK, Cyclic
<1>2. Cyclic(D \ {c}, ny)
  BY <1>1, Cut
<1>3. DOMAIN ny = D \ {c}
  BY <1>2 DEF Cyclic
<1>4. \A x, y \in D \ {c} : x < y => x + g[x] < y
  BY DEF RingOK
<1>5. D \ {c} \in SUBSET DOMAIN g
  BY DEF RingOK
<1> QED BY <1>1, <1>2, <1>3, <1>4, <1>5 DEF RingOK

Took(s, n, b, t) ==
    /\ SlobOK(t) /\ b \in DOMAIN s.next /\ b # arena
    /\ HeldBlocks(t) = HeldBlocks(s) \cup {b} /\ t.units[b] = n
    /\ \A x \in HeldBlocks(s) : t.units[x] = s.units[x]
    /\ \A x \in Int : InUnits(t.units, x) <=> InUnits(s.units, x)

\* The block fits exactly.
LEMMA TakeBlock ==
    ASSUME NEW s, SlobOK(s), NEW p \in DOMAIN s.next, NEW c, c = s.next[p], c # arena, NEW n, s.units[c] = n,
           NEW ny, ny = drop([s.next EXCEPT ![p] = s.next[c]], {c}),
           NEW t, t = [units |-> s.units, next |-> ny, slobfree |-> p]
    PROVE  Took(s, n, c, t)
<1>1. PICK D, nx, f : nx = s.next /\ f = s.units /\ D = DOMAIN nx
  OBVIOUS
<1>2. /\ s = [units |-> s.units, next |-> s.next, slobfree |-> s.slobfree]
      /\ UnitMap(f) /\ Loose(f) /\ RingOK(D, nx, f) /\ arena \in D /\ f[arena] = 1
  BY <1>1 DEF SlobOK
<1>3. ny = drop([nx EXCEPT ![p] = nx[c]], {c})
  BY <1>1
<1>4. t = [units |-> f, next |-> ny, slobfree |-> p]
  BY <1>1
<1>5. RingOK(D \ {c}, ny, f) /\ DOMAIN ny = D \ {c} /\ c \in D /\ p \in D \ {c}
  BY <1>1, <1>2, <1>3, RingCut
<1>6. PICK E : E = D \ {c} /\ arena \in E
  BY <1>2
<1>7. SlobOK(t)
  BY <1>2, <1>4, <1>5, <1>6, SlobMade
<1>8. t.units = f /\ DOMAIN t.next = D \ {c}
  BY <1>4, <1>5
<1>9. HeldBlocks(t) = HeldBlocks(s) \cup {c}
  BY <1>1, <1>2, <1>5, <1>8 DEF HeldBlocks, RingOK
<1> QED BY <1>1, <1>5, <1>7, <1>8, <1>9 DEF Took

\* The block is cut in two, and the rest takes its place in the ring.
LEMMA TakePart ==
    ASSUME NEW s, SlobOK(s), NEW p \in DOMAIN s.next, NEW c, c = s.next[p], c # arena,
           NEW n \in Nat \ {0}, n < s.units[c], NEW r, r = c + n,
           NEW nz, nz = drop(put(put(s.next, p, r), r, s.next[c]), {c}),
           NEW g, g = put(put(s.units, r, s.units[c] - n), c, n),
           NEW t, t = [units |-> g, next |-> nz, slobfree |-> p]
    PROVE  Took(s, n, c, t)
<1>1. PICK D, nx, f : nx = s.next /\ f = s.units /\ D = DOMAIN nx
  OBVIOUS
<1>2. /\ s = [units |-> s.units, next |-> s.next, slobfree |-> s.slobfree]
      /\ UnitMap(f) /\ Loose(f) /\ RingOK(D, nx, f) /\ arena \in D /\ f[arena] = 1 /\ D \in SUBSET DOMAIN f
  BY <1>1 DEF SlobOK, RingOK
<1>3. /\ p \in Int /\ c \in Int /\ p < c /\ c \in D /\ p \in D /\ D \in SUBSET Unit /\ D \in SUBSET Int
      /\ c \in DOMAIN f /\ Cyclic(D, nx)
  BY <1>1, <1>2, AboveArena, UnitInt DEF RingOK, Cyclic
<1>4. g = put(put(f, r, f[c] - n), c, n)
  BY <1>1
<1>5. SplitUnits(f, c, n, g)
  BY <1>1, <1>2, <1>3, <1>4, Split
<1>6. /\ UnitMap(g) /\ Loose(g) /\ r \in Unit /\ r \notin DOMAIN f /\ DOMAIN g = DOMAIN f \cup {r}
      /\ g[c] = n /\ g[r] = f[c] - n /\ \A x \in DOMAIN f \ {c} : g[x] = f[x]
      /\ \A x \in Int : InUnits(g, x) <=> InUnits(f, x)
  BY <1>5 DEF SplitUnits
<1>7. PICK E, ny : E = D \ {c} /\ ny = drop([nx EXCEPT ![p] = nx[c]], {c})
  OBVIOUS
<1>8. RingOK(E, ny, f) /\ DOMAIN ny = E /\ p \in E /\ Cyclic(E, ny)
  <2>1. RingOK(D \ {c}, ny, f) /\ DOMAIN ny = D \ {c} /\ p \in D \ {c}
    BY <1>1, <1>2, <1>7, RingCut
  <2> QED BY <1>7, <2>1 DEF RingOK
<1>9. nz = put(put(ny, p, r), r, ny[p])
  <2>1. DOMAIN nx = D /\ p # c /\ r # c /\ r # p /\ r \notin D /\ p \in D /\ c \in D
    BY <1>1, <1>2, <1>3, <1>6, UnitFacts
  <2>2. DOMAIN ny = E /\ E = D \ {c} /\ ny[p] = nx[c] /\ \A x \in D \ {c, p} : ny[x] = nx[x]
    BY <1>7, <2>1 DEF drop
  <2>3. PICK z : z = put(put(ny, p, r), r, ny[p])
    OBVIOUS
  <2>4. z = [x \in DOMAIN z |-> z[x]] /\ DOMAIN z = E \cup {r}
    BY ZenonT(30), <2>1, <2>2, <2>3 DEF put
  <2>5. ASSUME NEW x \in E \cup {r}
        PROVE  z[x] = IF x = r THEN nx[c] ELSE IF x = p THEN r ELSE nx[x]
    BY <2>1, <2>2, <2>3 DEF put
  <2>6. PICK m : m = put(put(nx, p, r), r, nx[c])
    OBVIOUS
  <2>7. DOMAIN m = D \cup {r} /\ \A x \in D \cup {r} : m[x] = IF x = r THEN nx[c] ELSE IF x = p THEN r ELSE nx[x]
    BY <2>1, <2>6 DEF put
  <2>8. nz = [x \in (D \cup {r}) \ {c} |-> m[x]]
    BY <1>1, <2>6, <2>7 DEF drop
  <2>9. (D \cup {r}) \ {c} = E \cup {r}
    BY <2>1, <2>2
  <2>10. nz = [x \in E \cup {r} |-> z[x]]
    BY <2>5, <2>7, <2>8, <2>9
  <2> QED BY <2>3, <2>4, <2>10
<1>10. f[c] \in Nat /\ r \in Int /\ c < r /\ r < c + f[c] /\ r \notin E
  BY <1>1, <1>2, <1>3, <1>6, <1>7, UnitFacts
<1>11. ASSUME NEW x \in E PROVE x \in Int /\ (x < r => x <= p) /\ (x > r => r + g[r] < x) /\ (x < r => x + f[x] < c)
  <2>1. x \in D /\ x \in Int /\ x # c /\ x \in DOMAIN f /\ f[x] \in Nat
    BY <1>2, <1>3, <1>7, UnitFacts
  <2>2. (x < c => x + f[x] < c) /\ (c < x => c + f[c] < x)
    BY <1>2, <1>3, <2>1 DEF RingOK
  <2>3. x <= p \/ c <= x
    BY <1>1, <1>3, <2>1 DEF Cyclic, Succ
  <2>4. r + g[r] = c + f[c]
    <3>1. g[r] = f[c] - n
      BY <1>6
    <3>2. PICK u : u = f[c] /\ u \in Nat
      BY <1>10
    <3>3. r = c + n /\ c \in Int /\ n \in Nat
      BY <1>3
    <3>4. c + n + (u - n) = c + u
      BY ONLY <3>2, <3>3
    <3> QED BY <3>1, <3>2, <3>3, <3>4
  <2>5. CASE x < c
    <3>1. x < r /\ x <= p
      BY <1>3, <1>10, <2>1, <2>3, <2>5
    <3> QED BY <1>10, <2>1, <2>2, <2>5, <3>1
  <2>6. CASE c < x
    <3>1. c + f[c] < x
      BY <2>2, <2>6
    <3>2. r < x
      BY <1>3, <1>10, <2>1, <3>1
    <3> QED BY <1>10, <2>1, <2>4, <3>1, <3>2
  <2> QED BY <1>3, <2>1, <2>5, <2>6
<1>12. Cyclic(E \cup {r}, nz)
  <2>1. p < r /\ \A x \in E : x < r => x <= p
    BY <1>3, <1>10, <1>11
  <2>2. PICK z : z = nz
    OBVIOUS
  <2>3. z = put(put(ny, p, r), r, ny[p]) /\ Cyclic(E, ny) /\ p \in E
    BY <1>8, <1>9, <2>2
  <2>4. r \in Unit /\ r \notin E
    BY <1>6, <1>10
  <2>5. Cyclic(E \cup {r}, z)
    BY ONLY <2>1, <2>3, <2>4, Insert
  <2> QED BY <2>2, <2>5
<1>13. RingOK(E \cup {r}, nz, g)
  <2>1. ASSUME NEW x \in E \cup {r}, NEW y \in E \cup {r}, x < y PROVE x + g[x] < y
    <3>1. CASE x = r
      BY <1>10, <1>11, <2>1, <3>1
    <3>2. CASE x # r /\ y = r
      <4>1. x + f[x] < c /\ g[x] = f[x] /\ f[x] \in Nat /\ x \in Int
        BY <1>2, <1>6, <1>7, <1>11, <2>1, <3>2, UnitFacts
      <4> QED BY <1>3, <1>10, <3>2, <4>1
    <3>3. CASE x # r /\ y # r
      <4>1. x + f[x] < y /\ g[x] = f[x]
        BY <1>2, <1>6, <1>7, <2>1, <3>3 DEF RingOK
      <4> QED BY <4>1
    <3> QED BY <3>1, <3>2, <3>3
  <2>2. E \cup {r} \in SUBSET DOMAIN g
    BY <1>2, <1>6, <1>7
  <2> QED BY <1>12, <2>1, <2>2 DEF RingOK
<1>16. DOMAIN nz = E \cup {r} /\ p \in E \cup {r} /\ arena \in E \cup {r} /\ g[arena] = 1
  BY <1>2, <1>6, <1>7, <1>8, <1>12 DEF Cyclic
<1>17. SlobOK(t)
  <2>1. PICK F : F = E \cup {r}
    OBVIOUS
  <2> QED BY <1>6, <1>13, <1>16, <2>1, SlobMade
<1>18. t.units = g /\ DOMAIN t.next = E \cup {r}
  BY <1>16
<1>19. HeldBlocks(t) = HeldBlocks(s) \cup {c}
  <2>1. HeldBlocks(s) = DOMAIN f \ D
    BY <1>1 DEF HeldBlocks
  <2>2. HeldBlocks(t) = DOMAIN g \ (E \cup {r})
    BY <1>18 DEF HeldBlocks
  <2>3. /\ DOMAIN g = DOMAIN f \cup {r} /\ r \notin DOMAIN f /\ E = D \ {c}
        /\ c \in D /\ c \in DOMAIN f
    BY <1>3, <1>6, <1>7
  <2>4. ASSUME NEW x PROVE x \in HeldBlocks(t) <=> x \in HeldBlocks(s) \cup {c}
    BY <2>1, <2>2, <2>3
  <2> QED BY <2>4
<1>20. \A x \in HeldBlocks(s) : t.units[x] = s.units[x]
  BY <1>1, <1>3, <1>6, <1>18 DEF HeldBlocks
<1> QED BY <1>1, <1>3, <1>6, <1>17, <1>18, <1>19, <1>20 DEF Took

LEMMA SlobAlloc ==
    ASSUME NEW s, SlobOK(s), NEW n \in Nat, n > 1, room(s, n) # {}, NEW a, a = slob_alloc(s, n)
    PROVE  Took(s, n, a.block, a.slob)
<1>1. Cyclic(DOMAIN s.next, s.next) /\ s.slobfree \in DOMAIN s.next /\ arena \in DOMAIN s.next /\ s.units[arena] = 1
  BY DEF SlobOK, RingOK
<1>2. PICK len : Walk(s, ring(s), len)
  BY <1>1, RingWalk
<1>3. PICK r : r = ring(s)
  OBVIOUS
<1>4. /\ len \in Nat /\ r \in [0 .. len -> DOMAIN s.next] /\ DOMAIN r = 0 .. len
      /\ \A i \in 1 .. len : r[i] = s.next[r[i - 1]]
  BY <1>2, <1>3 DEF Walk
<1>5. PICK R : R = room(s, n) /\ R = {i \in DOMAIN r \ {0} : s.units[r[i]] >= n}
  BY <1>3 DEF room
<1>6. R \in SUBSET Nat /\ R # {}
  BY <1>4, <1>5
<1>7. PICK k : k = CHOOSE i \in room(s, n) : \A j \in room(s, n) : i <= j
  OBVIOUS
<1>8. k \in R
  <2>1. \E i \in R : \A j \in R : i <= j
    BY <1>6, LeastNumber
  <2> QED BY <1>5, <1>7, <2>1
<1>9. k \in 1 .. len /\ k - 1 \in 0 .. len /\ s.units[r[k]] >= n
  BY <1>4, <1>5, <1>8
<1>10. PICK p, c : p = r[k - 1] /\ c = r[k] /\ p \in DOMAIN s.next /\ c \in DOMAIN s.next /\ c = s.next[p]
  BY <1>4, <1>9
<1>11. c # arena /\ s.units[c] \in Nat /\ s.units[c] >= n
  <2>1. UnitMap(s.units) /\ c \in DOMAIN s.units
    BY <1>10 DEF SlobOK, RingOK
  <2> QED BY <1>1, <1>9, <1>10, <2>1, UnitFacts
<1>12. a = [block |-> c,
            slob  |-> IF s.units[c] = n
                      THEN [s EXCEPT !.next = drop([@ EXCEPT ![p] = s.next[c]], {c}), !.slobfree = p]
                      ELSE [s EXCEPT !.next = drop(put(put(@, p, c + n), c + n, s.next[c]), {c}),
                                     !.units = put(put(@, c + n, @[c] - n), c, n),
                                     !.slobfree = p]]
  <2> DEFINE k_ == CHOOSE i \in room(s, n) : \A j \in room(s, n) : i <= j
             Cut_(pr, cu) ==
               [block |-> cu,
                slob  |-> IF s.units[cu] = n
                          THEN [s EXCEPT !.next = drop([@ EXCEPT ![pr] = s.next[cu]], {cu}), !.slobfree = pr]
                          ELSE [s EXCEPT !.next = drop(put(put(@, pr, cu + n), cu + n, s.next[cu]), {cu}),
                                         !.units = put(put(@, cu + n, @[cu] - n), cu, n),
                                         !.slobfree = pr]]
  <2>1. a = Cut_(ring(s)[k_ - 1], ring(s)[k_])
    BY DEF slob_alloc
  <2>2. k_ = k
    BY <1>7
  <2>3. ring(s)[k_ - 1] = p /\ ring(s)[k_] = c
    <3> HIDE DEF k_
    <3> QED BY <1>3, <1>10, <2>2
  <2>4. a = Cut_(p, c)
    <3> HIDE DEF k_, Cut_
    <3> QED BY <2>1, <2>3
  <2> QED BY <2>4
<1>13. CASE s.units[c] = n
  <2>1. PICK ny : ny = drop([s.next EXCEPT ![p] = s.next[c]], {c})
    OBVIOUS
  <2>2. PICK t : t = [units |-> s.units, next |-> ny, slobfree |-> p]
    OBVIOUS
  <2>3. a.block = c /\ a.slob = [s EXCEPT !.next = ny, !.slobfree = p]
    BY <1>12, <1>13, <2>1
  <2>4. a.slob = t
    BY <2>2, <2>3, SlobChanged DEF SlobOK
  <2> QED BY <1>10, <1>11, <1>13, <2>1, <2>2, <2>3, <2>4, TakeBlock
<1>14. CASE s.units[c] # n
  <2>1. PICK e : e = c + n
    OBVIOUS
  <2>2. PICK nz : nz = drop(put(put(s.next, p, e), e, s.next[c]), {c})
    OBVIOUS
  <2>3. PICK g : g = put(put(s.units, e, s.units[c] - n), c, n)
    OBVIOUS
  <2>4. PICK t : t = [units |-> g, next |-> nz, slobfree |-> p]
    OBVIOUS
  <2>5. a.block = c /\ a.slob = [s EXCEPT !.next = nz, !.units = g, !.slobfree = p]
    BY <1>12, <1>14, <2>1, <2>2, <2>3
  <2>6. a.slob = t
    BY <2>4, <2>5, SlobChanged DEF SlobOK
  <2>7. n \in Nat \ {0} /\ n < s.units[c]
    BY <1>11, <1>14
  <2>8. Took(s, n, c, t)
    BY <1>10, <1>11, <2>1, <2>2, <2>3, <2>4, <2>7, TakePart
  <2> QED BY <2>5, <2>6, <2>8
<1> QED BY <1>13, <1>14

\* cur is the last block of the ring below b.
Before(D, b, cur) == cur \in D /\ cur < b /\ \A x \in D : x < b => x <= cur

\* The search of slob_free ends there, wherever slobfree points.
LEMMA Place ==
    ASSUME NEW s, SlobOK(s), NEW b \in Unit, b # arena, b \notin DOMAIN s.next
    PROVE  Before(DOMAIN s.next, b, place(s, b))
<1>1. PICK D, nx : D = DOMAIN s.next /\ nx = s.next
  OBVIOUS
<1>2. Cyclic(D, nx) /\ s.slobfree \in D /\ arena \in D /\ D \in SUBSET Unit /\ D \in SUBSET Int
  BY <1>1, UnitInt DEF SlobOK, RingOK, Cyclic
<1>3. b \in Int /\ arena \in Int /\ arena < b /\ \A x \in D : x # arena => x > arena
  BY <1>2, UnitInt
<1>4. PICK len : Walk(s, ring(s), len)
  BY <1>1, <1>2, RingWalk
<1>5. PICK r : r = ring(s)
  OBVIOUS
<1>6. /\ len \in Nat \ {0} /\ r \in [0 .. len -> D] /\ DOMAIN r = 0 .. len
  BY <1>1, <1>4, <1>5 DEF Walk
<1>7. PICK L : L = {x \in D : x < b}
  OBVIOUS
<1>8. PICK m \in L : \A x \in L : x <= m
  <2>1. L \in SUBSET Unit /\ L # {}
    BY <1>2, <1>3, <1>7
  <2> QED BY <2>1, Greatest
<1>9. m \in D /\ m < b /\ m \in Int
  BY <1>2, <1>7, <1>8
<1>10. between(b, m, nx[m])
  <2>1. PICK y : y = nx[m]
    OBVIOUS
  <2>2. Succ(D, m, y) /\ y \in D /\ y \in Int /\ y # b
    BY <1>1, <1>2, <1>9, <2>1 DEF Cyclic
  <2>3. y < b => y <= m
    BY <1>7, <1>8, <2>2
  <2> QED BY <1>3, <1>9, <2>1, <2>2, <2>3 DEF between
<1>11. PICK at : at = {k \in DOMAIN r : between(b, r[k], nx[r[k]])}
  OBVIOUS
<1>12. at \in SUBSET Nat /\ at # {}
  <2>1. PICK k \in 0 .. (len - 1) : r[k] = m
    BY <1>1, <1>2, <1>4, <1>5, <1>9, WalkAll
  <2>2. k \in DOMAIN r
    BY <1>6, <2>1
  <2> QED BY <1>6, <1>10, <1>11, <2>1, <2>2
<1>13. PICK k \in at : place(s, b) = r[k]
  <2> DEFINE at_ == {k \in DOMAIN ring(s) : between(b, ring(s)[k], s.next[ring(s)[k]])}
             i_ == CHOOSE k \in at_ : \A j \in at_ : k <= j
  <2>1. at_ = at
    BY <1>1, <1>5, <1>11
  <2>2. place(s, b) = ring(s)[i_]
    BY DEF place
  <2> HIDE DEF at_
  <2>3. \E k \in at_ : \A j \in at_ : k <= j
    BY <1>12, <2>1, LeastNumber
  <2>4. i_ \in at_
    BY <2>3
  <2> HIDE DEF i_
  <2> QED BY <1>5, <2>1, <2>2, <2>4
<1>14. PICK c : c = r[k] /\ c \in D /\ between(b, c, nx[c])
  BY <1>6, <1>11, <1>13
<1>15. PICK y : y = nx[c]
  OBVIOUS
<1>16. Succ(D, c, y) /\ y \in D /\ y \in Int /\ c \in Int
  BY <1>2, <1>14, <1>15 DEF Cyclic
<1>17. y <= c => y <= arena
  BY <1>2, <1>16 DEF Succ
<1>18. c < b /\ (c < y => b < y)
  <2>1. (b > c /\ b < y) \/ (c >= y /\ (b > c \/ b < y))
    BY <1>14, <1>15 DEF between
  <2> QED BY <1>3, <1>16, <1>17, <2>1
<1>19. ASSUME NEW x \in D, x < b PROVE x <= c
  <2>1. x \in Int
    BY <1>2
  <2>2. (c < y => x <= c \/ y <= x) /\ (y <= c => x <= c)
    BY <1>16 DEF Succ
  <2> QED BY <1>3, <1>16, <1>18, <1>19, <2>1, <2>2
<1> QED BY <1>1, <1>13, <1>14, <1>18, <1>19 DEF Before

\* The neighbours of a block that is not in the ring.
Around(D, nx, f, b, cur, nxt) ==
    /\ nxt \in D /\ cur \in D /\ cur \in Int /\ nxt \in Int /\ b \in Int /\ cur < b
    /\ f[cur] \in Nat /\ f[b] \in Nat /\ f[b] > 0
    /\ \A x \in D : x \in Int /\ (x < b => x <= cur) /\ (x > b => nxt <= x)
    /\ nxt > b \/ \A x \in D : x < b

LEMMA Neighbours ==
    ASSUME NEW D, NEW nx, NEW f, UnitMap(f), RingOK(D, nx, f), arena \in D, NEW b \in DOMAIN f, b \notin D,
           NEW cur, Before(D, b, cur), NEW nxt, nxt = nx[cur]
    PROVE  Around(D, nx, f, b, cur, nxt)
<1>1. Cyclic(D, nx) /\ D \in SUBSET Int /\ cur \in D /\ cur < b /\ b \in Int /\ D \in SUBSET DOMAIN f
  BY UnitInt, UnitFacts DEF RingOK, Cyclic, Before
<1>2. Succ(D, cur, nxt) /\ nxt \in D /\ nxt \in Int /\ cur \in Int
  BY <1>1 DEF Cyclic
<1>3. f[cur] \in Nat /\ f[b] \in Nat /\ f[b] > 0
  BY <1>1, UnitFacts
<1>4. ASSUME NEW x \in D PROVE x \in Int /\ (x < b => x <= cur) /\ (x > b => nxt <= x)
  <2>1. x \in Int /\ (x < b => x <= cur)
    BY <1>1 DEF Before
  <2>2. (cur < nxt => x <= cur \/ nxt <= x) /\ (nxt <= cur => x <= cur)
    BY <1>2 DEF Succ
  <2> QED BY <1>1, <1>2, <2>1, <2>2
<1>5. nxt > b \/ \A x \in D : x < b
  <2>1. nxt < b => nxt <= cur
    BY <1>2, <1>4
  <2>2. nxt <= cur => \A x \in D : x <= cur
    BY <1>2 DEF Succ
  <2>3. nxt # b
    BY <1>2
  <2> QED BY <1>1, <1>2, <1>4, <2>1, <2>2, <2>3
<1> QED BY <1>1, <1>2, <1>3, <1>4, <1>5 DEF Around

\* When a neighbour does not touch b, no block on its side does.
LEMMA ClearAbove ==
    ASSUME NEW D, NEW nx, NEW f, UnitMap(f), Loose(f), D \in SUBSET DOMAIN f, NEW b \in DOMAIN f,
           NEW cur, NEW nxt, Around(D, nx, f, b, cur, nxt), b + f[b] # nxt, NEW y \in D, b < y
    PROVE  b + f[b] < y
<1>1. nxt <= y /\ y \in Int /\ nxt \in D /\ nxt \in Int /\ b \in Int /\ f[b] \in Nat /\ nxt > b
  BY DEF Around
<1>2. b + f[b] <= nxt
  BY <1>1 DEF Loose
<1> QED BY <1>1, <1>2

LEMMA ClearBelow ==
    ASSUME NEW D, NEW nx, NEW f, UnitMap(f), Loose(f), RingOK(D, nx, f), NEW b \in DOMAIN f,
           NEW cur, NEW nxt, Around(D, nx, f, b, cur, nxt), cur + f[cur] # b, NEW x \in D, x < b
    PROVE  x + f[x] < b
<1>1. /\ x \in D /\ x <= cur /\ x \in Int /\ cur \in Int /\ cur < b /\ cur \in D /\ b \in Int
      /\ f[cur] \in Nat
  BY DEF Around
<1>2. f[x] \in Nat /\ cur \in DOMAIN f
  BY <1>1, UnitFacts DEF RingOK
<1>3. x < cur => x + f[x] < cur
  BY <1>1 DEF RingOK
<1>4. cur + f[cur] <= b
  BY <1>1, <1>2 DEF Loose
<1> QED BY <1>1, <1>2, <1>3, <1>4

LEMMA InsertHere ==
    ASSUME NEW D, NEW nx, Cyclic(D, nx), NEW b \in Unit, b \notin D, NEW cur, Before(D, b, cur),
           NEW nxt, nxt = nx[cur], NEW ny, ny = put(put(nx, cur, b), b, nxt)
    PROVE  Cyclic(D \cup {b}, ny)
<1>1. cur \in D /\ cur < b /\ \A x \in D : x < b => x <= cur
  BY DEF Before
<1> QED BY <1>1, Insert

Gave(s, b, t) ==
    /\ SlobOK(t) /\ HeldBlocks(t) = HeldBlocks(s) \ {b}
    /\ \A x \in HeldBlocks(s) \ {b} : t.units[x] = s.units[x]
    /\ \A x \in Int : InUnits(t.units, x) <=> InUnits(s.units, x)

\* From the parts of the new state to the state.
LEMMA GaveMade ==
    ASSUME NEW s, SlobOK(s), NEW b \in HeldBlocks(s), NEW cur \in DOMAIN s.next, NEW F, NEW ny, DOMAIN ny = F, NEW g,
           UnitMap(g), Loose(g), RingOK(F, ny, g), cur \in F, arena \in F, g[arena] = 1,
           DOMAIN g \ F = HeldBlocks(s) \ {b}, \A x \in HeldBlocks(s) \ {b} : g[x] = s.units[x],
           \A x \in Int : InUnits(g, x) <=> InUnits(s.units, x),
           NEW t, t = [units |-> g, next |-> ny, slobfree |-> cur]
    PROVE  Gave(s, b, t)
<1>1. t.units = g /\ t.next = ny
  OBVIOUS
<1>2. SlobOK(t)
  BY SlobMade
<1> QED BY <1>1, <1>2 DEF Gave, HeldBlocks

\* No neighbour touches b.
LEMMA GiveAlone ==
    ASSUME NEW s, SlobOK(s), NEW b \in HeldBlocks(s), NEW cur, Before(DOMAIN s.next, b, cur),
           NEW nxt, nxt = s.next[cur], cur + s.units[cur] # b, b + s.units[b] # nxt,
           NEW ny, ny = put(put(s.next, cur, b), b, nxt),
           NEW t, t = [units |-> s.units, next |-> ny, slobfree |-> cur]
    PROVE  Gave(s, b, t)
<1>1. PICK D, nx, f : nx = s.next /\ f = s.units /\ D = DOMAIN nx
  OBVIOUS
<1>2. /\ UnitMap(f) /\ Loose(f) /\ RingOK(D, nx, f) /\ arena \in D /\ f[arena] = 1 /\ D \in SUBSET DOMAIN f
      /\ Cyclic(D, nx) /\ b \in DOMAIN f /\ b \notin D /\ b \in Unit
  BY <1>1, UnitFacts DEF SlobOK, RingOK, HeldBlocks
<1>3. Around(D, nx, f, b, cur, nxt)
  BY <1>1, <1>2, Neighbours
<1>4. Cyclic(D \cup {b}, ny)
  BY <1>1, <1>2, InsertHere
<1>5. ASSUME NEW x \in D \cup {b}, NEW y \in D \cup {b}, x < y PROVE x + f[x] < y
  <2>1. CASE x # b /\ y # b
    BY <1>2, <1>5, <2>1 DEF RingOK
  <2>2. CASE x = b
    <3>1. y \in D /\ b + f[b] # nxt
      BY <1>1, <1>2, <1>3, <1>5, <2>2 DEF Around
    <3> QED BY <1>2, <1>3, <1>5, <2>2, <3>1, ClearAbove
  <2>3. CASE x # b /\ y = b
    <3>1. x \in D /\ cur + f[cur] # b
      BY <1>1, <2>3
    <3> QED BY <1>2, <1>3, <1>5, <2>3, <3>1, ClearBelow
  <2> QED BY <2>1, <2>2, <2>3
<1>6. RingOK(D \cup {b}, ny, f)
  BY <1>2, <1>4, <1>5 DEF RingOK
<1>7. DOMAIN ny = D \cup {b} /\ cur \in D
  BY <1>3, <1>4 DEF Cyclic, Around
<1>8. DOMAIN f \ (D \cup {b}) = HeldBlocks(s) \ {b}
  BY <1>1 DEF HeldBlocks
<1>9. PICK F : F = D \cup {b}
  OBVIOUS
<1> QED BY <1>1, <1>2, <1>6, <1>7, <1>8, <1>9, GaveMade

\* b takes in the block above it.
LEMMA GiveUp ==
    ASSUME NEW s, SlobOK(s), NEW b \in HeldBlocks(s), NEW cur, Before(DOMAIN s.next, b, cur),
           NEW nxt, nxt = s.next[cur], cur + s.units[cur] # b, b + s.units[b] = nxt,
           NEW v, v = s.units[b] + s.units[nxt],
           NEW g, g = drop([s.units EXCEPT ![b] = v], {nxt}),
           NEW ny, ny = drop(put(put(s.next, cur, b), b, s.next[nxt]), {nxt}),
           NEW t, t = [units |-> g, next |-> ny, slobfree |-> cur]
    PROVE  Gave(s, b, t)
<1>1. PICK D, nx, f : nx = s.next /\ f = s.units /\ D = DOMAIN nx
  OBVIOUS
<1>2. /\ UnitMap(f) /\ Loose(f) /\ RingOK(D, nx, f) /\ arena \in D /\ f[arena] = 1 /\ D \in SUBSET DOMAIN f
      /\ Cyclic(D, nx) /\ b \in DOMAIN f /\ b \notin D /\ b \in Unit
  BY <1>1, UnitFacts DEF SlobOK, RingOK, HeldBlocks
<1>3. Around(D, nx, f, b, cur, nxt)
  BY <1>1, <1>2, Neighbours
<1>4. /\ cur \in D /\ nxt \in D /\ nxt \in DOMAIN f /\ cur < b /\ b < nxt /\ cur # nxt /\ cur # b /\ b # nxt
      /\ nxt # arena /\ cur \in Int /\ b \in Int /\ nxt \in Int
  <2>1. /\ cur \in D /\ nxt \in D /\ cur < b /\ f[b] \in Nat /\ f[b] > 0
        /\ cur \in Int /\ b \in Int /\ nxt \in Int
    BY <1>3 DEF Around
  <2>2. b < nxt
    BY <1>1, <2>1
  <2>3. b # arena /\ b > arena
    BY <1>2, UnitInt
  <2> QED BY <1>2, <2>1, <2>2, <2>3 DEF arena
<1>5. JoinedUnits(f, b, nxt, g)
  BY <1>1, <1>2, <1>4, JoinUnits
<1>6. /\ UnitMap(g) /\ Loose(g) /\ DOMAIN g = DOMAIN f \ {nxt} /\ g[b] = f[b] + f[nxt]
      /\ \A x \in DOMAIN f \ {b, nxt} : g[x] = f[x]
      /\ \A x \in Int : InUnits(g, x) <=> InUnits(f, x)
  BY <1>5 DEF JoinedUnits
<1>7. PICK F : F = (D \cup {b}) \ {nxt}
  OBVIOUS
<1>8. Cyclic(F, ny)
  <2>1. PICK nm : nm = put(put(nx, cur, b), b, nxt)
    OBVIOUS
  <2>2. Cyclic(D \cup {b}, nm)
    BY <1>1, <1>2, <2>1, InsertHere
  <2>3. DOMAIN nm = D \cup {b} /\ nm[b] = nxt /\ nm[cur] = b /\ \A x \in D \ {cur} : nm[x] = nx[x]
    BY <1>1, <1>2, <1>4, <2>1 DEF put
  <2>4. PICK nq : nq = drop([nm EXCEPT ![b] = nm[nxt]], {nxt})
    OBVIOUS
  <2>5. Cyclic((D \cup {b}) \ {nxt}, nq)
    BY <1>4, <2>2, <2>3, <2>4, Cut
  <2>6. nq = [x \in F |-> nq[x]] /\ nq[b] = nx[nxt] /\ nq[cur] = b /\ \A x \in D \ {cur, nxt} : nq[x] = nx[x]
    <3>1. PICK e : e = [nm EXCEPT ![b] = nm[nxt]]
      OBVIOUS
    <3>2. /\ DOMAIN e = D \cup {b} /\ e[b] = nx[nxt] /\ e[cur] = b
          /\ \A x \in D \ {cur, nxt} : e[x] = nx[x]
      BY <1>2, <1>4, <2>3, <3>1
    <3>3. nq = [x \in F |-> e[x]]
      BY <1>7, <2>4, <3>1, <3>2 DEF drop
    <3>4. b \in F /\ cur \in F /\ D \ {cur, nxt} \in SUBSET F
      BY <1>4, <1>7
    <3> QED BY <3>2, <3>3, <3>4
  <2>7. PICK m : m = put(put(nx, cur, b), b, nx[nxt])
    OBVIOUS
  <2>8. DOMAIN m = D \cup {b} /\ m[b] = nx[nxt] /\ m[cur] = b /\ \A x \in D \ {cur} : m[x] = nx[x]
    BY <1>1, <1>2, <1>4, <2>7 DEF put
  <2>9. ny = [x \in F |-> m[x]]
    BY <1>1, <1>7, <2>7, <2>8 DEF drop
  <2>10. \A x \in F : m[x] = nq[x]
    BY <1>7, <2>6, <2>8
  <2>11. ny = nq
    BY <2>6, <2>9, <2>10
  <2> QED BY <1>7, <2>5, <2>11
<1>9. ASSUME NEW x \in F, NEW y \in F, x < y PROVE x + g[x] < y
  <2>1. CASE x # b /\ y # b
    <3>1. x \in D /\ y \in D /\ x \in DOMAIN f \ {b, nxt}
      BY <1>2, <1>7, <2>1
    <3>2. x + f[x] < y
      BY <1>2, <1>9, <3>1 DEF RingOK
    <3> QED BY <1>6, <3>1, <3>2
  <2>2. CASE x = b
    <3>1. y \in D /\ y # nxt /\ y \in Int /\ nxt <= y
      BY <1>3, <1>4, <1>7, <1>9, <2>2 DEF Around
    <3>2. nxt < y
      BY <1>4, <3>1
    <3>3. nxt + f[nxt] < y
      BY <1>2, <1>4, <3>1, <3>2 DEF RingOK
    <3>4. f[b] \in Nat /\ f[nxt] \in Nat /\ b + f[b] = nxt
      BY <1>1, <1>2, <1>4, UnitFacts
    <3> QED BY <1>4, <1>6, <2>2, <3>1, <3>3, <3>4
  <2>3. CASE x # b /\ y = b
    <3>1. x \in D /\ cur + f[cur] # b /\ x \in DOMAIN f \ {b, nxt}
      BY <1>1, <1>2, <1>7, <2>3
    <3>2. x + f[x] < b
      BY <1>2, <1>3, <1>9, <2>3, <3>1, ClearBelow
    <3> QED BY <1>6, <2>3, <3>1, <3>2
  <2> QED BY <2>1, <2>2, <2>3
<1>10. RingOK(F, ny, g)
  BY <1>2, <1>4, <1>6, <1>7, <1>8, <1>9 DEF RingOK
<1>11. DOMAIN ny = F /\ cur \in F /\ arena \in F
  BY <1>2, <1>4, <1>7, <1>8 DEF Cyclic
<1>12. g[arena] = 1
  <2>1. arena \in DOMAIN f \ {b, nxt}
    BY <1>2, <1>4
  <2> QED BY <1>2, <1>6, <2>1
<1>13. DOMAIN g \ F = HeldBlocks(s) \ {b}
  BY <1>1, <1>4, <1>6, <1>7 DEF HeldBlocks
<1>14. \A x \in HeldBlocks(s) \ {b} : g[x] = s.units[x]
  BY <1>1, <1>4, <1>6 DEF HeldBlocks
<1> QED BY <1>1, <1>4, <1>6, <1>10, <1>11, <1>12, <1>13, <1>14, GaveMade

\* The block below takes in b.
LEMMA GiveDown ==
    ASSUME NEW s, SlobOK(s), NEW b \in HeldBlocks(s), NEW cur, Before(DOMAIN s.next, b, cur),
           NEW nxt, nxt = s.next[cur], cur + s.units[cur] = b, b + s.units[b] # nxt,
           NEW v, v = s.units[cur] + s.units[b],
           NEW g, g = drop([s.units EXCEPT ![cur] = v], {b}),
           NEW t, t = [units |-> g, next |-> s.next, slobfree |-> cur]
    PROVE  Gave(s, b, t)
<1>1. PICK D, nx, f : nx = s.next /\ f = s.units /\ D = DOMAIN nx
  OBVIOUS
<1>2. /\ UnitMap(f) /\ Loose(f) /\ RingOK(D, nx, f) /\ arena \in D /\ f[arena] = 1 /\ D \in SUBSET DOMAIN f
      /\ Cyclic(D, nx) /\ b \in DOMAIN f /\ b \notin D /\ b \in Unit
  BY <1>1, UnitFacts DEF SlobOK, RingOK, HeldBlocks
<1>3. Around(D, nx, f, b, cur, nxt)
  BY <1>1, <1>2, Neighbours
<1>4. /\ cur \in D /\ cur \in DOMAIN f /\ cur < b /\ cur # b /\ cur # arena /\ cur \in Int /\ b \in Int
      /\ f[cur] \in Nat /\ f[b] \in Nat /\ cur + f[cur] = b
  <2>1. cur \in D /\ cur < b /\ f[cur] \in Nat /\ f[b] \in Nat /\ cur \in Int /\ b \in Int
    BY <1>3 DEF Around
  <2>2. b # arena /\ b >= 0
    BY <1>2, UnitFacts
  <2>3. cur + f[cur] = b
    BY <1>1
  <2>4. cur # arena
    BY <1>2, <2>1, <2>2, <2>3 DEF arena
  <2> QED BY <1>2, <2>1, <2>3, <2>4
<1>5. JoinedUnits(f, cur, b, g)
  BY <1>1, <1>2, <1>4, JoinUnits
<1>6. /\ UnitMap(g) /\ Loose(g) /\ DOMAIN g = DOMAIN f \ {b} /\ g[cur] = f[cur] + f[b]
      /\ \A x \in DOMAIN f \ {cur, b} : g[x] = f[x]
      /\ \A x \in Int : InUnits(g, x) <=> InUnits(f, x)
  BY <1>5 DEF JoinedUnits
<1>7. ASSUME NEW x \in D, NEW y \in D, x < y PROVE x + g[x] < y
  <2>1. CASE x # cur
    <3>1. x + f[x] < y /\ x \in DOMAIN f \ {cur, b}
      BY <1>2, <1>7, <2>1 DEF RingOK
    <3> QED BY <1>6, <3>1
  <2>2. CASE x = cur
    <3>1. b < y
      BY <1>2, <1>3, <1>4, <1>7, <2>2 DEF Around
    <3>2. b + f[b] # nxt
      BY <1>1
    <3>3. b + f[b] < y /\ y \in Int
      BY <1>2, <1>3, <3>1, <3>2, ClearAbove DEF Around
    <3> QED BY <1>4, <1>6, <2>2, <3>3
  <2> QED BY <2>1, <2>2
<1>8. RingOK(D, nx, g)
  BY <1>2, <1>6, <1>7 DEF RingOK
<1>9. g[arena] = 1
  <2>1. arena \in DOMAIN f \ {cur, b}
    BY <1>2, <1>4
  <2> QED BY <1>2, <1>6, <2>1
<1>10. DOMAIN g \ D = HeldBlocks(s) \ {b}
  BY <1>1, <1>6 DEF HeldBlocks
<1>11. \A x \in HeldBlocks(s) \ {b} : g[x] = s.units[x]
  BY <1>1, <1>4, <1>6 DEF HeldBlocks
<1>12. t = [units |-> g, next |-> nx, slobfree |-> cur]
  BY <1>1
<1>13. /\ cur \in DOMAIN s.next /\ DOMAIN nx = D /\ cur \in D /\ arena \in D /\ UnitMap(g) /\ Loose(g)
       /\ \A x \in Int : InUnits(g, x) <=> InUnits(s.units, x)
  BY <1>1, <1>2, <1>4, <1>6
<1> QED BY <1>8, <1>9, <1>10, <1>11, <1>12, <1>13, GaveMade

\* The block below takes in b and the block above.
LEMMA GiveBoth ==
    ASSUME NEW s, SlobOK(s), NEW b \in HeldBlocks(s), NEW cur, Before(DOMAIN s.next, b, cur),
           NEW nxt, nxt = s.next[cur], cur + s.units[cur] = b, b + s.units[b] = nxt,
           NEW v, v = s.units[b] + s.units[nxt], NEW w, w = s.units[cur] + v,
           NEW g, g = drop([s.units EXCEPT ![cur] = w], {b} \cup {nxt}),
           NEW ny, ny = drop([s.next EXCEPT ![cur] = s.next[nxt]], {nxt}),
           NEW t, t = [units |-> g, next |-> ny, slobfree |-> cur]
    PROVE  Gave(s, b, t)
<1>1. PICK D, nx, f : nx = s.next /\ f = s.units /\ D = DOMAIN nx
  OBVIOUS
<1>2. /\ UnitMap(f) /\ Loose(f) /\ RingOK(D, nx, f) /\ arena \in D /\ f[arena] = 1 /\ D \in SUBSET DOMAIN f
      /\ Cyclic(D, nx) /\ b \in DOMAIN f /\ b \notin D /\ b \in Unit
  BY <1>1, UnitFacts DEF SlobOK, RingOK, HeldBlocks
<1>3. Around(D, nx, f, b, cur, nxt)
  BY <1>1, <1>2, Neighbours
<1>4. /\ cur \in D /\ cur \in DOMAIN f /\ cur < b /\ cur # b /\ cur # arena /\ cur \in Int /\ b \in Int
      /\ f[cur] \in Nat /\ f[b] \in Nat /\ cur + f[cur] = b /\ b + f[b] = nxt /\ nxt \in D /\ nxt \in Int
      /\ b < nxt /\ nxt # b /\ nxt # cur /\ nxt # arena /\ f[nxt] \in Nat /\ nxt \in DOMAIN f
  <2>1. /\ cur \in D /\ cur < b /\ f[cur] \in Nat /\ f[b] \in Nat /\ f[b] > 0 /\ cur \in Int /\ b \in Int
        /\ nxt \in D /\ nxt \in Int
    BY <1>3 DEF Around
  <2>2. b # arena /\ b >= 0
    BY <1>2, UnitFacts
  <2>3. cur + f[cur] = b /\ b + f[b] = nxt
    BY <1>1
  <2>4. cur # arena /\ nxt # arena
    BY <1>2, <2>1, <2>2, <2>3 DEF arena
  <2>5. nxt \in DOMAIN f /\ f[nxt] \in Nat
    BY <1>2, <2>1, UnitFacts
  <2> QED BY <1>2, <2>1, <2>3, <2>4, <2>5
<1>5. PICK h : h = drop([f EXCEPT ![b] = v], {nxt})
  OBVIOUS
<1>6. JoinedUnits(f, b, nxt, h)
  BY <1>1, <1>2, <1>4, <1>5, JoinUnits
<1>7. /\ UnitMap(h) /\ Loose(h) /\ DOMAIN h = DOMAIN f \ {nxt} /\ h[b] = f[b] + f[nxt]
      /\ \A x \in DOMAIN f \ {b, nxt} : h[x] = f[x]
      /\ \A x \in Int : InUnits(h, x) <=> InUnits(f, x)
  BY <1>6 DEF JoinedUnits
<1>8. h[cur] = f[cur] /\ cur \in DOMAIN h /\ b \in DOMAIN h /\ w = h[cur] + h[b]
  BY <1>1, <1>2, <1>4, <1>7
<1>9. g = drop([h EXCEPT ![cur] = w], {b})
  <2>1. PICK e : e = [h EXCEPT ![cur] = w]
    OBVIOUS
  <2>2. DOMAIN e = DOMAIN f \ {nxt} /\ e[cur] = w /\ \A x \in DOMAIN f \ {b, nxt, cur} : e[x] = f[x]
    BY <1>7, <1>8, <2>1
  <2>3. PICK d : d = [f EXCEPT ![cur] = w]
    OBVIOUS
  <2>4. DOMAIN d = DOMAIN f /\ d[cur] = w /\ \A x \in DOMAIN f \ {cur} : d[x] = f[x]
    BY <1>4, <2>3
  <2>5. PICK E : E = (DOMAIN f \ {nxt}) \ {b} /\ E = DOMAIN f \ ({b} \cup {nxt})
    OBVIOUS
  <2>6. g = [x \in E |-> d[x]] /\ drop(e, {b}) = [x \in E |-> e[x]]
    BY <1>1, <2>2, <2>3, <2>4, <2>5 DEF drop
  <2>7. \A x \in E : d[x] = e[x]
    BY <2>2, <2>4, <2>5
  <2> QED BY SMTT(30), <2>1, <2>6, <2>7
<1>10. JoinedUnits(h, cur, b, g)
  <2>1. cur + h[cur] = b
    BY <1>4, <1>8
  <2> QED BY <1>7, <1>8, <1>9, <2>1, JoinUnits
<1>11. /\ UnitMap(g) /\ Loose(g) /\ DOMAIN g = DOMAIN f \ {b, nxt} /\ g[cur] = f[cur] + f[b] + f[nxt]
       /\ \A x \in DOMAIN f \ {cur, b, nxt} : g[x] = f[x]
       /\ \A x \in Int : InUnits(g, x) <=> InUnits(f, x)
  <2>1. /\ UnitMap(g) /\ Loose(g) /\ DOMAIN g = DOMAIN h \ {b} /\ g[cur] = h[cur] + h[b]
        /\ \A x \in DOMAIN h \ {cur, b} : g[x] = h[x]
        /\ \A x \in Int : InUnits(g, x) <=> InUnits(h, x)
    BY <1>10 DEF JoinedUnits
  <2>2. g[cur] = f[cur] + f[b] + f[nxt]
    <3>1. h[cur] = f[cur] /\ h[b] = f[b] + f[nxt] /\ g[cur] = h[cur] + h[b]
      BY <1>7, <1>8, <2>1
    <3>2. f[cur] \in Nat /\ f[b] \in Nat /\ f[nxt] \in Nat
      BY <1>4
    <3> QED BY <3>1, <3>2
  <2>3. \A x \in DOMAIN f \ {cur, b, nxt} : g[x] = f[x]
    BY <1>7, <2>1
  <2>4. DOMAIN g = DOMAIN f \ {b, nxt}
    BY <1>7, <2>1
  <2>5. \A x \in Int : InUnits(g, x) <=> InUnits(f, x)
    BY <1>7, <2>1
  <2> QED BY <2>1, <2>2, <2>3, <2>4, <2>5
<1>12. PICK F : F = D \ {nxt}
  OBVIOUS
<1>13. Cyclic(F, ny)
  BY <1>1, <1>2, <1>4, <1>12, Cut
<1>14. ASSUME NEW x \in F, NEW y \in F, x < y PROVE x + g[x] < y
  <2>1. CASE x # cur
    <3>1. x + f[x] < y /\ x \in DOMAIN f \ {cur, b, nxt}
      BY <1>2, <1>12, <1>14, <2>1 DEF RingOK
    <3> QED BY <1>11, <3>1
  <2>2. CASE x = cur
    <3>1. y \in D /\ y # nxt /\ y \in Int /\ y # b
      BY <1>2, <1>3, <1>12 DEF Around
    <3>2. (y < b => y <= cur) /\ (y > b => nxt <= y)
      BY <1>3, <3>1 DEF Around
    <3>3. nxt < y
      BY <1>4, <1>14, <2>2, <3>1, <3>2
    <3>4. nxt + f[nxt] < y
      BY <1>2, <1>4, <3>1, <3>3 DEF RingOK
    <3> QED BY <1>4, <1>11, <2>2, <3>1, <3>4
  <2> QED BY <2>1, <2>2
<1>15. RingOK(F, ny, g)
  BY <1>2, <1>11, <1>12, <1>13, <1>14 DEF RingOK
<1>16. g[arena] = 1
  <2>1. arena \in DOMAIN f \ {cur, b, nxt}
    BY <1>2, <1>4
  <2> QED BY <1>2, <1>11, <2>1
<1>17. DOMAIN g \ F = HeldBlocks(s) \ {b}
  BY <1>1, <1>4, <1>11, <1>12 DEF HeldBlocks
<1>18. \A x \in HeldBlocks(s) \ {b} : g[x] = s.units[x]
  BY <1>1, <1>4, <1>11 DEF HeldBlocks
<1>19. DOMAIN ny = F /\ cur \in F /\ arena \in F
  BY <1>2, <1>4, <1>12, <1>13 DEF Cyclic
<1> QED BY ZenonT(30), <1>1, <1>4, <1>11, <1>15, <1>16, <1>17, <1>18, <1>19, GaveMade

LEMMA DropNone ==
    ASSUME NEW f, f = [x \in DOMAIN f |-> f[x]]
    PROVE  drop(f, {}) = f
BY DEF drop

\* slob_free puts a held block back, whatever slobfree points at.
LEMMA SlobFree ==
    ASSUME NEW s, SlobOK(s), NEW b \in HeldBlocks(s), NEW t, t = slob_free(s, b)
    PROVE  Gave(s, b, t)
<1>1. PICK D, nx, f : nx = s.next /\ f = s.units /\ D = DOMAIN nx
  OBVIOUS
<1>2. /\ UnitMap(f) /\ Loose(f) /\ RingOK(D, nx, f) /\ arena \in D /\ D \in SUBSET DOMAIN f
      /\ Cyclic(D, nx) /\ b \in DOMAIN f /\ b \notin D /\ b \in Unit /\ b # arena
      /\ s = [units |-> s.units, next |-> s.next, slobfree |-> s.slobfree]
  BY <1>1, UnitFacts DEF SlobOK, RingOK, HeldBlocks
<1>3. PICK cur : cur = place(s, b)
  OBVIOUS
<1>4. Before(DOMAIN s.next, b, cur) /\ cur \in D
  BY <1>1, <1>2, <1>3, Place DEF Before
<1>5. PICK nxt : nxt = s.next[cur]
  OBVIOUS
<1>6. nxt \in D /\ f[b] \in Nat /\ f[cur] \in Nat /\ f[nxt] \in Nat
  BY <1>1, <1>2, <1>4, <1>5, UnitFacts DEF Cyclic
<1> DEFINE Freed(bu, bn, gone) ==
             IF cur + s.units[cur] = b
             THEN [s EXCEPT !.units = drop([s.units EXCEPT ![cur] = @ + bu], {b} \cup gone),
                            !.next = drop([@ EXCEPT ![cur] = bn], gone),
                            !.slobfree = cur]
             ELSE [s EXCEPT !.units = drop([@ EXCEPT ![b] = bu], gone),
                            !.next = drop(put(put(@, cur, b), b, bn), gone),
                            !.slobfree = cur]
<1>7. /\ b + s.units[b] = nxt => t = Freed(s.units[b] + s.units[nxt], s.next[nxt], {nxt})
      /\ b + s.units[b] # nxt => t = Freed(s.units[b] + 0, nxt, {})
  BY <1>3, <1>5 DEF slob_free
<1>8. CASE cur + s.units[cur] # b /\ b + s.units[b] # nxt
  <2>1. t = [s EXCEPT !.units = drop([@ EXCEPT ![b] = s.units[b] + 0], {}),
                      !.next = drop(put(put(@, cur, b), b, nxt), {}), !.slobfree = cur]
    BY <1>7, <1>8
  <2>2. PICK ny : ny = put(put(s.next, cur, b), b, nxt)
    OBVIOUS
  <2>3. drop(ny, {}) = ny
    <3>1. ny = [x \in DOMAIN ny |-> ny[x]]
      BY <2>2 DEF put
    <3> QED BY <3>1, DropNone
  <2>4. drop([s.units EXCEPT ![b] = s.units[b] + 0], {}) = s.units
    <3>1. f = [x \in DOMAIN f |-> f[x]] /\ f[b] + 0 = f[b]
      BY <1>2, <1>6 DEF UnitMap
    <3>2. [f EXCEPT ![b] = f[b] + 0] = f
      BY <3>1
    <3> QED BY <1>1, <3>1, <3>2, DropNone
  <2>5. PICK r : r = [units |-> s.units, next |-> ny, slobfree |-> cur]
    OBVIOUS
  <2>6. t = [s EXCEPT !.units = s.units, !.next = ny, !.slobfree = cur]
    BY <2>1, <2>2, <2>3, <2>4
  <2>7. t = r
    BY <1>2, <2>5, <2>6, SlobChanged
  <2> QED BY <1>4, <1>5, <1>8, <2>2, <2>5, <2>7, GiveAlone
<1>9. CASE cur + s.units[cur] # b /\ b + s.units[b] = nxt
  <2>1. PICK v : v = s.units[b] + s.units[nxt]
    OBVIOUS
  <2>2. PICK g : g = drop([s.units EXCEPT ![b] = v], {nxt})
    OBVIOUS
  <2>3. PICK ny : ny = drop(put(put(s.next, cur, b), b, s.next[nxt]), {nxt})
    OBVIOUS
  <2>4. PICK r : r = [units |-> g, next |-> ny, slobfree |-> cur]
    OBVIOUS
  <2>5. t = [s EXCEPT !.units = g, !.next = ny, !.slobfree = cur]
    BY <1>7, <1>9, <2>1, <2>2, <2>3
  <2>6. t = r
    BY <1>2, <2>4, <2>5, SlobChanged
  <2>7. Gave(s, b, r)
    BY <1>4, <1>5, <1>9, <2>1, <2>2, <2>3, <2>4, GiveUp
  <2> QED BY <2>6, <2>7
<1>10. CASE cur + s.units[cur] = b /\ b + s.units[b] # nxt
  <2>1. PICK v : v = s.units[cur] + s.units[b]
    OBVIOUS
  <2>2. PICK g : g = drop([s.units EXCEPT ![cur] = v], {b})
    OBVIOUS
  <2>3. PICK r : r = [units |-> g, next |-> s.next, slobfree |-> cur]
    OBVIOUS
  <2>4. PICK h, ny : /\ h = drop([s.units EXCEPT ![cur] = s.units[cur] + (s.units[b] + 0)], {b} \cup {})
                     /\ ny = drop([s.next EXCEPT ![cur] = nxt], {})
    OBVIOUS
  <2>5. t = [s EXCEPT !.units = h, !.next = ny, !.slobfree = cur]
    BY <1>7, <1>10, <2>4
  <2>6. ny = s.next
    <3>1. nx = [x \in DOMAIN nx |-> nx[x]]
      BY <1>2 DEF Cyclic
    <3>2. [nx EXCEPT ![cur] = nxt] = nx
      BY <1>1, <1>5, <3>1
    <3> QED BY <1>1, <2>4, <3>1, <3>2, DropNone
  <2>7. h = g /\ t = [s EXCEPT !.units = g, !.next = s.next, !.slobfree = cur]
    <3>1. s.units[cur] + (s.units[b] + 0) = v /\ {b} \cup {} = {b}
      BY <1>1, <1>6, <2>1
    <3>2. h = g
      BY <2>2, <2>4, <3>1
    <3> QED BY <2>5, <2>6, <3>2
  <2>8. t = r
    BY <1>2, <2>3, <2>7, SlobChanged
  <2>9. Gave(s, b, r)
    BY <1>4, <1>5, <1>10, <2>1, <2>2, <2>3, GiveDown
  <2> QED BY <2>8, <2>9
<1>11. CASE cur + s.units[cur] = b /\ b + s.units[b] = nxt
  <2>1. PICK v, w : v = s.units[b] + s.units[nxt] /\ w = s.units[cur] + v
    OBVIOUS
  <2>2. PICK g : g = drop([s.units EXCEPT ![cur] = w], {b} \cup {nxt})
    OBVIOUS
  <2>3. PICK ny : ny = drop([s.next EXCEPT ![cur] = s.next[nxt]], {nxt})
    OBVIOUS
  <2>4. PICK r : r = [units |-> g, next |-> ny, slobfree |-> cur]
    OBVIOUS
  <2>5. PICK h : h = drop([s.units EXCEPT ![cur] = s.units[cur] + (s.units[b] + s.units[nxt])], {b} \cup {nxt})
    OBVIOUS
  <2>6. t = [s EXCEPT !.units = g, !.next = ny, !.slobfree = cur]
    <3>1. t = [s EXCEPT !.units = h, !.next = ny, !.slobfree = cur]
      BY <1>7, <1>11, <2>3, <2>5
    <3>2. h = g
      BY <2>1, <2>2, <2>5
    <3> QED BY <3>1, <3>2
  <2>7. t = r
    BY <1>2, <2>4, <2>6, SlobChanged
  <2>8. Gave(s, b, r)
    BY <1>4, <1>5, <1>11, <2>1, <2>2, <2>3, <2>4, GiveBoth
  <2> QED BY <2>7, <2>8
<1> QED BY <1>8, <1>9, <1>10, <1>11

\* set_units of a block that has its units already.
LEMMA SameUnits ==
    ASSUME NEW s, SlobOK(s), NEW b \in HeldBlocks(s), NEW n, s.units[b] = n
    PROVE  set_units(s, b, n) = s
<1>1. PICK f, nx, a : s = [units |-> f, next |-> nx, slobfree |-> a] /\ f = s.units /\ nx = s.next /\ a = s.slobfree
  BY DEF SlobOK
<1>2. f = [x \in DOMAIN f |-> f[x]] /\ b \in DOMAIN f /\ f[b] = n
  BY <1>1 DEF SlobOK, UnitMap, HeldBlocks
<1>3. put(f, b, n) = f
  BY <1>2 DEF put
<1>4. set_units(s, b, n) = [s EXCEPT !.units = f]
  BY <1>1, <1>3 DEF set_units
<1> QED BY <1>1, <1>4, SlobChanged

\* A page that is not part of the heap becomes a block of its own.
Grown(s, b, n, t) ==
    /\ SlobOK(t) /\ HeldBlocks(t) = HeldBlocks(s) \cup {b} /\ b \notin HeldBlocks(s)
    /\ \A x \in HeldBlocks(s) : t.units[x] = s.units[x]
    /\ \A x \in Int : InUnits(t.units, x) <=> InUnits(s.units, x) \/ (b <= x /\ x < b + n)

LEMMA NewUnits ==
    ASSUME NEW s, SlobOK(s), NEW b \in Nat, NEW n \in Nat \ {0}, b + n <= MemEnd,
           \A x \in Int : b <= x /\ x < b + n => ~InUnits(s.units, x),
           NEW t, t = set_units(s, b, n)
    PROVE  Grown(s, b, n, t)
<1>1. PICK f, nx, a : s = [units |-> f, next |-> nx, slobfree |-> a] /\ f = s.units /\ nx = s.next /\ a = s.slobfree
  BY DEF SlobOK
<1>2. PICK D : D = DOMAIN nx
  OBVIOUS
<1>3. /\ UnitMap(f) /\ Loose(f) /\ RingOK(D, nx, f) /\ arena \in D /\ f[arena] = 1 /\ D \in SUBSET DOMAIN f
      /\ a \in D
  BY <1>1, <1>2 DEF SlobOK, RingOK
<1>4. MemEnd \in Nat /\ b \in Unit /\ b # arena
  BY MemEndNat DEF arena
<1>5. b \notin DOMAIN f
  <2> SUFFICES ASSUME b \in DOMAIN f PROVE FALSE
    OBVIOUS
  <2>1. f[b] \in Nat /\ f[b] > 0
    BY <1>3, UnitFacts
  <2>2. InUnits(f, b)
    BY <2>1 DEF InUnits
  <2> QED BY <1>1, <2>2
<1>6. PICK g : g = put(f, b, n)
  OBVIOUS
<1>7. DOMAIN g = DOMAIN f \cup {b} /\ g[b] = n /\ \A x \in DOMAIN f : g[x] = f[x]
  BY <1>5, <1>6 DEF put
<1>8. UnitMap(g)
  <2>1. ASSUME NEW x \in DOMAIN g
        PROVE  x \in Unit /\ g[x] \in Nat \ {0} /\ x + g[x] <= MemEnd
    <3>1. CASE x = b
      BY <3>1, <1>4, <1>7
    <3>2. CASE x # b
      <4>1. x \in DOMAIN f /\ g[x] = f[x]
        BY <1>7, <3>2
      <4>2. x \in Unit /\ f[x] \in Nat /\ f[x] > 0 /\ x + f[x] <= MemEnd
        BY <1>3, <4>1, UnitFacts
      <4> QED BY <4>1, <4>2
    <3> QED BY <3>1, <3>2
  <2>2. g = [x \in DOMAIN g |-> g[x]]
    BY <1>6 DEF put
  <2>3. g \in [DOMAIN g -> Nat \ {0}]
    BY <2>1, <2>2
  <2> QED BY <2>1, <2>3 DEF UnitMap
<1>9. Loose(g)
  <2> SUFFICES ASSUME NEW x \in DOMAIN g, NEW y \in DOMAIN g, x < y PROVE x + g[x] <= y
    BY DEF Loose
  <2>1. CASE x = b
    <3>1. y \in DOMAIN f /\ y \in Int /\ f[y] \in Nat /\ f[y] > 0
      BY <1>3, <1>7, <2>1, UnitFacts
    <3>2. InUnits(f, y)
      BY <3>1 DEF InUnits
    <3>3. ~(b <= y /\ y < b + n)
      BY <1>1, <3>1, <3>2
    <3> QED BY <1>7, <2>1, <3>1, <3>3
  <2>2. CASE x # b /\ y = b
    <3>1. x \in DOMAIN f /\ x \in Int /\ f[x] \in Nat /\ f[x] > 0 /\ g[x] = f[x]
      BY <1>3, <1>7, <2>2, UnitFacts
    <3>2. InUnits(f, b) \/ x + f[x] <= b
      BY <2>2, <3>1 DEF InUnits
    <3>3. ~InUnits(f, b)
      BY <1>1
    <3> QED BY <2>2, <3>1, <3>2, <3>3
  <2>3. CASE x # b /\ y # b
    BY <1>3, <1>7, <2>3 DEF Loose
  <2> QED BY <2>1, <2>2, <2>3
<1>10. RingOK(D, nx, g)
  BY <1>3, <1>7 DEF RingOK
<1>11. PICK r : r = [units |-> g, next |-> nx, slobfree |-> a]
  OBVIOUS
<1>12. t = r
  <2>1. t = [s EXCEPT !.units = g]
    BY <1>1, <1>6 DEF set_units
  <2> QED BY <1>1, <1>11, <2>1, SlobChanged
<1>13. g[arena] = 1
  BY <1>3, <1>7
<1>14. SlobOK(r)
  BY <1>2, <1>3, <1>8, <1>9, <1>10, <1>11, <1>13, SlobMade
<1>15. r.units = g /\ r.next = nx
  BY <1>11
<1>16. HeldBlocks(r) = HeldBlocks(s) \cup {b} /\ b \notin HeldBlocks(s)
  BY <1>1, <1>2, <1>3, <1>5, <1>7, <1>15 DEF HeldBlocks
<1>17. \A x \in HeldBlocks(s) : r.units[x] = s.units[x]
  BY <1>1, <1>7, <1>15 DEF HeldBlocks
<1>18. ASSUME NEW x \in Int
       PROVE  InUnits(g, x) <=> InUnits(f, x) \/ (b <= x /\ x < b + n)
  BY <1>7 DEF InUnits
<1> QED BY <1>1, <1>12, <1>14, <1>15, <1>16, <1>17, <1>18 DEF Grown

-----------------------------------------------------------------------------
(* Pages and their units *)

LEMMA PageBounds ==
    ASSUME NEW p \in Page
    PROVE  /\ p \in Nat /\ p * PageUnits \in Nat /\ p * PageUnits + PageUnits <= MemEnd
           /\ PageUnits \in Nat \ {0} /\ (p * PageUnits) % PageUnits = 0
           /\ OnPage(p, p * PageUnits)
<1>1. p \in Nat /\ p <= NPages - 1 /\ NPages \in Nat /\ PageUnits \in Nat /\ PageUnits > 0
  BY NPagesAssumption, HeapAssumption DEF Page
<1>2. p * PageUnits \in Nat
  BY <1>1
<1>3. p * PageUnits + PageUnits <= MemEnd
  <2>1. p * PageUnits + PageUnits = (p + 1) * PageUnits /\ p + 1 <= NPages
    BY <1>1
  <2>2. (p + 1) * PageUnits <= NPages * PageUnits
    BY <1>1, <2>1
  <2> QED BY <2>1, <2>2 DEF MemEnd
<1>4. (p * PageUnits) % PageUnits = 0
  BY <1>1
<1> QED BY <1>1, <1>2, <1>3, <1>4 DEF OnPage

LEMMA OnePage ==
    ASSUME NEW p \in Nat, NEW q \in Nat, NEW x \in Int, OnPage(p, x), OnPage(q, x)
    PROVE  p = q
<1>1. PageUnits \in Nat /\ PageUnits > 0
  BY HeapAssumption
<1>2. ASSUME NEW i \in Nat, NEW j \in Nat, i < j PROVE i * PageUnits + PageUnits <= j * PageUnits
  <2>1. (i + 1) * PageUnits <= j * PageUnits
    BY <1>1, <1>2
  <2> QED BY <1>1, <2>1
<1>3. ~(p < q)
  BY <1>1, <1>2 DEF OnPage
<1>4. ~(q < p)
  BY <1>1, <1>2 DEF OnPage
<1> QED BY <1>3, <1>4

\* Every unit is on a page.
LEMMA SomePage ==
    ASSUME NEW x \in 0 .. MemEnd - 1
    PROVE  \E p \in Page : OnPage(p, x)
<1>1. PageUnits \in Nat /\ PageUnits > 0 /\ NPages \in Nat /\ x \in Nat /\ x < NPages * PageUnits
  BY HeapAssumption, NPagesAssumption, MemEndNat DEF MemEnd
<1>2. PICK S : S = {q \in Nat : x < q * PageUnits + PageUnits}
  OBVIOUS
<1>3. S \in SUBSET Nat /\ S # {}
  <2>1. x < x * PageUnits + PageUnits
    BY <1>1
  <2> QED BY <1>1, <1>2, <2>1
<1>4. PICK p \in S : \A q \in S : p <= q
  BY <1>3, LeastNumber
<1>5. p \in Nat /\ x < p * PageUnits + PageUnits
  BY <1>2, <1>4
<1>6. p * PageUnits <= x
  <2>1. CASE p = 0
    BY <1>1, <2>1
  <2>2. CASE p # 0
    <3>1. p - 1 \in Nat /\ p - 1 \notin S
      BY <1>3, <1>4, <2>2
    <3>2. ~(x < (p - 1) * PageUnits + PageUnits)
      BY <1>2, <3>1
    <3>3. (p - 1) * PageUnits + PageUnits = p * PageUnits
      BY <1>1, <1>5
    <3>4. p * PageUnits \in Nat
      BY <1>1, <1>5
    <3> QED BY <1>1, <3>2, <3>3, <3>4
  <2> QED BY <2>1, <2>2
<1>7. p < NPages
  <2> SUFFICES ASSUME NPages <= p PROVE FALSE
    BY <1>1, <1>5
  <2>1. NPages * PageUnits <= p * PageUnits
    BY <1>1, <1>5
  <2> QED BY <1>1, <1>5, <1>6, <2>1
<1>8. p \in Page
  BY <1>1, <1>5, <1>7 DEF Page
<1>9. OnPage(p, x)
  BY <1>5, <1>6 DEF OnPage
<1> QED BY <1>8, <1>9

LEMMA ExactSame ==
    ASSUME NEW f, NEW G, UnitsExact(f, G), NEW g, \A x \in Int : InUnits(g, x) <=> InUnits(f, x)
    PROVE  UnitsExact(g, G)
BY DEF UnitsExact

\* The heap grows by a page.
LEMMA ExactMore ==
    ASSUME NEW f, NEW G \in SUBSET Page, UnitsExact(f, G), NEW p \in Page, p \notin G,
           NEW b, b = p * PageUnits
    PROVE  /\ \A x \in Int : b <= x /\ x < b + PageUnits => ~InUnits(f, x)
           /\ \A g : (\A x \in Int : InUnits(g, x) <=> InUnits(f, x) \/ (b <= x /\ x < b + PageUnits))
                         => UnitsExact(g, G \cup {p})
<1>1. p \in Nat /\ b \in Nat /\ PageUnits \in Nat
  BY PageBounds
<1>2. G \in SUBSET Nat
  BY PageBounds
<1>3. ASSUME NEW x \in Int, b <= x, x < b + PageUnits PROVE ~InUnits(f, x)
  <2> SUFFICES ASSUME InUnits(f, x) PROVE FALSE
    OBVIOUS
  <2>1. x >= 0
    BY <1>1, <1>3
  <2>2. PICK q \in G : OnPage(q, x)
    BY <2>1 DEF UnitsExact
  <2>3. OnPage(p, x)
    BY <1>3 DEF OnPage
  <2> QED BY <1>1, <1>2, <2>2, <2>3, OnePage
<1>4. ASSUME NEW g, \A x \in Int : InUnits(g, x) <=> InUnits(f, x) \/ (b <= x /\ x < b + PageUnits)
      PROVE  UnitsExact(g, G \cup {p})
  <2>1. ASSUME NEW x \in Int, x >= 0
        PROVE  InUnits(g, x) <=> \E q \in G \cup {p} : OnPage(q, x)
    <3>1. InUnits(f, x) <=> \E q \in G : OnPage(q, x)
      BY <2>1 DEF UnitsExact
    <3>2. OnPage(p, x) <=> b <= x /\ x < b + PageUnits
      BY DEF OnPage
    <3> QED BY <1>4, <3>1, <3>2
  <2> QED BY <2>1 DEF UnitsExact
<1> QED BY <1>3, <1>4

LEMMA HeapGrows ==
    ASSUME NEW C, NEW W, NEW B, InUse(C, W, B), NEW p \in C \cap Page, NEW D, D = C \ {p}
    PROVE  p \notin HeapPages(C, W, B) /\ HeapPages(D, W, B) = HeapPages(C, W, B) \cup {p}
<1>1. \A w \in W : p \notin run(w.page, w.n)
  BY DEF InUse, Busy
<1>2. \A d \in B : p \notin run(d.page, Pages(d.order))
  BY DEF InUse, Busy
<1> QED BY <1>1, <1>2 DEF HeapPages

\* Pages that change hands between the allocator and its other users.
LEMMA HeapSameOwned ==
    ASSUME NEW C, NEW W, NEW B, NEW w, NEW D, run(w.page, w.n) \subseteq C, D = C \ run(w.page, w.n)
    PROVE  HeapPages(D, W \cup {w}, B) = HeapPages(C, W, B)
BY DEF HeapPages

LEMMA HeapSameBig ==
    ASSUME NEW C, NEW W, NEW B, NEW d, NEW D, run(d.page, Pages(d.order)) \subseteq C,
           D = C \ run(d.page, Pages(d.order))
    PROVE  HeapPages(D, W, B \cup {d}) = HeapPages(C, W, B)
BY DEF HeapPages

LEMMA HeapSameBack ==
    ASSUME NEW C, NEW W, NEW B
    PROVE  /\ \A w \in W : HeapPages(C \cup run(w.page, w.n), W \ {w}, B) = HeapPages(C, W, B)
           /\ \A d \in B : HeapPages(C \cup run(d.page, Pages(d.order)), W, B \ {d}) = HeapPages(C, W, B)
BY DEF HeapPages

-----------------------------------------------------------------------------
(* Who holds which block *)

\* The units of an object below a page are the heap's own, never a descriptor's pages.
LEMMA SmallApart ==
    ASSUME NEW s, SlobOK(s), NEW C, NEW W, NEW B, InUse(C, W, B), UnitsExact(s.units, HeapPages(C, W, B)),
           NEW O, NEW X, Claims(s, O, B, X), NEW o \in O, o.size \in Small, NEW d \in B
    PROVE  o.addr # d.page * PageUnits
<1> SUFFICES ASSUME o.addr = d.page * PageUnits PROVE FALSE
  OBVIOUS
<1>1. PICK x \in Int : x = o.addr
  BY DEF Claims
<1>2. PICK b : b = x - 1
  OBVIOUS
<1>3. b \in HeldBlocks(s) /\ s.units[b] = o.size + 1 /\ o.size \in Nat \ {0}
  BY <1>1, <1>2, HeapAssumption DEF Claims, Header
<1>4. b \in Int /\ b >= 0
  BY <1>3, UnitFacts DEF SlobOK, HeldBlocks
<1>5. b <= x /\ x < b + s.units[b] /\ x >= 0
  BY <1>2, <1>3, <1>4
<1>6. InUnits(s.units, x)
  BY <1>3, <1>5 DEF InUnits, HeldBlocks
<1>7. PICK p \in HeapPages(C, W, B) : OnPage(p, x)
  BY <1>5, <1>6 DEF UnitsExact
<1>8. p \in Nat /\ p \notin run(d.page, Pages(d.order))
  BY <1>7, PageBounds DEF HeapPages
<1>9. PICK e \in Nat : e = d.page
  BY DEF InUse, Busy
<1>10. e \in Page /\ e \in run(d.page, Pages(d.order))
  BY <1>9, NPagesAssumption DEF InUse, Busy, Page, run
<1>11. OnPage(e, x)
  BY <1>1, <1>9, <1>10, PageBounds
<1>12. p = e
  BY <1>7, <1>8, <1>11, OnePage
<1> QED BY <1>8, <1>10, <1>12

\* A page names one descriptor.
LEMMA OneDescriptor ==
    ASSUME NEW C, NEW W, NEW B, InUse(C, W, B), NEW d \in B, NEW e \in B,
           d.page * PageUnits = e.page * PageUnits
    PROVE  d = e
<1>1. PICK p \in Nat, q \in Nat : p = d.page /\ q = e.page
  BY DEF InUse, Busy
<1>2. p \in Page /\ q \in Page /\ p \in run(d.page, Pages(d.order)) /\ q \in run(e.page, Pages(e.order))
  BY <1>1, NPagesAssumption DEF InUse, Busy, Page, run
<1>3. PICK x \in Int : x = p * PageUnits /\ x = q * PageUnits
  BY <1>1, <1>2, PageBounds
<1>4. p = q
  BY <1>2, <1>3, PageBounds, OnePage
<1> QED BY <1>1, <1>2, <1>4 DEF InUse

\* What kfree finds for an object.
LEMMA Descriptors ==
    ASSUME NEW O, NEW X, Claims(slob, O, bigblocks, X), SlobOK(slob),
           NEW C, InUse(C, owned, bigblocks), UnitsExact(slob.units, HeapPages(C, owned, bigblocks)), NEW o \in O
    PROVE  /\ o.size \in Small <=> descriptor(o.addr) = {}
           /\ \A d \in bigblocks : o.size \notin Small =>
                  (d \in descriptor(o.addr) <=> o.addr = d.page * PageUnits)
<1>1. ASSUME o.size \in Small PROVE descriptor(o.addr) = {}
  BY <1>1, SmallApart DEF descriptor
<1>2. ASSUME NEW d \in bigblocks, o.addr = d.page * PageUnits PROVE d \in descriptor(o.addr)
  <2>1. PICK p \in Page : p = d.page
    BY NPagesAssumption DEF InUse, Busy, Page
  <2>2. o.addr % PageUnits = 0
    BY <1>2, <2>1, PageBounds
  <2> QED BY <1>2, <2>2 DEF descriptor
<1>3. ASSUME o.size \notin Small PROVE \E d \in bigblocks : o.addr = d.page * PageUnits
  BY <1>3 DEF Claims
<1> QED BY <1>1, <1>2, <1>3 DEF descriptor

\* kmalloc below a page.
LEMMA ClaimsSmall ==
    ASSUME NEW s, SlobOK(s), NEW O, NEW B, Claims(s, O, B, {}), NEW z \in Small,
           NEW b, NEW t, Took(s, z + Header, b, t), NEW o, o = [addr |-> b + Header, size |-> z]
    PROVE  Claims(t, O \cup {o}, B, {})
<1>1. /\ b \notin HeldBlocks(s) /\ HeldBlocks(t) = HeldBlocks(s) \cup {b} /\ t.units[b] = z + Header
      /\ \A x \in HeldBlocks(s) : t.units[x] = s.units[x]
  BY DEF Took, HeldBlocks
<1>2. b \in Int
  BY UnitFacts DEF Took, SlobOK, RingOK
<1>3. o.addr = b + Header /\ o.size = z /\ o.addr - Header = b /\ o.addr \in Int
  BY <1>2 DEF Header
<1>4. ASSUME NEW v \in O
      PROVE  /\ v.addr \in Int
             /\ v.size \in Small => v.addr - Header \in HeldBlocks(s) /\ v.addr - Header # b
                                    /\ s.units[v.addr - Header] = v.size + Header
             /\ v.size \notin Small =>
                    v.size \in Big /\ \E d \in B : v.addr = d.page * PageUnits /\ d.order = find_order(v.size)
  BY <1>1 DEF Claims
<1>5. ASSUME NEW d \in B PROVE d.bb \in HeldBlocks(s) /\ s.units[d.bb] = BigUnits /\ d.bb # b
  BY <1>1 DEF Claims
<1>6. ASSUME NEW v \in O \cup {o}
      PROVE  /\ v.addr \in Int
             /\ v.size \in Small => v.addr - Header \in HeldBlocks(t) /\ t.units[v.addr - Header] = v.size + Header
             /\ v.size \notin Small =>
                    v.size \in Big /\ \E d \in B : v.addr = d.page * PageUnits /\ d.order = find_order(v.size)
  <2>1. CASE v = o
    BY <1>1, <1>3, <2>1
  <2>2. CASE v # o
    <3>1. v \in O
      BY <2>2
    <3>2. v.size \in Small => t.units[v.addr - Header] = s.units[v.addr - Header]
      BY <1>1, <1>4, <3>1
    <3> QED BY <1>1, <1>4, <3>1, <3>2
  <2> QED BY <2>1, <2>2
<1>7. \A d \in B : d.bb \in HeldBlocks(t) /\ t.units[d.bb] = BigUnits
  BY <1>1, <1>5
<1>8. ASSUME NEW u \in O \cup {o}, NEW v \in O \cup {o}, u.addr = v.addr, u.size \in Small <=> v.size \in Small
      PROVE  u = v
  <2>1. CASE u \in O /\ v \in O
    BY <1>8, <2>1 DEF Claims
  <2>2. CASE u = o /\ v \in O
    BY <1>3, <1>4, <1>8, <2>2
  <2>3. CASE v = o /\ u \in O
    BY <1>3, <1>4, <1>8, <2>3
  <2> QED BY <2>1, <2>2, <2>3
<1>9. \A d, e \in B : d.bb = e.bb => d = e
  BY DEF Claims
<1>10. \A v \in O \cup {o}, d \in B : v.size \in Small => v.addr - Header # d.bb
  <2>1. \A v \in O, d \in B : v.size \in Small => v.addr - Header # d.bb
    BY DEF Claims
  <2> QED BY <1>3, <1>5, <2>1
<1>11. ASSUME NEW x \in HeldBlocks(t)
       PROVE  \/ \E v \in O \cup {o} : v.size \in Small /\ x = v.addr - Header
              \/ \E d \in B : x = d.bb
  <2>1. CASE x = b
    BY <1>3, <2>1
  <2>2. CASE x # b
    <3>1. x \in HeldBlocks(s)
      BY <1>1, <2>2
    <3> QED BY <3>1 DEF Claims
  <2> QED BY <2>1, <2>2
<1> QED BY <1>6, <1>7, <1>8, <1>9, <1>10, <1>11 DEF Claims


\* The bigblock_t of a large kmalloc.
LEMMA ClaimsBlock ==
    ASSUME NEW s, SlobOK(s), NEW O, NEW B, Claims(s, O, B, {}), NEW b, NEW t, Took(s, BigUnits, b, t)
    PROVE  Claims(t, O, B, {b})
<1>1. /\ b \notin HeldBlocks(s) /\ HeldBlocks(t) = HeldBlocks(s) \cup {b} /\ t.units[b] = BigUnits
      /\ \A x \in HeldBlocks(s) : t.units[x] = s.units[x]
  BY DEF Took, HeldBlocks
<1>2. ASSUME NEW v \in O
      PROVE  /\ v.addr \in Int
             /\ v.size \in Small => v.addr - Header \in HeldBlocks(t) /\ v.addr - Header # b
                                    /\ t.units[v.addr - Header] = v.size + Header
             /\ v.size \notin Small =>
                    v.size \in Big /\ \E d \in B : v.addr = d.page * PageUnits /\ d.order = find_order(v.size)
  BY <1>1 DEF Claims
<1>3. ASSUME NEW d \in B PROVE d.bb \in HeldBlocks(t) /\ t.units[d.bb] = BigUnits /\ d.bb # b
  BY <1>1 DEF Claims
<1>4. /\ \A o, v \in O : o.addr = v.addr /\ (o.size \in Small <=> v.size \in Small) => o = v
      /\ \A d, e \in B : d.bb = e.bb => d = e
      /\ \A o \in O, d \in B : o.size \in Small => o.addr - Header # d.bb
  BY DEF Claims
<1>5. \A x \in HeldBlocks(t) : \/ \E o \in O : o.size \in Small /\ x = o.addr - Header
                               \/ \E d \in B : x = d.bb
                               \/ x \in {b}
  BY <1>1 DEF Claims
<1> QED BY <1>1, <1>2, <1>3, <1>4, <1>5 DEF Claims

\* A free block more or less changes nobody's claim.
LEMMA ClaimsKept ==
    ASSUME NEW s, NEW O, NEW B, NEW X, Claims(s, O, B, X), NEW t, HeldBlocks(t) = HeldBlocks(s),
           \A x \in HeldBlocks(s) : t.units[x] = s.units[x]
    PROVE  Claims(t, O, B, X)
<1>1. ASSUME NEW o \in O, o.size \in Small
      PROVE  o.addr - Header \in HeldBlocks(t) /\ t.units[o.addr - Header] = o.size + Header
  BY <1>1 DEF Claims
<1>2. \A d \in B : d.bb \in HeldBlocks(t) /\ t.units[d.bb] = BigUnits
  BY DEF Claims
<1>3. \A x \in X : x \in HeldBlocks(t) /\ t.units[x] = BigUnits
  BY DEF Claims
<1> QED BY <1>1, <1>2, <1>3 DEF Claims

\* No pages: the bigblock_t goes back.
LEMMA ClaimsRefused ==
    ASSUME NEW s, NEW O, NEW B, NEW b, Claims(s, O, B, {b}), NEW t, Gave(s, b, t)
    PROVE  Claims(t, O, B, {})
<1>1. /\ HeldBlocks(t) = HeldBlocks(s) \ {b} /\ \A x \in HeldBlocks(s) \ {b} : t.units[x] = s.units[x]
  BY DEF Gave
<1>2. ASSUME NEW o \in O, o.size \in Small
      PROVE  o.addr - Header \in HeldBlocks(t) /\ t.units[o.addr - Header] = o.size + Header
  <2>1. /\ o.addr - Header \in HeldBlocks(s) /\ s.units[o.addr - Header] = o.size + Header
        /\ o.addr - Header # b
    BY <1>2 DEF Claims
  <2> QED BY <1>1, <2>1
<1>3. ASSUME NEW d \in B PROVE d.bb \in HeldBlocks(t) /\ t.units[d.bb] = BigUnits
  <2>1. d.bb \in HeldBlocks(s) /\ s.units[d.bb] = BigUnits /\ d.bb # b
    BY DEF Claims
  <2> QED BY <1>1, <2>1
<1>4. \A x \in HeldBlocks(t) : \/ \E o \in O : o.size \in Small /\ x = o.addr - Header
                               \/ \E d \in B : x = d.bb
  BY <1>1 DEF Claims
<1> QED BY <1>2, <1>3, <1>4 DEF Claims

\* The pages of a large kmalloc: the descriptor and the object.
LEMMA ClaimsPages ==
    ASSUME NEW s, NEW O, NEW B, NEW b, Claims(s, O, B, {b}), NEW C, NEW W, InUse(C, W, B),
           NEW p \in Page, p \in C, NEW z \in Big, z \notin Small, NEW r, r = find_order(z),
           NEW d, d = [bb |-> b, order |-> r, page |-> p],
           NEW o, o = [addr |-> p * PageUnits, size |-> z]
    PROVE  Claims(s, O \cup {o}, B \cup {d}, {})
<1>1. d.bb = b /\ d.order = find_order(z) /\ d.page = p /\ o.addr = p * PageUnits /\ o.size = z /\ o.addr \in Int
  BY PageBounds
<1>2. ASSUME NEW v \in O \cup {o}
      PROVE  /\ v.addr \in Int
             /\ v.size \in Small => v.addr - Header \in HeldBlocks(s) /\ s.units[v.addr - Header] = v.size + Header
             /\ v.size \notin Small =>
                    /\ v.size \in Big
                    /\ \E e \in B \cup {d} : v.addr = e.page * PageUnits /\ e.order = find_order(v.size)
  <2>1. CASE v = o
    BY <1>1, <2>1
  <2>2. CASE v # o
    BY <2>2 DEF Claims
  <2> QED BY <2>1, <2>2
<1>3. \A e \in B \cup {d} : e.bb \in HeldBlocks(s) /\ s.units[e.bb] = BigUnits
  BY <1>1 DEF Claims
<1>4. ASSUME NEW v \in O, v.size \notin Small PROVE v.addr # o.addr
  <2>1. PICK e \in B : v.addr = e.page * PageUnits
    BY <1>4 DEF Claims
  <2>2. PICK q \in Nat : q = e.page
    BY DEF InUse, Busy
  <2>3. q \in Page /\ q \in run(e.page, Pages(e.order))
    BY <2>2, NPagesAssumption DEF InUse, Busy, Page, run
  <2>4. q # p
    BY <2>3 DEF InUse, Busy
  <2>5. ASSUME v.addr = o.addr PROVE FALSE
    <3>1. PICK x \in Int : x = p * PageUnits /\ x = q * PageUnits
      BY <1>1, <2>1, <2>2, <2>5
    <3>2. OnPage(p, x) /\ OnPage(q, x) /\ p \in Nat
      BY <2>3, <3>1, PageBounds
    <3> QED BY <2>4, <3>2, OnePage
  <2> QED BY <2>5
<1>5. ASSUME NEW u \in O \cup {o}, NEW v \in O \cup {o}, u.addr = v.addr, u.size \in Small <=> v.size \in Small
      PROVE  u = v
  <2>1. CASE u \in O /\ v \in O
    BY <1>5, <2>1 DEF Claims
  <2>2. CASE u = o /\ v \in O
    BY <1>1, <1>4, <1>5, <2>2
  <2>3. CASE v = o /\ u \in O
    BY <1>1, <1>4, <1>5, <2>3
  <2> QED BY <2>1, <2>2, <2>3
<1>6. \A e, c \in B \cup {d} : e.bb = c.bb => e = c
  <2>1. (\A e, c \in B : e.bb = c.bb => e = c) /\ \A e \in B : e.bb # b
    BY DEF Claims
  <2> QED BY <1>1, <2>1
<1>7. \A v \in O \cup {o}, e \in B \cup {d} : v.size \in Small => v.addr - Header # e.bb
  <2>1. /\ \A v \in O, e \in B : v.size \in Small => v.addr - Header # e.bb
        /\ \A v \in O : v.size \in Small => v.addr - Header # b
    BY DEF Claims
  <2> QED BY <1>1, <2>1
<1>8. ASSUME NEW x \in HeldBlocks(s)
      PROVE  \/ \E v \in O \cup {o} : v.size \in Small /\ x = v.addr - Header
             \/ \E e \in B \cup {d} : x = e.bb
  BY <1>1 DEF Claims
<1> QED BY <1>2, <1>3, <1>5, <1>6, <1>7, <1>8 DEF Claims

\* kfree of an object below a page.
LEMMA ClaimsFreed ==
    ASSUME NEW s, NEW O, NEW B, NEW X, Claims(s, O, B, X), NEW o \in O, o.size \in Small,
           NEW b, b = o.addr - Header, NEW t, Gave(s, b, t), X = {}
    PROVE  Claims(t, O \ {o}, B, X)
<1>1. /\ HeldBlocks(t) = HeldBlocks(s) \ {b} /\ \A x \in HeldBlocks(s) \ {b} : t.units[x] = s.units[x]
  BY DEF Gave
<1>2. ASSUME NEW v \in O \ {o}, v.size \in Small
      PROVE  v.addr - Header \in HeldBlocks(t) /\ t.units[v.addr - Header] = v.size + Header
  <2>1. v.addr - Header \in HeldBlocks(s) /\ s.units[v.addr - Header] = v.size + Header
    BY <1>2 DEF Claims
  <2>2. v.addr # o.addr /\ v.addr \in Int /\ o.addr \in Int
    BY <1>2 DEF Claims
  <2>3. v.addr - Header # b
    BY <2>2 DEF Header
  <2> QED BY <1>1, <2>1, <2>3
<1>3. ASSUME NEW d \in B PROVE d.bb \in HeldBlocks(t) /\ t.units[d.bb] = BigUnits
  <2>1. d.bb \in HeldBlocks(s) /\ s.units[d.bb] = BigUnits /\ d.bb # b
    BY DEF Claims
  <2> QED BY <1>1, <2>1
<1>4. ASSUME NEW x \in HeldBlocks(t)
      PROVE  \/ \E v \in O \ {o} : v.size \in Small /\ x = v.addr - Header
             \/ \E d \in B : x = d.bb
  <2>1. x \in HeldBlocks(s) /\ x # b
    BY <1>1
  <2>2. \/ \E v \in O : v.size \in Small /\ x = v.addr - Header
        \/ \E d \in B : x = d.bb
    BY <2>1 DEF Claims
  <2> QED BY <2>1, <2>2
<1> QED BY <1>2, <1>3, <1>4 DEF Claims

\* kfree of an object with a descriptor.
LEMMA ClaimsFreedBig ==
    ASSUME NEW s, NEW O, NEW B, NEW X, Claims(s, O, B, X), X = {}, NEW o \in O, o.size \notin Small,
           NEW d \in B, o.addr = d.page * PageUnits, NEW t, Gave(s, d.bb, t)
    PROVE  Claims(t, O \ {o}, B \ {d}, X)
<1>0. PICK b : b = d.bb
  OBVIOUS
<1>1. /\ HeldBlocks(t) = HeldBlocks(s) \ {b} /\ \A x \in HeldBlocks(s) \ {b} : t.units[x] = s.units[x]
  BY <1>0 DEF Gave
<1>2. ASSUME NEW v \in O \ {o}, v.size \in Small
      PROVE  v.addr - Header \in HeldBlocks(t) /\ t.units[v.addr - Header] = v.size + Header
  <2>1. /\ v.addr - Header \in HeldBlocks(s) /\ s.units[v.addr - Header] = v.size + Header
        /\ v.addr - Header # b
    BY <1>0, <1>2 DEF Claims
  <2> QED BY <1>1, <2>1
<1>3. ASSUME NEW v \in O \ {o}, v.size \notin Small
      PROVE  v.size \in Big /\ \E e \in B \ {d} : v.addr = e.page * PageUnits /\ e.order = find_order(v.size)
  <2>1. PICK e \in B : v.addr = e.page * PageUnits /\ e.order = find_order(v.size) /\ v.size \in Big
    BY <1>3 DEF Claims
  <2>2. v.addr # o.addr
    BY <1>3 DEF Claims
  <2>3. e # d
    BY <2>1, <2>2
  <2> QED BY <2>1, <2>3
<1>4. ASSUME NEW e \in B \ {d} PROVE e.bb \in HeldBlocks(t) /\ t.units[e.bb] = BigUnits
  <2>1. e.bb \in HeldBlocks(s) /\ s.units[e.bb] = BigUnits /\ e.bb # b
    BY <1>0 DEF Claims
  <2> QED BY <1>1, <2>1
<1>5. ASSUME NEW x \in HeldBlocks(t)
      PROVE  \/ \E v \in O \ {o} : v.size \in Small /\ x = v.addr - Header
             \/ \E e \in B \ {d} : x = e.bb
  <2>1. x \in HeldBlocks(s) /\ x # b
    BY <1>1
  <2>2. \/ \E v \in O : v.size \in Small /\ x = v.addr - Header
        \/ \E e \in B : x = e.bb
    BY <2>1 DEF Claims
  <2> QED BY <1>0, <2>1, <2>2
<1> QED BY <1>2, <1>3, <1>4, <1>5 DEF Claims

-----------------------------------------------------------------------------
(* The heap, step by step *)

LEMMA CallFacts ==
    /\ CallBlocks(NoCall) = {}
    /\ \A z : CallBlocks([size |-> z, bb |-> NULL]) = {}
    /\ \A z, b : b # NULL => CallBlocks([size |-> z, bb |-> b]) = {b}
<1>1. ASSUME NEW z, NEW b, NEW c, c = [size |-> z, bb |-> b] PROVE c.bb = b /\ c # NoCall
  <2>1. DOMAIN c = {"size", "bb"} /\ DOMAIN NoCall = {"size"}
    BY <1>1 DEF NoCall
  <2> QED BY <1>1, <2>1
<1>2. ASSUME NEW z, NEW b, NEW c, c = [size |-> z, bb |-> b]
      PROVE  CallBlocks(c) = IF b = NULL THEN {} ELSE {b}
  BY <1>1, <1>2 DEF CallBlocks
<1>3. CallBlocks(NoCall) = {}
  BY DEF CallBlocks
<1> QED BY <1>2, <1>3

\* A size goes to the ring or to the page allocator.
LEMMA Sizes ==
    ASSUME NEW z \in Small \cup Big
    PROVE  /\ z \in Small <=> z < PageUnits - Header
           /\ z \in Small => z \in Nat \ {0}
           /\ z \in Nat /\ (z \in Big <=> z \notin Small)
<1>1. z \in Small => z \in Nat \ {0} /\ z + 2 < PageUnits
  BY HeapAssumption
<1>2. z \in Big => z \in Nat /\ z >= PageUnits
  BY HeapAssumption
<1> QED BY <1>1, <1>2, HeapAssumption DEF Header

LEMMA SlobInit == Init => SlobInv
<1> SUFFICES ASSUME Init PROVE SlobInv
  OBVIOUS
<1>1. PICK f, nx : f = [b \in {arena} |-> 1] /\ nx = [b \in {arena} |-> arena]
  OBVIOUS
<1>2. slob = [units |-> f, next |-> nx, slobfree |-> arena] /\ slob.units = f /\ slob.next = nx
  BY <1>1 DEF Init
<1>3. DOMAIN f = {arena} /\ f[arena] = 1 /\ DOMAIN nx = {arena} /\ nx[arena] = arena /\ arena \in Unit
  BY <1>1 DEF Unit
<1>4. UnitMap(f) /\ Loose(f)
  <2>1. arena + 1 <= MemEnd
    BY MemEndNat DEF arena
  <2>2. f \in [DOMAIN f -> Nat \ {0}]
    BY <1>1
  <2>3. ~(arena < arena)
    BY DEF arena
  <2> QED BY <1>3, <2>1, <2>2, <2>3 DEF UnitMap, Loose
<1>5. RingOK({arena}, nx, f)
  <2>1. nx \in [{arena} -> {arena}]
    BY <1>1
  <2>2. ~(arena < arena) /\ arena <= arena
    BY DEF arena
  <2>3. Succ({arena}, arena, arena)
    BY <2>2 DEF Succ
  <2> QED BY <1>3, <2>1, <2>2, <2>3 DEF RingOK, Cyclic
<1>6. SlobOK(slob)
  BY <1>2, <1>3, <1>4, <1>5 DEF SlobOK
<1>7. HeapPages(Cover(pm.property), owned, bigblocks) = {}
  BY FirstPm DEF Init, HeapPages
<1>8. UnitsExact(f, {})
  <2>1. ASSUME NEW x \in Int, x >= 0, InUnits(f, x) PROVE FALSE
    BY <1>3, <2>1 DEF InUnits, arena
  <2> QED BY <2>1 DEF UnitsExact
<1>9. HeldBlocks(slob) = {}
  BY <1>2, <1>3 DEF HeldBlocks
<1>10. Claims(slob, {}, {}, {})
  BY <1>9 DEF Claims
<1> QED BY <1>2, <1>6, <1>7, <1>8, <1>10, CallFacts DEF SlobInv, Init

LEMMA SlobTakesKeeps ==
    ASSUME HeapInv, SlobInv, SlobTakes
    PROVE  SlobInv'
<1>1. /\ call # NoCall /\ call.bb = NULL /\ room(slob, Need) # {}
      /\ pm' = pm /\ bigblocks' = bigblocks /\ owned' = owned
  BY DEF SlobTakes
<1>2. PICK z : z = call.size /\ z \in Small \cup Big /\ call = [size |-> z, bb |-> NULL]
  BY <1>1 DEF HeapInv, CallOK
<1>3. PICK n : n = Need
  OBVIOUS
<1>4. (z \in Small => n = z + Header) /\ (z \notin Small => n = BigUnits) /\ n \in Nat /\ n > 1
  BY <1>2, <1>3, Sizes DEF Need, BigUnits, Header
<1>5. /\ SlobOK(slob) /\ UnitsExact(slob.units, HeapPages(Cover(pm.property), owned, bigblocks))
      /\ Claims(slob, objs, bigblocks, {})
  BY <1>2, CallFacts DEF SlobInv
<1>6. PICK a : a = slob_alloc(slob, n)
  OBVIOUS
<1>7. PICK b, t : b = a.block /\ t = a.slob
  OBVIOUS
<1>8. Took(slob, n, b, t)
  BY <1>1, <1>3, <1>4, <1>5, <1>6, <1>7, SlobAlloc
<1>9. SlobOK(t) /\ UnitsExact(t.units, HeapPages(Cover(pm.property), owned, bigblocks))
  BY <1>5, <1>8, ExactSame DEF Took
<1>10. /\ slob' = t
       /\ \/ /\ z < PageUnits - Header
             /\ objs' = objs \cup {[addr |-> b + Header, size |-> z]} /\ call' = NoCall
          \/ /\ z >= PageUnits - Header
             /\ call' = [call EXCEPT !.bb = b] /\ objs' = objs
  BY <1>2, <1>3, <1>6, <1>7 DEF SlobTakes
<1>11. CASE z \in Small
  <2>1. objs' = objs \cup {[addr |-> b + Header, size |-> z]} /\ call' = NoCall
    BY <1>10, <1>11, Sizes, HeapAssumption DEF Header
  <2>2. PICK o : o = [addr |-> b + Header, size |-> z]
    OBVIOUS
  <2>3. Took(slob, z + Header, b, t)
    BY <1>4, <1>8, <1>11
  <2>4. Claims(t, objs \cup {o}, bigblocks, {})
    BY <1>5, <1>11, <2>2, <2>3, ClaimsSmall
  <2> QED BY <1>1, <1>9, <1>10, <2>1, <2>2, <2>4, CallFacts DEF SlobInv
<1>12. CASE z \notin Small
  <2>1. objs' = objs /\ call' = [call EXCEPT !.bb = b]
    BY <1>2, <1>10, <1>12, Sizes
  <2>2. call' = [size |-> z, bb |-> b]
    BY <1>2, <2>1
  <2>3. b # NULL
    <3>1. b \in Unit
      <4>1. UnitMap(slob.units) /\ b \in DOMAIN slob.units
        BY <1>5, <1>8 DEF Took, SlobOK, RingOK
      <4> QED BY <4>1, UnitFacts
    <3> QED BY <3>1, MemEndNat DEF NULL, arena
  <2>4. CallBlocks(call') = {b}
    BY <2>2, <2>3, CallFacts
  <2>5. Claims(t, objs, bigblocks, {b})
    BY <1>4, <1>5, <1>8, <1>12, ClaimsBlock
  <2> QED BY <1>1, <1>9, <1>10, <2>1, <2>4, <2>5 DEF SlobInv
<1> QED BY <1>11, <1>12

LEMMA SlobGrowsKeeps ==
    ASSUME HeapInv, SlobInv, SlobGrows
    PROVE  SlobInv'
<1>1. PICK r : r = default_alloc_pages(pm, 1)
  OBVIOUS
<1>2. PICK b : b = r.page * PageUnits
  OBVIOUS
<1>3. /\ call # NoCall /\ call.bb = NULL /\ pm' = r.pm /\ bigblocks' = bigblocks /\ objs' = objs /\ owned' = owned
      /\ r.page = NULL => call' = NoCall /\ slob' = slob
      /\ r.page # NULL => slob' = slob_free(set_units(slob, b, PageUnits), b) /\ call' = call
  BY <1>1, <1>2 DEF SlobGrows, alloc_pages
<1>4. PICK z : call = [size |-> z, bb |-> NULL]
  BY <1>3 DEF HeapInv, CallOK
<1>5. CallBlocks(call) = {} /\ CallBlocks(call') = {}
  BY <1>3, <1>4, CallFacts
<1>6. PICK C, G : C = Cover(pm.property) /\ G = HeapPages(C, owned, bigblocks)
  OBVIOUS
<1>7. SlobOK(slob) /\ UnitsExact(slob.units, G) /\ Claims(slob, objs, bigblocks, {}) /\ InUse(C, owned, bigblocks)
  BY <1>5, <1>6 DEF SlobInv, HeapInv
<1>8. CASE r.page = NULL
  <2>1. pm' = pm
    BY <1>1, <1>3, <1>8, AllocStep
  <2> QED BY <1>3, <1>5, <1>6, <1>7, <1>8, <2>1 DEF SlobInv
<1>9. CASE r.page # NULL
  <2>1. PICK p : p = r.page
    OBVIOUS
  <2>2. p \in Nat /\ run(p, 1) \subseteq C /\ Cover(pm'.property) = C \ run(p, 1) /\ C \in SUBSET Page
    BY <1>1, <1>3, <1>6, <1>9, <2>1, AllocStep
  <2>3. run(p, 1) = {p} /\ p \in C \cap Page
    BY <2>2 DEF run
  <2>4. p \notin G /\ HeapPages(C \ {p}, owned, bigblocks) = G \cup {p}
    BY <1>6, <1>7, <2>3, HeapGrows
  <2>5. b \in Nat /\ b = p * PageUnits /\ b + PageUnits <= MemEnd /\ PageUnits \in Nat \ {0} /\ G \in SUBSET Page
    BY <1>2, <1>6, <2>1, <2>3, PageBounds DEF HeapPages
  <2>6. \A x \in Int : b <= x /\ x < b + PageUnits => ~InUnits(slob.units, x)
    BY <1>7, <2>3, <2>4, <2>5, ExactMore
  <2>7. PICK u : u = set_units(slob, b, PageUnits)
    OBVIOUS
  <2>8. Grown(slob, b, PageUnits, u)
    BY <1>7, <2>5, <2>6, <2>7, NewUnits
  <2>9. /\ SlobOK(u) /\ HeldBlocks(u) = HeldBlocks(slob) \cup {b} /\ b \notin HeldBlocks(slob) /\ b \in HeldBlocks(u)
        /\ \A x \in HeldBlocks(slob) : u.units[x] = slob.units[x]
        /\ \A x \in Int : InUnits(u.units, x) <=> InUnits(slob.units, x) \/ (b <= x /\ x < b + PageUnits)
    BY <2>8 DEF Grown
  <2>10. UnitsExact(u.units, G \cup {p})
    BY <1>7, <2>3, <2>4, <2>5, <2>9, ExactMore
  <2>11. PICK t : t = slob_free(u, b) /\ slob' = t
    BY <1>3, <1>9, <2>7
  <2>12. Gave(u, b, t)
    BY <2>9, <2>11, SlobFree
  <2>13. /\ SlobOK(t) /\ HeldBlocks(t) = HeldBlocks(u) \ {b}
         /\ \A x \in HeldBlocks(u) \ {b} : t.units[x] = u.units[x]
         /\ \A x \in Int : InUnits(t.units, x) <=> InUnits(u.units, x)
    BY <2>12 DEF Gave
  <2>14. UnitsExact(t.units, G \cup {p})
    BY <2>10, <2>13, ExactSame
  <2>15. HeldBlocks(t) = HeldBlocks(slob) /\ \A x \in HeldBlocks(slob) : t.units[x] = slob.units[x]
    BY <2>9, <2>13
  <2>16. Claims(t, objs, bigblocks, {})
    BY <1>7, <2>15, ClaimsKept
  <2>17. HeapPages(Cover(pm'.property), owned, bigblocks) = G \cup {p}
    BY <2>2, <2>3, <2>4
  <2> QED BY <1>3, <1>5, <2>11, <2>13, <2>14, <2>16, <2>17 DEF SlobInv
<1> QED BY <1>8, <1>9

LEMMA BigPagesKeeps ==
    ASSUME HeapInv, SlobInv, BigPages
    PROVE  SlobInv'
<1>1. call # NoCall /\ call.bb # NULL /\ owned' = owned /\ call' = NoCall
  BY DEF BigPages
<1>2. PICK z, b : call = [size |-> z, bb |-> b] /\ z = call.size /\ b = call.bb /\ b # NULL /\ z \in Big
  BY <1>1 DEF HeapInv, CallOK
<1>3. PICK o : o = find_order(z)
  OBVIOUS
<1>4. PICK n \in Nat \ {0} : n = Pages(o)
  BY <1>2, <1>3, OrderPages
<1>5. PICK r : r = default_alloc_pages(pm, n)
  OBVIOUS
<1>6. /\ pm' = r.pm
      /\ r.page = NULL => /\ slob' = slob_free(set_units(slob, b, BigUnits), b)
                          /\ bigblocks' = bigblocks /\ objs' = objs
      /\ r.page # NULL => /\ bigblocks' = bigblocks \cup {[bb |-> b, order |-> o, page |-> r.page]}
                          /\ objs' = objs \cup {[addr |-> r.page * PageUnits, size |-> z]}
                          /\ slob' = slob
  BY <1>2, <1>3, <1>4, <1>5 DEF BigPages, alloc_pages
<1>7. PICK C, G : C = Cover(pm.property) /\ G = HeapPages(C, owned, bigblocks)
  OBVIOUS
<1>8. SlobOK(slob) /\ UnitsExact(slob.units, G) /\ Claims(slob, objs, bigblocks, {b}) /\ InUse(C, owned, bigblocks)
  BY <1>2, <1>7, CallFacts DEF SlobInv, HeapInv
<1>9. CASE r.page = NULL
  <2>1. pm' = pm
    BY <1>4, <1>5, <1>6, <1>9, AllocStep
  <2>2. b \in HeldBlocks(slob) /\ slob.units[b] = BigUnits
    BY <1>8 DEF Claims
  <2>3. PICK t : t = slob_free(slob, b) /\ slob' = t
    BY <1>6, <1>8, <1>9, <2>2, SameUnits
  <2>4. Gave(slob, b, t)
    BY <1>8, <2>2, <2>3, SlobFree
  <2>5. Claims(t, objs, bigblocks, {})
    BY <1>8, <2>4, ClaimsRefused
  <2>6. SlobOK(t) /\ UnitsExact(t.units, G)
    BY <1>8, <2>4, ExactSame DEF Gave
  <2> QED BY <1>1, <1>6, <1>7, <1>9, <2>1, <2>3, <2>5, <2>6, CallFacts DEF SlobInv
<1>10. CASE r.page # NULL
  <2>1. PICK p : p = r.page
    OBVIOUS
  <2>2. p \in Nat /\ run(p, n) \subseteq C /\ Cover(pm'.property) = C \ run(p, n) /\ C \in SUBSET Page
    BY <1>4, <1>5, <1>6, <1>7, <1>10, <2>1, AllocStep
  <2>3. p \in C /\ p \in Page
    BY <2>2 DEF run
  <2>4. PICK d : d = [bb |-> b, order |-> o, page |-> p]
    OBVIOUS
  <2>5. PICK v : v = [addr |-> p * PageUnits, size |-> z]
    OBVIOUS
  <2>6. bigblocks' = bigblocks \cup {d} /\ objs' = objs \cup {v} /\ slob' = slob
    BY <1>6, <1>10, <2>1, <2>4, <2>5
  <2>7. z \notin Small
    BY <1>2, Sizes
  <2>8. Claims(slob, objs \cup {v}, bigblocks \cup {d}, {})
    BY <1>2, <1>3, <1>8, <2>3, <2>4, <2>5, <2>7, ClaimsPages
  <2>9. HeapPages(C \ run(p, n), owned, bigblocks \cup {d}) = G
    <3>1. d.page = p /\ Pages(d.order) = n
      BY <1>4, <2>4
    <3>2. run(d.page, Pages(d.order)) \subseteq C /\ C \ run(p, n) = C \ run(d.page, Pages(d.order))
      BY <2>2, <3>1
    <3> QED BY <1>7, <3>2, HeapSameBig
  <2> QED BY <1>1, <1>8, <2>2, <2>6, <2>8, <2>9, CallFacts DEF SlobInv
<1> QED BY <1>9, <1>10

LEMMA KfreeKeeps ==
    ASSUME HeapInv, SlobInv, NEW o \in objs, Kfree(o)
    PROVE  SlobInv'
<1>1. call = NoCall /\ call' = call /\ owned' = owned /\ objs' = objs \ {o}
  BY DEF Kfree
<1>2. CallBlocks(call) = {} /\ CallBlocks(call') = {}
  BY <1>1, CallFacts
<1>3. PICK C, G : C = Cover(pm.property) /\ G = HeapPages(C, owned, bigblocks)
  OBVIOUS
<1>4. SlobOK(slob) /\ UnitsExact(slob.units, G) /\ Claims(slob, objs, bigblocks, {}) /\ InUse(C, owned, bigblocks)
  BY <1>2, <1>3 DEF SlobInv, HeapInv
<1>5. CASE descriptor(o.addr) = {}
  <2>1. o.size \in Small
    BY <1>3, <1>4, <1>5, Descriptors
  <2>2. PICK b : b = o.addr - Header
    OBVIOUS
  <2>3. PICK t : t = slob_free(slob, b) /\ slob' = t /\ pm' = pm /\ bigblocks' = bigblocks
    BY <1>5, <2>2 DEF Kfree
  <2>4. b \in HeldBlocks(slob)
    BY <1>4, <2>1, <2>2 DEF Claims
  <2>5. Gave(slob, b, t)
    BY <1>4, <2>3, <2>4, SlobFree
  <2>6. PICK X : X = {}
    OBVIOUS
  <2>7. Claims(t, objs \ {o}, bigblocks, X)
    BY <1>4, <2>1, <2>2, <2>5, <2>6, ClaimsFreed
  <2>8. SlobOK(t) /\ UnitsExact(t.units, G)
    BY <1>4, <2>5, ExactSame DEF Gave
  <2> QED BY <1>1, <1>2, <1>3, <2>3, <2>6, <2>7, <2>8 DEF SlobInv
<1>6. CASE descriptor(o.addr) # {}
  <2>1. PICK d : d = CHOOSE e \in descriptor(o.addr) : TRUE
    OBVIOUS
  <2>2. d \in descriptor(o.addr)
    BY <1>6, <2>1
  <2>3. d \in bigblocks /\ o.addr = d.page * PageUnits
    BY <2>2 DEF descriptor
  <2>4. o.size \notin Small
    BY <1>3, <1>4, <1>6, Descriptors
  <2>5. /\ pm' = default_free_pages(pm, d.page, Pages(d.order)) /\ bigblocks' = bigblocks \ {d}
        /\ slob' = slob_free(set_units(slob, d.bb, BigUnits), d.bb)
    BY <1>6, <2>1 DEF Kfree
  <2>6. d.bb \in HeldBlocks(slob) /\ slob.units[d.bb] = BigUnits
    BY <1>4, <2>3 DEF Claims
  <2>7. PICK t : t = slob_free(slob, d.bb) /\ slob' = t
    BY <1>4, <2>5, <2>6, SameUnits
  <2>8. Gave(slob, d.bb, t)
    BY <1>4, <2>6, <2>7, SlobFree
  <2>9. PICK X : X = {}
    OBVIOUS
  <2>10. Claims(t, objs \ {o}, bigblocks \ {d}, X)
    BY <1>4, <2>3, <2>4, <2>8, <2>9, ClaimsFreedBig
  <2>11. SlobOK(t) /\ UnitsExact(t.units, G)
    BY <1>4, <2>8, ExactSame DEF Gave
  <2>12. Cover(pm'.property) = C \cup run(d.page, Pages(d.order))
    BY <1>3, <1>4, <2>3, <2>5, FreeBusy DEF HeapInv, InUse
  <2>13. HeapPages(C \cup run(d.page, Pages(d.order)), owned, bigblocks \ {d}) = G
    BY <1>3, <2>3, HeapSameBack
  <2> QED BY <1>1, <1>2, <2>5, <2>7, <2>9, <2>10, <2>11, <2>12, <2>13 DEF SlobInv
<1> QED BY <1>5, <1>6

\* Steps of the other users of the page allocator leave the heap alone.
LEMMA SlobAlone ==
    ASSUME SlobInv, slob' = slob, bigblocks' = bigblocks, objs' = objs, CallBlocks(call') = CallBlocks(call),
           HeapPages(Cover(pm'.property), owned', bigblocks) = HeapPages(Cover(pm.property), owned, bigblocks)
    PROVE  SlobInv'
BY DEF SlobInv

LEMMA SlobStep == HeapInv /\ SlobInv /\ [Next]_vars => SlobInv'
<1> SUFFICES ASSUME HeapInv, SlobInv, [Next]_vars PROVE SlobInv'
  OBVIOUS
<1>1. ASSUME NEW s \in Small \cup Big, Kmalloc(s) PROVE SlobInv'
  <2>1. /\ call = NoCall /\ call' = [size |-> s, bb |-> NULL]
        /\ pm' = pm /\ slob' = slob /\ bigblocks' = bigblocks /\ objs' = objs /\ owned' = owned
    BY <1>1 DEF Kmalloc
  <2>2. CallBlocks(call') = CallBlocks(call)
    BY <2>1, CallFacts
  <2> QED BY <2>1, <2>2, SlobAlone
<1>2. ASSUME NEW n \in 1 .. MaxBlock, AllocBlock(n) PROVE SlobInv'
  <2>0. n \in Nat \ {0}
    BY HeapAssumption
  <2>1. PICK r : r = default_alloc_pages(pm, n)
    OBVIOUS
  <2>2. /\ pm' = r.pm /\ bigblocks' = bigblocks /\ call' = call /\ slob' = slob /\ objs' = objs
        /\ r.page = NULL => owned' = owned
        /\ r.page # NULL => owned' = owned \cup {[page |-> r.page, n |-> n]}
    BY <1>2, <2>1 DEF AllocBlock, alloc_pages
  <2>3. CASE r.page = NULL
    <3>1. pm' = pm
      BY <2>0, <2>1, <2>2, <2>3, AllocStep
    <3> QED BY <2>2, <2>3, <3>1, SlobAlone
  <2>4. CASE r.page # NULL
    <3>1. PICK w : w = [page |-> r.page, n |-> n]
      OBVIOUS
    <3>2. /\ w.page = r.page /\ w.n = n /\ run(w.page, w.n) \subseteq Cover(pm.property)
          /\ Cover(pm'.property) = Cover(pm.property) \ run(w.page, w.n)
      BY <2>0, <2>1, <2>2, <2>4, <3>1, AllocStep
    <3>3. HeapPages(Cover(pm'.property), owned \cup {w}, bigblocks)
              = HeapPages(Cover(pm.property), owned, bigblocks)
      BY <3>2, HeapSameOwned
    <3> QED BY <2>2, <2>4, <3>1, <3>3, SlobAlone
  <2> QED BY <2>3, <2>4
<1>3. ASSUME NEW w \in owned, FreeBlockOf(w) PROVE SlobInv'
  <2>1. /\ pm' = default_free_pages(pm, w.page, w.n) /\ owned' = owned \ {w}
        /\ bigblocks' = bigblocks /\ call' = call /\ slob' = slob /\ objs' = objs
    BY <1>3 DEF FreeBlockOf
  <2>2. Cover(pm'.property) = Cover(pm.property) \cup run(w.page, w.n)
    BY <2>1, FreeBusy DEF HeapInv, InUse
  <2>3. HeapPages(Cover(pm'.property), owned \ {w}, bigblocks)
            = HeapPages(Cover(pm.property), owned, bigblocks)
    BY <2>2, HeapSameBack
  <2> QED BY <2>1, <2>3, SlobAlone
<1>4. CASE SwapInit
  BY <1>4, SlobAlone DEF SwapInit
<1>5. CASE UNCHANGED vars
  BY <1>5, SlobAlone DEF vars
<1> QED BY <1>1, <1>2, <1>3, <1>4, <1>5, SlobTakesKeeps, SlobGrowsKeeps, BigPagesKeeps, KfreeKeeps DEF Next

\* The ring, the pages it covers and the claims on its blocks are consistent after
\* every call of kmalloc, kfree, alloc_pages and free_pages.
THEOREM HeapStructure == Spec => []SlobInv
<1> QED BY SlobInit, SlobStep, HeapInvariant, PTL DEF Spec

\* The walk from slobfree meets the blocks in address order, wraps once, and no two of
\* the blocks it meets touch.
THEOREM RingSorted == Spec => []RingExact
<1>1. ASSUME SlobInv PROVE RingExact
  <2>1. PICK D, nx, f : D = DOMAIN slob.next /\ nx = slob.next /\ f = slob.units
    OBVIOUS
  <2>2. Cyclic(D, nx) /\ slob.slobfree \in D /\ RingOK(D, nx, f) /\ D \in SUBSET Unit /\ D \in SUBSET Int /\ D # {}
    BY <1>1, <2>1, UnitInt DEF SlobInv, SlobOK, RingOK, Cyclic
  <2>3. PICK len : Walk(slob, ring(slob), len)
    BY <2>1, <2>2, RingWalk
  <2>4. PICK r : r = ring(slob)
    OBVIOUS
  <2>5. /\ len \in Nat \ {0} /\ r \in [0 .. len -> D] /\ DOMAIN r = 0 .. len /\ r[0] = r[len]
        /\ \A k \in 1 .. len : r[k] = nx[r[k - 1]]
    BY <2>1, <2>3, <2>4 DEF Walk
  <2>6. PICK W : W = {k \in DOMAIN r \ {0} : r[k] <= r[k - 1]}
    OBVIOUS
  <2>7. PICK m \in D : \A x \in D : x <= m
    BY <2>2, Greatest
  <2>8. PICK i \in 0 .. (len - 1) : r[i] = m
    BY <2>1, <2>2, <2>3, <2>4, WalkAll
  \* The walk wraps where it leaves the last block, ...
  <2>9. ASSUME NEW k \in 1 .. len
        PROVE  /\ r[k] <= r[k - 1] <=> r[k - 1] = m
               /\ r[k] > r[k - 1] => r[k - 1] + f[r[k - 1]] < r[k]
    <3>1. PICK x, y : x = r[k - 1] /\ y = r[k] /\ x \in D /\ y \in D /\ x \in Int /\ y \in Int /\ y = nx[x]
      <4>1. k - 1 \in 0 .. len /\ k \in 0 .. len /\ k \in 1 .. len
        BY <2>5
      <4>2. r[k - 1] \in D /\ r[k] \in D /\ r[k] = nx[r[k - 1]]
        BY <2>5, <4>1
      <4> QED BY <2>2, <4>2
    <3>2. Succ(D, x, y)
      BY <2>2, <3>1 DEF Cyclic
    <3>3. y <= x => m <= x
      BY <3>2 DEF Succ
    <3>4. y > x => x + f[x] < y
      BY <2>2, <3>1 DEF RingOK
    <3>5. m \in Int /\ x <= m /\ y <= m
      BY <2>2, <2>7, <3>1
    <3> QED BY <3>1, <3>3, <3>4, <3>5
  \* ... and it leaves every block once.
  <2>10. W = {i + 1}
    <3>1. i + 1 \in 1 .. len /\ (i + 1) - 1 = i
      BY <2>5
    <3>2. i + 1 \in W
      BY <2>5, <2>6, <2>8, <2>9, <3>1
    <3>3. ASSUME NEW k \in W PROVE k = i + 1
      <4>1. k \in 1 .. len /\ k - 1 \in 0 .. (len - 1) /\ r[k - 1] = r[i]
        BY <2>5, <2>6, <2>8, <2>9
      <4>2. k - 1 = i
        BY <2>1, <2>2, <2>3, <2>4, <4>1, WalkOnce
      <4> QED BY <4>1, <4>2
    <3> QED BY <3>2, <3>3
  <2>11. Cardinality(W) = 1
    BY <2>10, FS_Singleton
  <2>12. ASSUME NEW k \in DOMAIN r \ ({0} \cup W) PROVE r[k - 1] + f[r[k - 1]] < r[k]
    <3>1. k \in 1 .. len /\ ~(r[k] <= r[k - 1]) /\ k - 1 \in 0 .. len
      BY <2>5, <2>6
    <3>2. r[k] \in Int /\ r[k - 1] \in Int
      BY <2>2, <2>5, <3>1
    <3> QED BY <2>9, <3>1, <3>2
  <2> QED BY <2>1, <2>4, <2>6, <2>11, <2>12 DEF RingExact
<1> QED BY <1>1, HeapStructure, PTL

-----------------------------------------------------------------------------
(* Every unit of memory, and who believes to own it *)

LEMMA InSpan ==
    ASSUME NEW b \in Int, NEW n \in Int, NEW u
    PROVE  u \in span(b, n) <=> u \in Int /\ b <= u /\ u < b + n
BY DEF span

\* The units of a run of pages.
LEMMA RunSpan ==
    ASSUME NEW p \in Nat, NEW n \in Nat \ {0}, p + n <= NPages, NEW u
    PROVE  /\ u \in span(p * PageUnits, n * PageUnits) <=> u \in Int /\ \E q \in run(p, n) : OnPage(q, u)
           /\ run(p, n) \in SUBSET Page
<1>1. PageUnits \in Nat /\ PageUnits > 0 /\ NPages \in Nat
  BY HeapAssumption, NPagesAssumption
<1>2. PICK a \in Int, c \in Int : a = p * PageUnits /\ c = n * PageUnits
  BY <1>1
<1>3. u \in span(a, c) <=> u \in Int /\ a <= u /\ u < a + c
  BY InSpan
<1>4. \A q \in run(p, n) : q \in Nat /\ p <= q /\ q < p + n /\ q \in Page
  BY <1>1 DEF run, Page
<1>5. (p + n) * PageUnits = a + c /\ a >= 0
  BY <1>1, <1>2
<1>6. ASSUME NEW q \in run(p, n), OnPage(q, u), u \in Int PROVE a <= u /\ u < a + c
  <2>1. p * PageUnits <= q * PageUnits
    BY <1>1, <1>4
  <2>2. (q + 1) * PageUnits <= (p + n) * PageUnits
    BY <1>1, <1>4
  <2>3. (q + 1) * PageUnits = q * PageUnits + PageUnits /\ q * PageUnits \in Int
    BY <1>1, <1>4
  <2>4. q * PageUnits <= u /\ u < q * PageUnits + PageUnits
    BY <1>6 DEF OnPage
  <2> QED BY <1>1, <1>2, <1>5, <1>6, <2>1, <2>2, <2>3, <2>4
<1>7. ASSUME u \in Int, a <= u, u < a + c PROVE \E q \in run(p, n) : OnPage(q, u)
  <2>1. (p + n) * PageUnits <= NPages * PageUnits
    BY <1>1
  <2>2. u \in 0 .. MemEnd - 1
    BY <1>2, <1>5, <1>7, <2>1, MemEndNat DEF MemEnd
  <2>3. PICK q \in Page : OnPage(q, u)
    BY <2>2, SomePage
  <2>4. q \in Nat /\ q * PageUnits \in Nat /\ q * PageUnits <= u /\ u < q * PageUnits + PageUnits
    BY <2>3, PageBounds DEF OnPage
  <2>5. ~(q < p)
    <3> SUFFICES ASSUME q < p PROVE FALSE
      OBVIOUS
    <3>1. (q + 1) * PageUnits <= p * PageUnits
      BY <1>1, <2>4
    <3>2. (q + 1) * PageUnits = q * PageUnits + PageUnits
      BY <1>1, <2>4
    <3> QED BY <1>1, <1>2, <1>7, <2>4, <3>1, <3>2
  <2>6. ~(q >= p + n)
    <3> SUFFICES ASSUME q >= p + n PROVE FALSE
      OBVIOUS
    <3>1. (p + n) * PageUnits <= q * PageUnits
      BY <1>1, <2>4
    <3> QED BY <1>1, <1>2, <1>5, <1>7, <2>4, <3>1
  <2> QED BY <2>3, <2>4, <2>5, <2>6 DEF run
<1> QED BY <1>2, <1>3, <1>4, <1>6, <1>7

\* A stretch of whole pages, with one of its pages.
PageOwner(C, W, B, x, q) ==
    /\ q \in Page
    /\ \/ q \in C /\ x = <<"free", q * PageUnits, PageUnits>>
       \/ \E w \in W : q \in run(w.page, w.n) /\ x = <<"owned", w.page * PageUnits, w.n * PageUnits>>
       \/ \E d \in B : /\ q \in run(d.page, Pages(d.order))
                       /\ x = <<"pages", d.page * PageUnits, Pages(d.order) * PageUnits>>

\* A stretch that is a block of the heap.
BlockOwner(s, O, B, X, x, b) ==
    /\ b \in DOMAIN s.units /\ b # arena
    /\ \/ b \in DOMAIN s.next /\ x = <<"ring", b, s.units[b]>>
       \/ \E o \in O : o.size \in Small /\ b = o.addr - Header /\ x = <<"object", b, s.units[b]>>
       \/ \E d \in B : b = d.bb /\ x = <<"bb", b, BigUnits>>
       \/ b \in X /\ x = <<"bb", b, BigUnits>>

LEMMA RingBlocks ==
    ASSUME SlobOK(slob)
    PROVE  Free = DOMAIN slob.next
<1>1. PICK D : D = DOMAIN slob.next
  OBVIOUS
<1>2. Cyclic(DOMAIN slob.next, slob.next) /\ slob.slobfree \in DOMAIN slob.next
  BY DEF SlobOK, RingOK
<1>3. PICK len : Walk(slob, ring(slob), len)
  BY <1>2, RingWalk
<1>4. PICK r : r = ring(slob)
  OBVIOUS
<1>5. r \in [0 .. len -> D] /\ len \in Nat \ {0}
  BY <1>1, <1>3, <1>4 DEF Walk
<1>6. ASSUME NEW y \in D PROVE \E k \in DOMAIN r : r[k] = y
  <2>1. PICK k \in 0 .. (len - 1) : r[k] = y
    BY <1>1, <1>2, <1>3, <1>4, WalkAll
  <2>2. k \in DOMAIN r
    BY <1>5, <2>1
  <2> QED BY <2>1, <2>2
<1> QED BY <1>1, <1>4, <1>5, <1>6 DEF Free

\* The stretches are those of the pages and those of the blocks.
LEMMA StretchCases ==
    ASSUME HeapInv, SlobInv, NEW C, C = Cover(pm.property), NEW X, X = CallBlocks(call), NEW x
    PROVE  x \in Stretches <=> \/ \E q : PageOwner(C, owned, bigblocks, x, q)
                               \/ \E b : BlockOwner(slob, objs, bigblocks, X, x, b)
<1>1. /\ SlobOK(slob) /\ UnitsExact(slob.units, HeapPages(C, owned, bigblocks)) /\ InUse(C, owned, bigblocks)
      /\ Claims(slob, objs, bigblocks, X) /\ FreePages(pm) = C /\ C \in SUBSET Page
  BY FreeIsCover, CoverFinite DEF SlobInv, HeapInv, PmOK
<1>2. PICK F : F = Free \ {arena} /\ F = DOMAIN slob.next \ {arena} /\ DOMAIN slob.next \in SUBSET DOMAIN slob.units
  BY <1>1, RingBlocks DEF SlobOK, RingOK
<1>3. PICK S : S = {o \in objs : descriptor(o.addr) = {}}
  OBVIOUS
<1>4. \A o : o \in S <=> o \in objs /\ o.size \in Small
  BY <1>1, <1>3, Descriptors
<1>5. PICK K : K = IF call # NoCall /\ call.bb # NULL THEN {<<"bb", call.bb, BigUnits>>} ELSE {}
  OBVIOUS
<1>6. K = {<<"bb", b, BigUnits>> : b \in X}
  BY <1>5 DEF CallBlocks
<1>7. x \in Stretches <=>
          \/ \E p \in C : x = <<"free", p * PageUnits, PageUnits>>
          \/ \E w \in owned : x = <<"owned", w.page * PageUnits, w.n * PageUnits>>
          \/ \E b \in F : x = <<"ring", b, slob.units[b]>>
          \/ \E o \in S : x = <<"object", o.addr - Header, slob.units[o.addr - Header]>>
          \/ \E d \in bigblocks : x = <<"pages", d.page * PageUnits, Pages(d.order) * PageUnits>>
          \/ \E d \in bigblocks : x = <<"bb", d.bb, BigUnits>>
          \/ x \in K
  BY <1>1, <1>2, <1>3, <1>5 DEF Stretches
<1>8. (\E p \in C : x = <<"free", p * PageUnits, PageUnits>>)
          => \E q : PageOwner(C, owned, bigblocks, x, q)
  BY <1>1 DEF PageOwner
<1>9. ASSUME NEW w \in owned, x = <<"owned", w.page * PageUnits, w.n * PageUnits>>
      PROVE  \E q : PageOwner(C, owned, bigblocks, x, q)
  <2>1. w.page \in run(w.page, w.n) /\ w.page \in Page
    BY <1>1, NPagesAssumption DEF InUse, Busy, run, Page
  <2> QED BY <1>9, <2>1 DEF PageOwner
<1>10. ASSUME NEW d \in bigblocks, x = <<"pages", d.page * PageUnits, Pages(d.order) * PageUnits>>
       PROVE  \E q : PageOwner(C, owned, bigblocks, x, q)
  <2>1. d.page \in run(d.page, Pages(d.order)) /\ d.page \in Page
    BY <1>1, NPagesAssumption DEF InUse, Busy, run, Page
  <2> QED BY <1>10, <2>1 DEF PageOwner
<1>11. ASSUME NEW b \in HeldBlocks(slob) PROVE b \in DOMAIN slob.units /\ b # arena
  BY <1>1 DEF HeldBlocks, SlobOK
<1>12. (\E b \in F : x = <<"ring", b, slob.units[b]>>)
           => \E b : BlockOwner(slob, objs, bigblocks, X, x, b)
  BY <1>2 DEF BlockOwner
<1>13. ASSUME NEW o \in S, x = <<"object", o.addr - Header, slob.units[o.addr - Header]>>
       PROVE  \E b : BlockOwner(slob, objs, bigblocks, X, x, b)
  <2>1. PICK b : b = o.addr - Header
    OBVIOUS
  <2>2. b \in HeldBlocks(slob) /\ o \in objs /\ o.size \in Small
    BY <1>1, <1>4, <2>1 DEF Claims
  <2> QED BY <1>11, <1>13, <2>1, <2>2 DEF BlockOwner
<1>14. ASSUME NEW d \in bigblocks, x = <<"bb", d.bb, BigUnits>>
       PROVE  \E b : BlockOwner(slob, objs, bigblocks, X, x, b)
  <2>1. d.bb \in HeldBlocks(slob)
    BY <1>1 DEF Claims
  <2> QED BY <1>11, <1>14, <2>1 DEF BlockOwner
<1>15. ASSUME x \in K PROVE \E b : BlockOwner(slob, objs, bigblocks, X, x, b)
  <2>1. PICK b \in X : x = <<"bb", b, BigUnits>>
    BY <1>6, <1>15
  <2>2. b \in HeldBlocks(slob)
    BY <1>1 DEF Claims
  <2> QED BY <1>11, <2>1, <2>2 DEF BlockOwner
<1>16. ASSUME NEW q, PageOwner(C, owned, bigblocks, x, q) PROVE x \in Stretches
  BY <1>7, <1>16 DEF PageOwner
<1>17. ASSUME NEW b, BlockOwner(slob, objs, bigblocks, X, x, b) PROVE x \in Stretches
  BY <1>2, <1>4, <1>6, <1>7, <1>17 DEF BlockOwner
<1> QED BY <1>7, <1>8, <1>9, <1>10, <1>12, <1>13, <1>14, <1>15, <1>16, <1>17

\* A request of one or two pages gets them.
LEMMA OrderFits ==
    ASSUME NEW size \in Nat, size <= 2 * PageUnits
    PROVE  size <= Pages(find_order(size)) * PageUnits
<1>1. PICK k : k = find_order(size) /\ k \in Nat /\ Halved(size, k)
  BY OrderNat
<1>2. PICK h : /\ \A i \in 0 .. size : h[i] = IF i = 0 THEN size ELSE h[i - 1] \div 2
               /\ k \in 0 .. size /\ h[k] <= PageUnits /\ \A j \in 0 .. k - 1 : h[j] > PageUnits
  BY <1>1 DEF Halved
<1>3. PICK g, n : /\ n = Pages(k) /\ g[k] = n
                  /\ \A i \in 0 .. k : g[i] = IF i = 0 THEN 1 ELSE 2 * g[i - 1]
  BY <1>1, PagesNat DEF Doubled
<1>4. PageUnits \in Nat /\ PageUnits > 0 /\ size \in Nat
  BY HeapAssumption
<1>5. h[0] = size /\ g[0] = 1
  <2>1. 0 \in 0 .. size /\ 0 \in 0 .. k
    BY <1>1, <1>4
  <2> QED BY <1>2, <1>3, <2>1
<1>6. CASE size <= PageUnits
  <2>1. k = 0
    <3> SUFFICES ASSUME k # 0 PROVE FALSE
      OBVIOUS
    <3>1. 0 \in 0 .. k - 1
      BY <1>1
    <3>2. size > PageUnits
      BY <1>2, <1>5, <3>1
    <3> QED BY <1>4, <1>6, <3>2
  <2>2. n = 1
    BY <1>3, <1>5, <2>1
  <2> QED BY <1>1, <1>3, <1>4, <1>6, <2>2
<1>7. CASE size > PageUnits
  <2>1. h[1] = size \div 2
    <3>1. 1 \in 0 .. size /\ 1 - 1 = 0
      BY <1>4, <1>7
    <3> QED BY <1>2, <1>5, <3>1
  <2>2. size \div 2 \in Nat /\ size \div 2 <= PageUnits
    BY <1>4
  <2>3. k <= 1
    <3> SUFFICES ASSUME k > 1 PROVE FALSE
      BY <1>1
    <3>1. 1 \in 0 .. k - 1
      BY <1>1
    <3>2. size \div 2 > PageUnits
      BY <1>2, <2>1, <3>1
    <3> QED BY <1>4, <2>2, <3>2
  <2>4. k = 1
    <3>1. k # 0
      BY <1>2, <1>4, <1>5, <1>7
    <3> QED BY <1>1, <2>3, <3>1
  <2>5. g[1] = 2 * g[0]
    <3>1. 1 \in 0 .. k /\ 1 - 1 = 0
      BY <2>4
    <3> QED BY <1>3, <3>1
  <2>6. n = 2
    BY <1>3, <1>5, <2>4, <2>5
  <2> QED BY <1>1, <1>3, <1>4, <2>6
<1> QED BY <1>4, <1>6, <1>7

\* A request of a power of two of pages gets exactly those.
LEMMA OrderExact ==
    ASSUME NEW k \in Nat, NEW size, size = Pages(k) * PageUnits
    PROVE  find_order(size) = k
<1>1. PageUnits \in Nat /\ PageUnits > 0
  BY HeapAssumption
<1>2. PICK g : g[k] = Pages(k) /\ \A i \in 0 .. k : /\ g[i] \in Nat \ {0}
                                                 /\ g[i] = IF i = 0 THEN 1 ELSE 2 * g[i - 1]
  BY PagesNat DEF Doubled
<1>3. size \in Nat /\ size = g[k] * PageUnits
  BY <1>1, <1>2, PagesNat
<1>4. PICK o : o = find_order(size) /\ o \in Nat /\ Halved(size, o)
  BY <1>3, OrderNat
<1>5. PICK h : /\ \A i \in 0 .. size : h[i] = IF i = 0 THEN size ELSE h[i - 1] \div 2
               /\ o \in 0 .. size /\ h[o] <= PageUnits /\ \A j \in 0 .. o - 1 : h[j] > PageUnits
  BY <1>4 DEF Halved
<1>6. ASSUME NEW i \in 0 .. size, i <= k PROVE h[i] = g[k - i] * PageUnits
  <2> DEFINE Off == {j \in 0 .. size : j <= k /\ h[j] # g[k - j] * PageUnits}
  <2> SUFFICES ASSUME Off # {} PROVE FALSE
    BY <1>6
  <2>1. PICK j \in Off : \A m \in Off : j <= m
    <3>1. Off \in SUBSET Nat
      BY <1>3
    <3> HIDE DEF Off
    <3> QED BY <3>1, LeastNumber
  <2>2. j \in 0 .. size /\ j <= k /\ h[j] # g[k - j] * PageUnits
    BY <2>1
  <2>3. j # 0
    <3> SUFFICES ASSUME j = 0 PROVE FALSE
      OBVIOUS
    <3>1. h[0] = size /\ k - 0 = k
      BY <1>3, <1>5
    <3> QED BY <1>3, <2>2, <3>1
  <2>4. j \in Nat /\ j - 1 \in 0 .. size /\ j - 1 <= k /\ k - j \in 0 .. k /\ k - (j - 1) \in 0 .. k
        /\ k - (j - 1) # 0 /\ (k - (j - 1)) - 1 = k - j
    BY <1>3, <2>2, <2>3
  <2>5. j - 1 \notin Off
    <3> HIDE DEF Off
    <3> QED BY <2>1, <2>4
  <2>6. h[j - 1] = g[k - (j - 1)] * PageUnits
    BY <2>4, <2>5
  <2>7. PICK a \in Nat : a = g[k - j]
    BY <1>2, <2>4
  <2>8. g[k - (j - 1)] = 2 * a
    BY <1>2, <2>4, <2>7
  <2>9. h[j] = h[j - 1] \div 2
    BY <1>5, <2>2, <2>3
  <2>10. PICK b \in Nat : b = a * PageUnits
    BY <1>1
  <2>11. (2 * a) * PageUnits = 2 * b
    BY <1>1, <2>10
  <2>12. (2 * b) \div 2 = b
    OBVIOUS
  <2> QED BY <2>2, <2>6, <2>7, <2>8, <2>9, <2>10, <2>11, <2>12
<1>7. ~(o < k)
  <2> SUFFICES ASSUME o < k PROVE FALSE
    OBVIOUS
  <2>1. h[o] = g[k - o] * PageUnits
    BY <1>4, <1>5, <1>6
  <2>2. k - o \in 0 .. k /\ k - o # 0 /\ (k - o) - 1 \in 0 .. k
    BY <1>4
  <2>3. PICK a \in Nat \ {0} : a = g[(k - o) - 1] /\ g[k - o] = 2 * a
    BY <1>2, <2>2
  <2>4. PICK b \in Nat : b = a * PageUnits /\ b >= PageUnits
    BY <1>1
  <2>5. (2 * a) * PageUnits = b + b
    BY <1>1, <2>4
  <2> QED BY <1>1, <1>5, <2>1, <2>3, <2>4, <2>5
<1>8. ~(o > k)
  <2> SUFFICES ASSUME o > k PROVE FALSE
    OBVIOUS
  <2>1. k \in 0 .. size /\ k \in 0 .. o - 1 /\ k <= k /\ k - k = 0 /\ 0 \in 0 .. k
    BY <1>3, <1>4, <1>5
  <2>2. h[k] = g[k - k] * PageUnits
    BY <1>6, <2>1
  <2>3. g[0] = 1
    BY <1>2, <2>1
  <2>4. h[k] > PageUnits
    BY <1>5, <2>1
  <2> QED BY <1>1, <2>1, <2>2, <2>3, <2>4
<1> QED BY <1>4, <1>7, <1>8

\* The sizes that find_order rounds up.
Fits(s) == s <= 2 * PageUnits \/ \E k \in Nat : s = Pages(k) * PageUnits

LEMMA FitsEnough ==
    ASSUME NEW size \in Nat, Fits(size)
    PROVE  size <= Pages(find_order(size)) * PageUnits
<1>1. CASE size <= 2 * PageUnits
  BY <1>1, OrderFits
<1>2. ASSUME NEW k \in Nat, size = Pages(k) * PageUnits PROVE size <= Pages(find_order(size)) * PageUnits
  <2>1. find_order(size) = k
    BY <1>2, OrderExact
  <2> QED BY <1>2, <2>1
<1> QED BY <1>1, <1>2 DEF Fits

\* The pages of a stretch: a run of them, each of which has the same owner.
LEMMA OwnerRun ==
    ASSUME NEW C, C \in SUBSET Page, NEW W, NEW B, InUse(C, W, B), NEW x, NEW q, PageOwner(C, W, B, x, q)
    PROVE  \E a \in Nat, n \in Nat \ {0} :
               /\ a + n <= NPages /\ q \in run(a, n)
               /\ x[2] = a * PageUnits /\ x[3] = n * PageUnits
               /\ \A p \in run(a, n) : PageOwner(C, W, B, x, p)
<1>1. q \in Page /\ q \in Nat /\ q + 1 <= NPages /\ PageUnits \in Nat
  BY HeapAssumption, NPagesAssumption DEF PageOwner, Page
<1>2. CASE q \in C /\ x = <<"free", q * PageUnits, PageUnits>>
  <2>1. \A p \in run(q, 1) : p = q
    BY <1>1 DEF run
  <2>2. q \in run(q, 1) /\ 1 * PageUnits = PageUnits
    BY <1>1 DEF run
  <2> QED BY <1>1, <1>2, <2>1, <2>2
<1>3. ASSUME NEW w \in W, q \in run(w.page, w.n), x = <<"owned", w.page * PageUnits, w.n * PageUnits>>
      PROVE  \E a \in Nat, n \in Nat \ {0} :
               /\ a + n <= NPages /\ q \in run(a, n)
               /\ x[2] = a * PageUnits /\ x[3] = n * PageUnits
               /\ \A p \in run(a, n) : PageOwner(C, W, B, x, p)
  <2>1. w.page \in Nat /\ w.n \in Nat \ {0} /\ w.page + w.n <= NPages
    BY DEF InUse, Busy
  <2>2. ASSUME NEW p \in run(w.page, w.n) PROVE PageOwner(C, W, B, x, p)
    <3>1. p \in Page
      BY <2>1, NPagesAssumption DEF run, Page
    <3> QED BY <1>3, <3>1 DEF PageOwner
  <2> QED BY <1>3, <2>1, <2>2
<1>4. ASSUME NEW d \in B, q \in run(d.page, Pages(d.order)),
             x = <<"pages", d.page * PageUnits, Pages(d.order) * PageUnits>>
      PROVE  \E a \in Nat, n \in Nat \ {0} :
               /\ a + n <= NPages /\ q \in run(a, n)
               /\ x[2] = a * PageUnits /\ x[3] = n * PageUnits
               /\ \A p \in run(a, n) : PageOwner(C, W, B, x, p)
  <2>1. d.page \in Nat /\ Pages(d.order) \in Nat \ {0} /\ d.page + Pages(d.order) <= NPages
    BY DEF InUse, Busy
  <2>2. ASSUME NEW p \in run(d.page, Pages(d.order)) PROVE PageOwner(C, W, B, x, p)
    <3>1. p \in Page
      BY <2>1, NPagesAssumption DEF run, Page
    <3> QED BY <1>4, <3>1 DEF PageOwner
  <2> QED BY <1>4, <2>1, <2>2
<1> QED BY <1>2, <1>3, <1>4 DEF PageOwner

\* The units of a stretch of pages are those of the pages it owns.
LEMMA OwnerSpan ==
    ASSUME NEW C, C \in SUBSET Page, NEW W, NEW B, InUse(C, W, B), NEW x, NEW q, PageOwner(C, W, B, x, q),
           NEW u
    PROVE  /\ u \in span(x[2], x[3]) => u \in Int /\ \E p : OnPage(p, u) /\ PageOwner(C, W, B, x, p)
           /\ u \in Int /\ OnPage(q, u) => u \in span(x[2], x[3])
<1>1. PICK a \in Nat, n \in Nat \ {0} :
               /\ a + n <= NPages /\ q \in run(a, n)
               /\ x[2] = a * PageUnits /\ x[3] = n * PageUnits
               /\ \A p \in run(a, n) : PageOwner(C, W, B, x, p)
  BY OwnerRun
<1>2. u \in span(a * PageUnits, n * PageUnits) <=> u \in Int /\ \E p \in run(a, n) : OnPage(p, u)
  BY <1>1, RunSpan
<1> QED BY <1>1, <1>2

\* A page has one owner.
LEMMA PagesAgree ==
    ASSUME NEW C, NEW W, NEW B, InUse(C, W, B), NEW x, NEW y, NEW q,
           PageOwner(C, W, B, x, q), PageOwner(C, W, B, y, q)
    PROVE  x = y
<1>1. ASSUME NEW w \in W, q \in run(w.page, w.n)
      PROVE  /\ q \notin C /\ \A v \in W : q \in run(v.page, v.n) => v = w
             /\ \A d \in B : q \notin run(d.page, Pages(d.order))
  BY <1>1 DEF InUse, Busy
<1>2. ASSUME NEW d \in B, q \in run(d.page, Pages(d.order))
      PROVE  /\ q \notin C /\ \A e \in B : q \in run(e.page, Pages(e.order)) => e = d
             /\ \A w \in W : q \notin run(w.page, w.n)
  BY <1>2 DEF InUse, Busy
<1>3. CASE q \in C
  BY <1>1, <1>2, <1>3 DEF PageOwner
<1>4. ASSUME NEW w \in W, q \in run(w.page, w.n) PROVE x = y
  <2>1. ASSUME NEW z, PageOwner(C, W, B, z, q)
        PROVE  z = <<"owned", w.page * PageUnits, w.n * PageUnits>>
    BY <1>1, <1>4, <2>1 DEF PageOwner
  <2> QED BY <2>1
<1>5. ASSUME NEW d \in B, q \in run(d.page, Pages(d.order)) PROVE x = y
  <2>1. ASSUME NEW z, PageOwner(C, W, B, z, q)
        PROVE  z = <<"pages", d.page * PageUnits, Pages(d.order) * PageUnits>>
    BY <1>2, <1>5, <2>1 DEF PageOwner
  <2> QED BY <2>1
<1> QED BY <1>3, <1>4, <1>5 DEF PageOwner

\* The units of a block, and its one owner.
LEMMA BlockSpan ==
    ASSUME NEW s, SlobOK(s), NEW O, NEW B, NEW X, Claims(s, O, B, X), NEW x, NEW b,
           BlockOwner(s, O, B, X, x, b), NEW u
    PROVE  /\ b \in Nat /\ s.units[b] \in Nat
           /\ u \in span(x[2], x[3]) <=> u \in Int /\ b <= u /\ u < b + s.units[b]
<1>1. b \in DOMAIN s.units /\ b # arena /\ UnitMap(s.units)
  BY DEF BlockOwner, SlobOK
<1>2. b \in Int /\ s.units[b] \in Nat /\ b >= 0
  BY <1>1, UnitFacts
<1>3. x[2] = b /\ x[3] = s.units[b]
  BY DEF BlockOwner, Claims
<1>4. u \in span(b, s.units[b]) <=> u \in Int /\ b <= u /\ u < b + s.units[b]
  BY <1>2, InSpan
<1> QED BY <1>2, <1>3, <1>4

LEMMA BlocksAgree ==
    ASSUME NEW s, SlobOK(s), NEW O, NEW B, NEW X, Claims(s, O, B, X), NEW x, NEW y, NEW b,
           BlockOwner(s, O, B, X, x, b), BlockOwner(s, O, B, X, y, b)
    PROVE  x = y
<1>1. CASE b \in DOMAIN s.next
  <2>1. /\ \A o \in O : o.size \in Small => b # o.addr - Header
        /\ \A d \in B : b # d.bb
        /\ b \notin X
    BY <1>1 DEF Claims, HeldBlocks
  <2> QED BY <2>1 DEF BlockOwner
<1>2. ASSUME b \notin DOMAIN s.next, NEW o \in O, o.size \in Small, b = o.addr - Header PROVE x = y
  <2>1. b \notin X /\ \A d \in B : b # d.bb
    BY <1>2 DEF Claims
  <2> QED BY <1>2, <2>1 DEF BlockOwner
<1>3. ASSUME b \notin DOMAIN s.next, \A o \in O : o.size \in Small => b # o.addr - Header PROVE x = y
  BY <1>3 DEF BlockOwner
<1> QED BY <1>1, <1>2, <1>3

LEMMA OneBlock ==
    ASSUME NEW s, SlobOK(s), NEW b \in DOMAIN s.units, NEW c \in DOMAIN s.units, NEW u \in Int,
           b <= u, u < b + s.units[b], c <= u, u < c + s.units[c]
    PROVE  b = c
<1>1. UnitMap(s.units) /\ Loose(s.units)
  BY DEF SlobOK
<1>2. b \in Int /\ c \in Int /\ s.units[b] \in Nat /\ s.units[c] \in Nat
  BY <1>1, UnitFacts
<1>3. (b < c => b + s.units[b] <= c) /\ (c < b => c + s.units[c] <= b)
  BY <1>1 DEF Loose
<1> QED BY <1>2, <1>3

\* A unit of an owned page is in no block of the heap.
LEMMA PageNoBlock ==
    ASSUME NEW f, UnitMap(f), NEW C, NEW W, NEW B, UnitsExact(f, HeapPages(C, W, B)), NEW x, NEW q, PageOwner(C, W, B, x, q),
           NEW u \in Int, OnPage(q, u), NEW b \in DOMAIN f, b <= u, u < b + f[b], b \in Nat
    PROVE  FALSE
<1>1. u >= 0 /\ InUnits(f, u)
  BY DEF InUnits
<1>2. PICK p \in HeapPages(C, W, B) : OnPage(p, u)
  BY <1>1 DEF UnitsExact
<1>3. p \in Nat /\ q \in Nat
  BY DEF HeapPages, Page, PageOwner
<1>4. p = q
  BY <1>2, <1>3, OnePage
<1> QED BY <1>2, <1>4 DEF HeapPages, PageOwner

\* No two stretches share a unit.
LEMMA StretchesApart ==
    ASSUME HeapInv, SlobInv, NEW x \in Stretches, NEW y \in Stretches, NEW u,
           u \in span(x[2], x[3]), u \in span(y[2], y[3])
    PROVE  x = y
<1>1. PICK C, X : C = Cover(pm.property) /\ X = CallBlocks(call)
  OBVIOUS
<1>2. /\ SlobOK(slob) /\ UnitMap(slob.units) /\ UnitsExact(slob.units, HeapPages(C, owned, bigblocks))
      /\ InUse(C, owned, bigblocks) /\ Claims(slob, objs, bigblocks, X) /\ C \in SUBSET Page
  BY <1>1, CoverFinite DEF SlobInv, SlobOK, HeapInv, PmOK
<1>3. \A z : z \in Stretches <=> \/ \E q : PageOwner(C, owned, bigblocks, z, q)
                                 \/ \E b : BlockOwner(slob, objs, bigblocks, X, z, b)
  BY <1>1, StretchCases
<1>4. ASSUME NEW z \in Stretches, u \in span(z[2], z[3])
      PROVE  /\ u \in Int
             /\ \/ \E q : OnPage(q, u) /\ PageOwner(C, owned, bigblocks, z, q)
                \/ \E b : /\ b \in Nat /\ b \in DOMAIN slob.units /\ b <= u /\ u < b + slob.units[b]
                          /\ BlockOwner(slob, objs, bigblocks, X, z, b)
  <2>1. ASSUME NEW q, PageOwner(C, owned, bigblocks, z, q)
        PROVE  u \in Int /\ \E p : OnPage(p, u) /\ PageOwner(C, owned, bigblocks, z, p)
    BY <1>2, <1>4, <2>1, OwnerSpan
  <2>2. ASSUME NEW b, BlockOwner(slob, objs, bigblocks, X, z, b)
        PROVE  u \in Int /\ b \in Nat /\ b \in DOMAIN slob.units /\ b <= u /\ u < b + slob.units[b]
    <3>1. b \in DOMAIN slob.units
      BY <2>2 DEF BlockOwner
    <3> QED BY <1>2, <1>4, <2>2, <3>1, BlockSpan
  <2> QED BY <1>3, <2>1, <2>2
<1>5. u \in Int
  BY <1>4
<1>6. ASSUME NEW v, NEW w, NEW q, OnPage(q, u), PageOwner(C, owned, bigblocks, v, q),
             NEW b \in Nat, b \in DOMAIN slob.units, b <= u, u < b + slob.units[b],
             BlockOwner(slob, objs, bigblocks, X, w, b)
      PROVE  FALSE
  BY <1>2, <1>5, <1>6, PageNoBlock
<1>7. ASSUME NEW q, OnPage(q, u), PageOwner(C, owned, bigblocks, x, q),
             NEW p, OnPage(p, u), PageOwner(C, owned, bigblocks, y, p)
      PROVE  x = y
  <2>1. q \in Nat /\ p \in Nat
    BY <1>7 DEF PageOwner, Page
  <2>2. p = q
    BY <1>5, <1>7, <2>1, OnePage
  <2> QED BY <1>2, <1>7, <2>2, PagesAgree
<1>8. ASSUME NEW b \in Nat, b \in DOMAIN slob.units, b <= u, u < b + slob.units[b],
             BlockOwner(slob, objs, bigblocks, X, x, b),
             NEW c \in Nat, c \in DOMAIN slob.units, c <= u, u < c + slob.units[c],
             BlockOwner(slob, objs, bigblocks, X, y, c)
      PROVE  x = y
  <2>1. b = c
    BY <1>2, <1>5, <1>8, OneBlock
  <2> QED BY <1>2, <1>8, <2>1, BlocksAgree
<1>9. /\ \/ \E q : OnPage(q, u) /\ PageOwner(C, owned, bigblocks, x, q)
         \/ \E b : /\ b \in Nat /\ b \in DOMAIN slob.units /\ b <= u /\ u < b + slob.units[b]
                   /\ BlockOwner(slob, objs, bigblocks, X, x, b)
      /\ \/ \E q : OnPage(q, u) /\ PageOwner(C, owned, bigblocks, y, q)
         \/ \E b : /\ b \in Nat /\ b \in DOMAIN slob.units /\ b <= u /\ u < b + slob.units[b]
                   /\ BlockOwner(slob, objs, bigblocks, X, y, b)
  BY <1>4
<1> QED BY <1>6, <1>7, <1>8, <1>9

\* The stretches are all of memory.
LEMMA StretchesAll ==
    ASSUME HeapInv, SlobInv, NEW u
    PROVE  u \in 0 .. MemEnd - 1 <=> \E x \in Stretches : u \in span(x[2], x[3])
<1>1. PICK C, X : C = Cover(pm.property) /\ X = CallBlocks(call)
  OBVIOUS
<1>2. /\ SlobOK(slob) /\ UnitMap(slob.units) /\ UnitsExact(slob.units, HeapPages(C, owned, bigblocks))
      /\ InUse(C, owned, bigblocks) /\ Claims(slob, objs, bigblocks, X) /\ C \in SUBSET Page
  BY <1>1, CoverFinite DEF SlobInv, SlobOK, HeapInv, PmOK
<1>3. \A z : z \in Stretches <=> \/ \E q : PageOwner(C, owned, bigblocks, z, q)
                                 \/ \E b : BlockOwner(slob, objs, bigblocks, X, z, b)
  BY <1>1, StretchCases
<1>4. ASSUME NEW x \in Stretches, u \in span(x[2], x[3]) PROVE u \in 0 .. MemEnd - 1
  <2>1. ASSUME NEW q, PageOwner(C, owned, bigblocks, x, q) PROVE u \in 0 .. MemEnd - 1
    <3>1. PICK p : u \in Int /\ OnPage(p, u) /\ PageOwner(C, owned, bigblocks, x, p)
      BY <1>2, <1>4, <2>1, OwnerSpan
    <3>2. p \in Page
      BY <3>1 DEF PageOwner
    <3>3. p * PageUnits \in Nat /\ p * PageUnits + PageUnits <= MemEnd /\ PageUnits \in Nat
      BY <3>2, PageBounds
    <3> QED BY <3>1, <3>3, MemEndNat DEF OnPage
  <2>2. ASSUME NEW b, BlockOwner(slob, objs, bigblocks, X, x, b) PROVE u \in 0 .. MemEnd - 1
    <3>1. b \in Nat /\ slob.units[b] \in Nat /\ u \in Int /\ b <= u /\ u < b + slob.units[b]
      BY <1>2, <1>4, <2>2, BlockSpan
    <3>2. b \in DOMAIN slob.units
      BY <2>2 DEF BlockOwner
    <3>3. b + slob.units[b] <= MemEnd /\ MemEnd \in Nat
      BY <1>2, <3>2, UnitFacts, MemEndNat
    <3> QED BY <3>1, <3>3
  <2> QED BY <1>3, <2>1, <2>2
<1>5. ASSUME u \in 0 .. MemEnd - 1 PROVE \E x \in Stretches : u \in span(x[2], x[3])
  <2>1. PICK p \in Page : OnPage(p, u)
    BY <1>5, SomePage
  <2>2. u \in Int /\ u >= 0
    BY <1>5, MemEndNat
  <2>3. ASSUME NEW x, PageOwner(C, owned, bigblocks, x, p)
        PROVE  x \in Stretches /\ u \in span(x[2], x[3])
    <3>1. x \in Stretches
      BY <1>3, <2>3
    <3>2. u \in span(x[2], x[3])
      BY <1>2, <2>1, <2>2, <2>3, OwnerSpan
    <3> QED BY <3>1, <3>2
  <2>4. CASE p \in C
    <3>1. PageOwner(C, owned, bigblocks, <<"free", p * PageUnits, PageUnits>>, p)
      BY <2>4 DEF PageOwner
    <3> QED BY <2>3, <3>1
  <2>5. ASSUME NEW w \in owned, p \in run(w.page, w.n) PROVE \E x \in Stretches : u \in span(x[2], x[3])
    <3>1. PageOwner(C, owned, bigblocks, <<"owned", w.page * PageUnits, w.n * PageUnits>>, p)
      BY <2>5 DEF PageOwner
    <3> QED BY <2>3, <3>1
  <2>6. ASSUME NEW d \in bigblocks, p \in run(d.page, Pages(d.order))
        PROVE  \E x \in Stretches : u \in span(x[2], x[3])
    <3>1. PageOwner(C, owned, bigblocks, <<"pages", d.page * PageUnits, Pages(d.order) * PageUnits>>, p)
      BY <2>6 DEF PageOwner
    <3> QED BY <2>3, <3>1
  <2>7. ASSUME p \in HeapPages(C, owned, bigblocks) PROVE \E x \in Stretches : u \in span(x[2], x[3])
    <3>1. PICK b \in DOMAIN slob.units : b <= u /\ u < b + slob.units[b]
      BY <1>2, <2>1, <2>2, <2>7 DEF UnitsExact, InUnits
    <3>2. b # arena
      <4> SUFFICES ASSUME b = arena PROVE FALSE
        OBVIOUS
      <4>1. slob.units[b] = 1 /\ b = -2
        BY <1>2 DEF SlobOK, arena
      <4> QED BY <2>2, <3>1, <4>1
    <3>3. ASSUME NEW x, BlockOwner(slob, objs, bigblocks, X, x, b)
          PROVE  x \in Stretches /\ u \in span(x[2], x[3])
      <4>1. u \in span(x[2], x[3])
        BY <1>2, <2>2, <3>1, <3>3, BlockSpan
      <4> QED BY <1>3, <3>3, <4>1
    <3>4. CASE b \in DOMAIN slob.next
      <4>1. BlockOwner(slob, objs, bigblocks, X, <<"ring", b, slob.units[b]>>, b)
        BY <3>2, <3>4 DEF BlockOwner
      <4> QED BY <3>3, <4>1
    <3>5. CASE b \in HeldBlocks(slob) /\ b \notin X
      <4>1. \/ \E o \in objs : o.size \in Small /\ b = o.addr - Header
            \/ \E d \in bigblocks : b = d.bb
        BY <1>2, <3>5 DEF Claims
      <4>2. \/ BlockOwner(slob, objs, bigblocks, X, <<"object", b, slob.units[b]>>, b)
            \/ BlockOwner(slob, objs, bigblocks, X, <<"bb", b, BigUnits>>, b)
        BY <3>2, <4>1 DEF BlockOwner
      <4> QED BY <3>3, <4>2
    <3>6. CASE b \in X
      <4>1. BlockOwner(slob, objs, bigblocks, X, <<"bb", b, BigUnits>>, b)
        BY <3>2, <3>6 DEF BlockOwner
      <4> QED BY <3>3, <4>1
    <3> QED BY <3>4, <3>5, <3>6 DEF HeldBlocks
  <2> QED BY <2>1, <2>3, <2>4, <2>5, <2>6, <2>7, <1>3 DEF HeapPages, PageOwner
<1> QED BY <1>4, <1>5

\* Every object has the room that was asked for.
LEMMA ObjectsFit ==
    ASSUME HeapInv, SlobInv, \A s \in Big : Fits(s), NEW o \in objs
    PROVE  \/ descriptor(o.addr) # {} /\ \A d \in descriptor(o.addr) : o.size <= Pages(d.order) * PageUnits
           \/ slob.units[o.addr - Header] >= o.size + Header
<1>1. PICK C, X : C = Cover(pm.property) /\ X = CallBlocks(call)
  OBVIOUS
<1>2. /\ SlobOK(slob) /\ UnitsExact(slob.units, HeapPages(C, owned, bigblocks))
      /\ InUse(C, owned, bigblocks) /\ Claims(slob, objs, bigblocks, X)
  BY <1>1 DEF SlobInv, HeapInv
<1>3. /\ o.size \in Small <=> descriptor(o.addr) = {}
      /\ \A d \in bigblocks : o.size \notin Small => (d \in descriptor(o.addr) <=> o.addr = d.page * PageUnits)
  BY <1>2, Descriptors
<1>4. CASE o.size \in Small
  <2>1. slob.units[o.addr - Header] = o.size + Header /\ o.size \in Nat
    BY <1>2, <1>4, HeapAssumption DEF Claims
  <2> QED BY <2>1 DEF Header
<1>5. CASE o.size \notin Small
  <2>1. PICK d \in bigblocks : o.addr = d.page * PageUnits /\ d.order = find_order(o.size) /\ o.size \in Big
    BY <1>2, <1>5 DEF Claims
  <2>2. ASSUME NEW e \in descriptor(o.addr) PROVE e = d
    <3>1. e \in bigblocks /\ e.page * PageUnits = d.page * PageUnits
      BY <2>1 DEF descriptor
    <3> QED BY <1>2, <3>1, OneDescriptor
  <2>3. o.size \in Nat /\ Fits(o.size)
    BY <2>1, HeapAssumption
  <2>4. o.size <= Pages(d.order) * PageUnits
    BY <2>1, <2>3, FitsEnough
  <2> QED BY <1>3, <1>5, <2>2, <2>4
<1> QED BY <1>4, <1>5

\* All of memory, each unit once, and room for every object, when every caller asks for
\* at most two pages or for a power of two of them: find_order halves the size and drops
\* the remainder, so that another request may get too few.  The kernel asks for one page
\* (files_struct, IOBUF_SIZE) and for four (DISK0_BUFSIZE).
THEOREM Partition == (\A s \in Big : Fits(s)) => (Spec => []MemoryPartition)
<1>1. ASSUME HeapInv, SlobInv, \A s \in Big : Fits(s) PROVE MemoryPartition
  <2>1. \A x, y \in Stretches : x # y => span(x[2], x[3]) \cap span(y[2], y[3]) = {}
    <3> SUFFICES ASSUME NEW x \in Stretches, NEW y \in Stretches, x # y,
                        NEW u \in span(x[2], x[3]), u \in span(y[2], y[3])
                 PROVE  FALSE
      OBVIOUS
    <3> QED BY <1>1, StretchesApart
  <2>2. UNION {span(x[2], x[3]) : x \in Stretches} = Unit \ {arena}
    <3>1. \A u : u \in 0 .. MemEnd - 1 <=> \E x \in Stretches : u \in span(x[2], x[3])
      BY <1>1, StretchesAll
    <3>2. Unit \ {arena} = 0 .. MemEnd - 1
      BY MemEndNat DEF arena
    <3>3. PICK S : S = Stretches
      OBVIOUS
    <3>4. \A u : u \in UNION {span(x[2], x[3]) : x \in S} <=> \E x \in S : u \in span(x[2], x[3])
      OBVIOUS
    <3> QED BY <3>1, <3>2, <3>3, <3>4
  <2>3. \A o \in objs :
           \/ descriptor(o.addr) # {} /\ \A d \in descriptor(o.addr) : o.size <= Pages(d.order) * PageUnits
           \/ slob.units[o.addr - Header] >= o.size + Header
    BY <1>1, ObjectsFit
  <2> QED BY <2>1, <2>2, <2>3 DEF MemoryPartition
<1>2. ASSUME \A s \in Big : Fits(s) PROVE Spec => []MemoryPartition
  <2>1. (HeapInv /\ SlobInv) => MemoryPartition
    BY <1>1, <1>2
  <2> QED BY <2>1, HeapStructure, HeapInvariant, PTL
<1> QED BY <1>2
=============================================================================
