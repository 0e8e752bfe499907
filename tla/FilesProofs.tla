---------------------------- MODULE FilesProofs -----------------------------
(***************************************************************************)
(* Proofs about open files, for every number of processes, descriptors,    *)
(* inodes and blocks: the counts of the inodes are exact, and the free map *)
(* agrees with the inodes until one is read from the disk again.           *)
(***************************************************************************)
EXTENDS Files, FiniteSetTheorems, FunctionTheorems, WellFoundedInduction, TLAPS

Node == [ref : Int, open : Int, size : Nat, blocks : Seq(1 .. Blocks)]
FsType == [node : [Ino -> Node], free : SUBSET (1 .. Blocks), unused : Int]
Desc == [node : Ino \cup {NULL}, pos : Nat, w : BOOLEAN]
Table == [Fd -> Desc]

TypeOK ==
    /\ fd \in [Proc -> Table] /\ pwd \in [Proc -> Dir \cup {NULL}]
    /\ s \in FsType /\ lost \in [Ino -> Nat]

\* A slot without a process has no open files: copy_files fills an empty table.
NoFiles == \A p \in Proc : ~Live(p) => \A n \in Fd : fd[p][n] = Unused

\* The inductive invariant.
FilesInv == TypeOK /\ NoFiles /\ RefsExact

-----------------------------------------------------------------------------
(* Numbers and recursion *)

LEMMA LeastNumber ==
    ASSUME NEW S \in SUBSET Nat, S # {}
    PROVE  \E k \in S : \A j \in S : k <= j
<1>1. PICK k \in S : \A j \in S : ~(<<j, k>> \in OpToRel(<, Nat))
  BY NatLessThanWellFounded, WFMin
<1>2. \A j \in S : ~(j < k)
  BY <1>1 DEF OpToRel
<1> QED BY <1>2

\* A function is defined by its first value and a step from each value to the next.
LEMMA Recursion ==
    ASSUME NEW T, NEW a \in T, NEW step \in [Nat -> [T -> T]], NEW n \in Nat
    PROVE  \E g \in [0 .. n -> T] : g[0] = a /\ \A k \in 1 .. n : g[k] = step[k][g[k - 1]]
<1> DEFINE Good(g, m) == g[0] = a /\ \A k \in 1 .. m : g[k] = step[k][g[k - 1]]
           Lacks == {m \in Nat : ~\E g \in [0 .. m -> T] : Good(g, m)}
<1> SUFFICES ASSUME n \in Lacks PROVE FALSE
  OBVIOUS
<1>1. PICK m \in Lacks : \A j \in Lacks : m <= j
  <2>1. Lacks \in SUBSET Nat /\ Lacks # {}
    OBVIOUS
  <2> HIDE DEF Lacks
  <2> QED BY <2>1, LeastNumber
<1>2. m \in Nat /\ ~\E g \in [0 .. m -> T] : Good(g, m)
  BY <1>1
<1>3. m # 0
  <2> SUFFICES ASSUME m = 0 PROVE FALSE
    OBVIOUS
  <2> DEFINE g == [k \in 0 .. 0 |-> a]
  <2>1. g \in [0 .. 0 -> T] /\ Good(g, 0)
    OBVIOUS
  <2> QED BY <2>1, <1>2
<1>4. m - 1 \in Nat /\ m - 1 \notin Lacks
  <2> HIDE DEF Lacks
  <2> QED BY <1>1, <1>2, <1>3
<1>5. PICK g \in [0 .. m - 1 -> T] : Good(g, m - 1)
  BY <1>4
<1> DEFINE v == step[m][g[m - 1]]
           h == [k \in 0 .. m |-> IF k = m THEN v ELSE g[k]]
<1>6. g[m - 1] \in T
  BY <1>4, <1>5
<1>7. v \in T
  BY <1>2, <1>6
<1>8. h \in [0 .. m -> T]
  <2> HIDE DEF v
  <2> QED BY <1>2, <1>5, <1>7
<1>9. h[0] = a
  <2> HIDE DEF v
  <2> QED BY <1>2, <1>3, <1>5
<1>10. ASSUME NEW k \in 1 .. m PROVE h[k] = step[k][h[k - 1]]
  <2>1. CASE k = m
    <3>1. h[k] = v /\ h[k - 1] = g[m - 1]
      BY <2>1, <1>2, <1>3
    <3> QED BY <2>1, <3>1
  <2>2. CASE k # m
    <3>1. k \in 1 .. m - 1 /\ h[k] = g[k] /\ h[k - 1] = g[k - 1]
      BY <2>2, <1>2
    <3>2. g[k] = step[k][g[k - 1]]
      BY <3>1, <1>5
    <3> HIDE DEF h
    <3> QED BY <3>1, <3>2
  <2> QED BY <2>1, <2>2
<1> HIDE DEF h
<1> QED BY <1>2, <1>8, <1>9, <1>10

-----------------------------------------------------------------------------
(* Counting *)

LEMMA FdFinite == IsFiniteSet(Fd)
<1>1. 0 \in Int /\ NFD - 1 \in Int
  BY FilesAssumption
<1> QED BY <1>1, FS_Interval DEF Fd

\* How many elements of S a function sends to i, when one value changes.
count(S, f, i) == Cardinality({y \in S : f[y] = i})
one(a, i) == IF a = i THEN 1 ELSE 0

LEMMA CountNat ==
    ASSUME NEW S, IsFiniteSet(S), NEW f, NEW i
    PROVE  count(S, f, i) \in Nat /\ IsFiniteSet({y \in S : f[y] = i})
<1>1. {y \in S : f[y] = i} \in SUBSET S
  OBVIOUS
<1> QED BY <1>1, FS_Subset, FS_CardinalityType DEF count

OnlyAt(S, x, f, g) == \A y \in S \ {x} : g[y] = f[y]

LEMMA CountChanges ==
    ASSUME NEW S, IsFiniteSet(S), NEW f, NEW g, NEW x \in S, OnlyAt(S, x, f, g), NEW i
    PROVE  count(S, g, i) = count(S, f, i) - one(f[x], i) + one(g[x], i)
<1> DEFINE rest == {y \in S \ {x} : f[y] = i}
<1>1. rest \in SUBSET S /\ x \notin rest
  OBVIOUS
<1>2. IsFiniteSet(rest) /\ Cardinality(rest) \in Nat
  BY <1>1, FS_Subset, FS_CardinalityType
<1>3. Cardinality(rest \cup {x}) = Cardinality(rest) + 1
  BY <1>1, <1>2, FS_AddElement
<1>4. ASSUME NEW h, \A y \in S \ {x} : h[y] = f[y]
      PROVE  count(S, h, i) = Cardinality(rest) + one(h[x], i)
  <2>1. {y \in S : h[y] = i} = IF h[x] = i THEN rest \cup {x} ELSE rest
    BY <1>4
  <2> QED BY <2>1, <1>2, <1>3 DEF count, one
<1>5. count(S, f, i) = Cardinality(rest) + one(f[x], i)
  BY <1>4
<1>6. count(S, g, i) = Cardinality(rest) + one(g[x], i)
  BY <1>4 DEF OnlyAt
<1> HIDE DEF rest
<1> QED BY <1>2, <1>5, <1>6 DEF one

LEMMA UsesNat ==
    ASSUME NEW t, NEW ns \in SUBSET Fd, NEW i
    PROVE  uses(t, ns, i) \in Nat /\ IsFiniteSet({n \in ns : t[n].node = i})
<1>1. {n \in ns : t[n].node = i} \in SUBSET Fd
  OBVIOUS
<1> QED BY <1>1, FdFinite, FS_Subset, FS_CardinalityType DEF uses

\* One descriptor changes.
LEMMA UsesChange ==
    ASSUME NEW t, NEW u, NEW n \in Fd, OnlyAt(Fd, n, t, u), NEW i
    PROVE  uses(u, Fd, i) = uses(t, Fd, i) - one(t[n].node, i) + one(u[n].node, i)
<1> DEFINE a == [m \in Fd |-> t[m].node]
           b == [m \in Fd |-> u[m].node]
<1>1. uses(t, Fd, i) = count(Fd, a, i)
  <2>1. {m \in Fd : t[m].node = i} = {m \in Fd : a[m] = i}
    OBVIOUS
  <2> QED BY <2>1 DEF uses, count
<1>2. uses(u, Fd, i) = count(Fd, b, i)
  <2>1. {m \in Fd : u[m].node = i} = {m \in Fd : b[m] = i}
    OBVIOUS
  <2> QED BY <2>1 DEF uses, count
<1>3. a[n] = t[n].node /\ b[n] = u[n].node /\ OnlyAt(Fd, n, a, b)
  BY DEF OnlyAt
<1>4. count(Fd, b, i) = count(Fd, a, i) - one(a[n], i) + one(b[n], i)
  <2> HIDE DEF a, b
  <2> QED BY <1>3, FdFinite, CountChanges
<1> HIDE DEF a, b
<1> QED BY <1>1, <1>2, <1>3, <1>4

\* A set of them is closed.
LEMMA UsesClosed ==
    ASSUME NEW t, NEW ns \in SUBSET Fd, NEW i \in Ino
    PROVE  uses(closed(t, ns), Fd, i) = uses(t, Fd, i) - uses(t, ns, i)
<1> DEFINE A == {n \in Fd : closed(t, ns)[n].node = i}
           B == {n \in ns : t[n].node = i}
<1>1. A \cap B = {} /\ A \cup B = {n \in Fd : t[n].node = i}
  BY FilesAssumption DEF closed, Unused
<1>2. IsFiniteSet(A) /\ IsFiniteSet(B)
  <2>1. A \in SUBSET Fd /\ B \in SUBSET Fd
    OBVIOUS
  <2> QED BY <2>1, FdFinite, FS_Subset
<1>3. Cardinality(A \cup B) = Cardinality(A) + Cardinality(B)
  <2> HIDE DEF A, B
  <2>1. Cardinality(A \cup B) = Cardinality(A) + Cardinality(B) - Cardinality(A \cap B)
    BY <1>2, FS_Union
  <2>2. Cardinality(A \cap B) = 0
    BY <1>1, FS_EmptySet
  <2>3. Cardinality(A) \in Nat /\ Cardinality(B) \in Nat
    BY <1>2, FS_CardinalityType
  <2> QED BY <2>1, <2>2, <2>3
<1>4. /\ Cardinality(A) \in Nat /\ Cardinality(B) \in Nat
      /\ Cardinality(A) = uses(closed(t, ns), Fd, i)
      /\ Cardinality(B) = uses(t, ns, i)
      /\ Cardinality(A \cup B) = uses(t, Fd, i)
  BY <1>1, <1>2, FS_CardinalityType DEF uses
<1> HIDE DEF A, B
<1> QED BY <1>3, <1>4

\* The descriptors of all processes that name i.
total(F, i) == Cardinality({x \in Proc \X Fd : F[x[1]][x[2]].node = i})

\* They change by what changes in the one table that changes.
LEMMA TotalChanges ==
    ASSUME NEW F, NEW G, NEW p \in Proc, OnlyAt(Proc, p, F, G), NEW i
    PROVE  /\ total(F, i) \in Nat
           /\ total(G, i) = total(F, i) - uses(F[p], Fd, i) + uses(G[p], Fd, i)
<1> DEFINE A == {x \in (Proc \ {p}) \X Fd : F[x[1]][x[2]].node = i}
<1>1. IsFiniteSet(Proc \X Fd)
  BY FilesAssumption, FdFinite, FS_Product
<1>2. IsFiniteSet(A) /\ Cardinality(A) \in Nat
  <2>1. A \in SUBSET (Proc \X Fd)
    OBVIOUS
  <2> QED BY <2>1, <1>1, FS_Subset, FS_CardinalityType
<1>3. ASSUME NEW H, \A q \in Proc \ {p} : H[q] = F[q]
      PROVE  total(H, i) = Cardinality(A) + uses(H[p], Fd, i) /\ total(H, i) \in Nat
  <2> DEFINE N == {n \in Fd : H[p][n].node = i}
             B == {x \in {p} \X Fd : H[x[1]][x[2]].node = i}
             b == [n \in N |-> <<p, n>>]
  <2>1. IsFiniteSet(N) /\ Cardinality(N) = uses(H[p], Fd, i) /\ Cardinality(N) \in Nat
    <3>1. N \in SUBSET Fd /\ Cardinality(N) = uses(H[p], Fd, i)
      BY DEF uses
    <3> HIDE DEF N
    <3> QED BY <3>1, FdFinite, FS_Subset, FS_CardinalityType
  <2>2. b \in Bijection(N, B)
    <3>1. b \in [N -> B]
      OBVIOUS
    <3>2. \A m, n \in N : b[m] = b[n] => m = n
      OBVIOUS
    <3>3. \A x \in B : \E n \in N : b[n] = x
      <4> TAKE x \in B
      <4>1. x = <<p, x[2]>> /\ x[2] \in N
        OBVIOUS
      <4>2. b[x[2]] = x
        BY <4>1
      <4> QED BY <4>1, <4>2
    <3> QED BY <3>1, <3>2, <3>3, Fun_IsBij
  <2>3. IsFiniteSet(B) /\ Cardinality(B) = Cardinality(N)
    <3> HIDE DEF N, B, b
    <3> QED BY <2>1, <2>2, FS_Bijection DEF ExistsBijection
  <2>4. A \cap B = {} /\ A \cup B = {x \in Proc \X Fd : H[x[1]][x[2]].node = i}
    BY <1>3
  <2>5. Cardinality(A \cup B) = Cardinality(A) + Cardinality(B)
    <3> HIDE DEF A, B
    <3>1. Cardinality(A \cup B) = Cardinality(A) + Cardinality(B) - Cardinality(A \cap B)
      BY <1>2, <2>3, FS_Union
    <3>2. Cardinality(A \cap B) = 0
      BY <2>4, FS_EmptySet
    <3>3. Cardinality(B) \in Nat
      BY <2>3, FS_CardinalityType
    <3> QED BY <3>1, <3>2, <3>3, <1>2
  <2>6. total(H, i) = Cardinality(A \cup B)
    BY <2>4 DEF total
  <2> HIDE DEF A, B, N
  <2> QED BY <1>2, <2>1, <2>3, <2>5, <2>6
<1>4. total(F, i) = Cardinality(A) + uses(F[p], Fd, i) /\ total(F, i) \in Nat
  BY <1>3
<1>5. total(G, i) = Cardinality(A) + uses(G[p], Fd, i)
  BY <1>3 DEF OnlyAt
<1>6. uses(F[p], Fd, i) \in Nat /\ uses(G[p], Fd, i) \in Nat
  BY UsesNat
<1> HIDE DEF A
<1> QED BY <1>2, <1>4, <1>5, <1>6

-----------------------------------------------------------------------------
(* What the operators on the file system do to counts and blocks. *)

SameCounts(f, g) ==
    \A j \in Ino : g.node[j].ref = f.node[j].ref /\ g.node[j].open = f.node[j].open

\* The map stays, and inodes keep their blocks or leave memory.
SameMap(f, g) == g.free = f.free /\ g.unused = f.unused
SameBlocks(f, g) == SameMap(f, g) /\ \A j \in Ino : g.node[j].blocks = f.node[j].blocks
FewerBlocks(f, g) ==
    SameMap(f, g) /\ \A j \in Ino : g.node[j].blocks \in {f.node[j].blocks, <<>>}

LEMMA NodeFacts ==
    ASSUME NEW f \in FsType, NEW j \in Ino
    PROVE  /\ f.node \in [Ino -> Node] /\ f.free \in SUBSET (1 .. Blocks) /\ f.unused \in Int
           /\ f.node[j] \in Node /\ f.node[j].ref \in Int /\ f.node[j].open \in Int
           /\ f.node[j].size \in Nat /\ f.node[j].blocks \in Seq(1 .. Blocks)
<1>1. f.node \in [Ino -> Node] /\ f.free \in SUBSET (1 .. Blocks) /\ f.unused \in Int
  BY DEF FsType
<1>2. f.node[j] \in Node
  BY <1>1
<1> QED BY <1>1, <1>2 DEF Node

LEMMA NoNodeType == NoNode \in Node /\ NoNode.ref = 0 /\ NoNode.open = 0 /\ NoNode.blocks = <<>>
BY DEF NoNode, Node

\* One inode gets new contents.
LEMMA WithNode ==
    ASSUME NEW f \in FsType, NEW i \in Ino, NEW nd \in Node
    PROVE  LET g == [f EXCEPT !.node[i] = nd]
           IN  /\ g \in FsType /\ SameMap(f, g) /\ g.node[i] = nd
               /\ \A j \in Ino \ {i} : g.node[j] = f.node[j]
<1> DEFINE N == [f.node EXCEPT ![i] = nd]
           g == [f EXCEPT !.node[i] = nd]
<1>1. f.node \in [Ino -> Node] /\ f.free \in SUBSET (1 .. Blocks) /\ f.unused \in Int
  BY DEF FsType
<1>2. N \in [Ino -> Node] /\ N[i] = nd /\ \A j \in Ino \ {i} : N[j] = f.node[j]
  BY <1>1
<1>3. g = [f EXCEPT !.node = N] /\ f = [node |-> f.node, free |-> f.free, unused |-> f.unused]
  BY DEF FsType
<1> HIDE DEF N
<1>4. g = [node |-> N, free |-> f.free, unused |-> f.unused]
  BY <1>3
<1> HIDE DEF g
<1>5. g \in FsType /\ SameMap(f, g) /\ g.node = N
  BY <1>1, <1>2, <1>4 DEF FsType, SameMap
<1> QED BY <1>2, <1>5 DEF g

LEMMA RefInc ==
    ASSUME NEW f \in FsType, NEW i \in Ino
    PROVE  LET g == inode_ref_inc(f, i)
           IN  /\ g \in FsType /\ SameBlocks(f, g)
               /\ \A j \in Ino : /\ g.node[j].ref = f.node[j].ref + one(i, j)
                                 /\ g.node[j].open = f.node[j].open
<1> DEFINE nd == [f.node[i] EXCEPT !.ref = @ + 1]
           g == [f EXCEPT !.node[i] = nd]
<1>1. inode_ref_inc(f, i) = g
  BY DEF inode_ref_inc
<1>2. f.node[i] \in Node
  BY NodeFacts
<1>3. nd \in Node /\ nd.ref = f.node[i].ref + 1 /\ nd.open = f.node[i].open
      /\ nd.blocks = f.node[i].blocks
  BY <1>2 DEF Node
<1> HIDE DEF nd
<1>4. /\ g \in FsType /\ SameMap(f, g) /\ g.node[i] = nd
      /\ \A j \in Ino \ {i} : g.node[j] = f.node[j]
  BY <1>3, WithNode
<1> HIDE DEF g
<1>5. ASSUME NEW j \in Ino
      PROVE  /\ g.node[j].ref = f.node[j].ref + one(i, j) /\ g.node[j].open = f.node[j].open
             /\ g.node[j].blocks = f.node[j].blocks
  <2>1. f.node[j].ref \in Int /\ f.node[j].open \in Int
    BY NodeFacts
  <2>2. CASE j = i
    BY <1>3, <1>4, <2>1, <2>2 DEF one
  <2>3. CASE j # i
    BY <1>4, <2>1, <2>3 DEF one
  <2> QED BY <2>2, <2>3
<1> QED BY <1>1, <1>4, <1>5 DEF SameBlocks

LEMMA OpenInc ==
    ASSUME NEW f \in FsType, NEW i \in Ino
    PROVE  LET g == inode_open_inc(f, i)
           IN  /\ g \in FsType /\ SameBlocks(f, g)
               /\ g.node[i].size = f.node[i].size
               /\ \A j \in Ino : /\ g.node[j].ref = f.node[j].ref
                                 /\ g.node[j].open = f.node[j].open + one(i, j)
<1> DEFINE nd == [f.node[i] EXCEPT !.open = @ + 1]
           g == [f EXCEPT !.node[i] = nd]
<1>1. inode_open_inc(f, i) = g
  BY DEF inode_open_inc
<1>2. f.node[i] \in Node
  BY NodeFacts
<1>3. nd \in Node /\ nd.open = f.node[i].open + 1 /\ nd.ref = f.node[i].ref
      /\ nd.size = f.node[i].size /\ nd.blocks = f.node[i].blocks
  BY <1>2 DEF Node
<1> HIDE DEF nd
<1>4. /\ g \in FsType /\ SameMap(f, g) /\ g.node[i] = nd
      /\ \A j \in Ino \ {i} : g.node[j] = f.node[j]
  BY <1>3, WithNode
<1> HIDE DEF g
<1>5. ASSUME NEW j \in Ino
      PROVE  /\ g.node[j].open = f.node[j].open + one(i, j) /\ g.node[j].ref = f.node[j].ref
             /\ g.node[j].blocks = f.node[j].blocks
  <2>1. f.node[j].ref \in Int /\ f.node[j].open \in Int
    BY NodeFacts
  <2>2. CASE j = i
    BY <1>3, <1>4, <2>1, <2>2 DEF one
  <2>3. CASE j # i
    BY <1>4, <2>1, <2>3 DEF one
  <2> QED BY <2>2, <2>3
<1> QED BY <1>1, <1>3, <1>4, <1>5 DEF SameBlocks

\* An inode that is reclaimed must have no opens left; then both counts go down.
LEMMA RefDec ==
    ASSUME NEW f \in FsType, NEW i \in Ino, f.node[i].ref = 1 => f.node[i].open = 0
    PROVE  LET g == inode_ref_dec(f, i)
           IN  /\ g \in FsType /\ FewerBlocks(f, g)
               /\ \A j \in Ino : /\ g.node[j].ref = f.node[j].ref - one(i, j)
                                 /\ g.node[j].open = f.node[j].open
<1> DEFINE nd == IF f.node[i].ref = 1 THEN NoNode ELSE [f.node[i] EXCEPT !.ref = @ - 1]
           g == [f EXCEPT !.node[i] = nd]
<1>1. inode_ref_dec(f, i) = g
  BY DEF inode_ref_dec
<1>2. f.node[i] \in Node
  BY NodeFacts
<1>3. nd \in Node /\ nd.ref = f.node[i].ref - 1 /\ nd.open = f.node[i].open
      /\ nd.blocks \in {f.node[i].blocks, <<>>}
  <2>1. CASE f.node[i].ref = 1
    BY <2>1, NoNodeType
  <2>2. CASE f.node[i].ref # 1
    BY <1>2, <2>2 DEF Node
  <2> QED BY <2>1, <2>2
<1> HIDE DEF nd
<1>4. /\ g \in FsType /\ SameMap(f, g) /\ g.node[i] = nd
      /\ \A j \in Ino \ {i} : g.node[j] = f.node[j]
  BY <1>3, WithNode
<1> HIDE DEF g
<1>5. ASSUME NEW j \in Ino
      PROVE  /\ g.node[j].ref = f.node[j].ref - one(i, j) /\ g.node[j].open = f.node[j].open
             /\ g.node[j].blocks \in {f.node[j].blocks, <<>>}
  <2>1. f.node[j].ref \in Int /\ f.node[j].open \in Int
    BY NodeFacts
  <2>2. CASE j = i
    BY <1>3, <1>4, <2>1, <2>2 DEF one
  <2>3. CASE j # i
    BY <1>4, <2>1, <2>3 DEF one
  <2> QED BY <2>2, <2>3
<1> QED BY <1>1, <1>4, <1>5 DEF FewerBlocks

LEMMA Close ==
    ASSUME NEW f \in FsType, NEW i \in Ino, f.node[i].ref = 1 => f.node[i].open = 1
    PROVE  LET g == vfs_close(f, i)
           IN  /\ g \in FsType /\ FewerBlocks(f, g)
               /\ \A j \in Ino : /\ g.node[j].ref = f.node[j].ref - one(i, j)
                                 /\ g.node[j].open = f.node[j].open - one(i, j)
<1> DEFINE nd == [f.node[i] EXCEPT !.open = @ - 1]
           h == [f EXCEPT !.node[i] = nd]
           g == inode_ref_dec(h, i)
<1>1. vfs_close(f, i) = g
  BY DEF vfs_close
<1>2. f.node[i] \in Node
  BY NodeFacts
<1>3. nd \in Node /\ nd.open = f.node[i].open - 1 /\ nd.ref = f.node[i].ref
      /\ nd.blocks = f.node[i].blocks
  BY <1>2 DEF Node
<1> HIDE DEF nd
<1>4. /\ h \in FsType /\ SameMap(f, h) /\ h.node[i] = nd
      /\ \A j \in Ino \ {i} : h.node[j] = f.node[j]
  BY <1>3, WithNode
<1> HIDE DEF h
<1>5. /\ g \in FsType /\ FewerBlocks(h, g)
      /\ \A j \in Ino : /\ g.node[j].ref = h.node[j].ref - one(i, j)
                        /\ g.node[j].open = h.node[j].open
  BY <1>3, <1>4, RefDec
<1> HIDE DEF g
<1>6. ASSUME NEW j \in Ino
      PROVE  /\ g.node[j].ref = f.node[j].ref - one(i, j)
             /\ g.node[j].open = f.node[j].open - one(i, j)
             /\ g.node[j].blocks \in {f.node[j].blocks, <<>>}
  BY SMTT(30), <1>3, <1>4, <1>5, NodeFacts DEF one, FewerBlocks
<1>7. FewerBlocks(f, g)
  BY <1>4, <1>5, <1>6 DEF FewerBlocks, SameMap
<1> QED BY <1>1, <1>5, <1>6, <1>7

\* All inodes get new contents.
LEMMA WithNodes ==
    ASSUME NEW f \in FsType, NEW N \in [Ino -> Node]
    PROVE  LET g == [f EXCEPT !.node = N] IN g \in FsType /\ SameMap(f, g) /\ g.node = N
<1> DEFINE g == [f EXCEPT !.node = N]
<1>1. f.node \in [Ino -> Node] /\ f.free \in SUBSET (1 .. Blocks) /\ f.unused \in Int
  BY DEF FsType
<1>2. g = [node |-> N, free |-> f.free, unused |-> f.unused]
  BY DEF FsType
<1> HIDE DEF g
<1>3. g \in FsType /\ SameMap(f, g) /\ g.node = N
  BY <1>1, <1>2 DEF FsType, SameMap
<1> QED BY <1>3 DEF g

LEMMA CloseAll ==
    ASSUME NEW f \in FsType, NEW t, NEW ns \in SUBSET Fd,
           \A i \in Ino : f.node[i].ref = uses(t, ns, i) => f.node[i].open = uses(t, ns, i)
    PROVE  LET g == fd_array_close(f, t, ns)
           IN  /\ g \in FsType /\ FewerBlocks(f, g)
               /\ \A j \in Ino : /\ g.node[j].ref = f.node[j].ref - uses(t, ns, j)
                                 /\ g.node[j].open = f.node[j].open - uses(t, ns, j)
<1> DEFINE nd(i) == IF uses(t, ns, i) > 0 /\ f.node[i].ref = uses(t, ns, i) THEN NoNode
                    ELSE [f.node[i] EXCEPT !.ref = @ - uses(t, ns, i),
                                           !.open = @ - uses(t, ns, i)]
           N == [i \in Ino |-> nd(i)]
           g == [f EXCEPT !.node = N]
<1>1. fd_array_close(f, t, ns) = g
  BY DEF fd_array_close
<1>2. ASSUME NEW i \in Ino
      PROVE  /\ nd(i) \in Node /\ nd(i).ref = f.node[i].ref - uses(t, ns, i)
             /\ nd(i).open = f.node[i].open - uses(t, ns, i)
             /\ nd(i).blocks \in {f.node[i].blocks, <<>>}
  <2>1. f.node[i] \in Node /\ uses(t, ns, i) \in Nat
    BY NodeFacts, UsesNat
  <2>2. CASE uses(t, ns, i) > 0 /\ f.node[i].ref = uses(t, ns, i)
    BY <2>1, <2>2, NoNodeType
  <2>3. CASE ~(uses(t, ns, i) > 0 /\ f.node[i].ref = uses(t, ns, i))
    <3>1. PICK k \in Nat : k = uses(t, ns, i)
      BY <2>1
    <3>2. PICK r \in Node : r = f.node[i]
      BY <2>1
    <3>3. nd(i) = [r EXCEPT !.ref = @ - k, !.open = @ - k]
      BY <2>3, <3>1, <3>2
    <3> HIDE DEF nd
    <3>4. r = [ref |-> r.ref, open |-> r.open, size |-> r.size, blocks |-> r.blocks]
      BY DEF Node
    <3>5. nd(i) = [ref |-> r.ref - k, open |-> r.open - k, size |-> r.size, blocks |-> r.blocks]
      BY <3>3, <3>4
    <3>6. r.ref - k \in Int /\ r.open - k \in Int
          /\ r.size \in Nat /\ r.blocks \in Seq(1 .. Blocks)
      BY DEF Node
    <3>7. nd(i) \in Node /\ nd(i).ref = r.ref - k /\ nd(i).open = r.open - k
          /\ nd(i).blocks = r.blocks
      BY <3>5, <3>6 DEF Node
    <3> QED BY <3>1, <3>2, <3>7
  <2> QED BY <2>2, <2>3
<1> HIDE DEF nd
<1>3. N \in [Ino -> Node]
  BY <1>2
<1>4. \A i \in Ino : N[i] = nd(i)
  OBVIOUS
<1> HIDE DEF N
<1>5. g \in FsType /\ SameMap(f, g) /\ g.node = N
  BY <1>3, WithNodes
<1> HIDE DEF g
<1> QED BY <1>1, <1>2, <1>4, <1>5 DEF FewerBlocks

LEMMA Dup ==
    ASSUME NEW f \in FsType, NEW t, NEW ns \in SUBSET Fd
    PROVE  LET g == fd_array_dup(f, t, ns)
           IN  /\ g \in FsType /\ SameBlocks(f, g)
               /\ \A j \in Ino : /\ g.node[j].ref = f.node[j].ref + uses(t, ns, j)
                                 /\ g.node[j].open = f.node[j].open + uses(t, ns, j)
<1> DEFINE nd(i) == [f.node[i] EXCEPT !.ref = @ + uses(t, ns, i), !.open = @ + uses(t, ns, i)]
           N == [i \in Ino |-> nd(i)]
           g == [f EXCEPT !.node = N]
<1>1. fd_array_dup(f, t, ns) = g
  BY DEF fd_array_dup
<1>2. ASSUME NEW i \in Ino
      PROVE  /\ nd(i) \in Node /\ nd(i).ref = f.node[i].ref + uses(t, ns, i)
             /\ nd(i).open = f.node[i].open + uses(t, ns, i)
             /\ nd(i).blocks = f.node[i].blocks
  <2>1. f.node[i] \in Node /\ uses(t, ns, i) \in Nat
    BY NodeFacts, UsesNat
  <2>2. PICK k \in Nat : k = uses(t, ns, i)
    BY <2>1
  <2>3. nd(i) = [f.node[i] EXCEPT !.ref = @ + k, !.open = @ + k]
    BY <2>2
  <2>4. /\ nd(i) \in Node /\ nd(i).ref = f.node[i].ref + k
        /\ nd(i).open = f.node[i].open + k /\ nd(i).blocks = f.node[i].blocks
    <3>1. PICK r \in Node : r = f.node[i]
      BY <2>1
    <3>2. nd(i) = [r EXCEPT !.ref = @ + k, !.open = @ + k]
      BY <2>3, <3>1
    <3> HIDE DEF nd
    <3>3. nd(i) \in Node /\ nd(i).ref = r.ref + k /\ nd(i).open = r.open + k
          /\ nd(i).blocks = r.blocks
      <4>1. r = [ref |-> r.ref, open |-> r.open, size |-> r.size, blocks |-> r.blocks]
        BY DEF Node
      <4>2. nd(i) = [ref |-> r.ref + k, open |-> r.open + k, size |-> r.size,
                     blocks |-> r.blocks]
        BY <3>2, <4>1
      <4>3. r.ref + k \in Int /\ r.open + k \in Int
            /\ r.size \in Nat /\ r.blocks \in Seq(1 .. Blocks)
        BY DEF Node
      <4> QED BY <4>2, <4>3 DEF Node
    <3> QED BY <3>1, <3>3
  <2> QED BY <2>2, <2>4
<1> HIDE DEF nd
<1>3. N \in [Ino -> Node]
  BY <1>2
<1>4. \A i \in Ino : N[i] = nd(i)
  OBVIOUS
<1> HIDE DEF N
<1>5. g \in FsType /\ SameMap(f, g) /\ g.node = N
  BY <1>3, WithNodes
<1> HIDE DEF g
<1> QED BY <1>1, <1>2, <1>4, <1>5 DEF SameBlocks

\* An inode in memory gets a reference; another one comes with one, and was not open.
LEMMA Load ==
    ASSUME NEW f \in FsType, NEW i \in Ino, f.node[i].ref \in Nat,
           f.node[i].ref = 0 => f.node[i].open = 0
    PROVE  LET g == sfs_load_inode(f, i)
           IN  /\ g \in FsType /\ SameMap(f, g)
               /\ \A j \in Ino : /\ g.node[j].ref = f.node[j].ref + one(i, j)
                                 /\ g.node[j].open = f.node[j].open
                                 /\ (j # i \/ f.node[i].ref > 0) =>
                                        g.node[j].blocks = f.node[j].blocks
<1> DEFINE b == IF i \in File THEN Image[i] ELSE <<>>
           nd == IF f.node[i].ref > 0 THEN [f.node[i] EXCEPT !.ref = @ + 1]
                 ELSE [ref |-> 1, open |-> 0, size |-> Len(b), blocks |-> b]
           g == [f EXCEPT !.node[i] = nd]
<1>1. sfs_load_inode(f, i) = g
  BY DEF sfs_load_inode
<1>2. f.node[i] \in Node
  BY NodeFacts
<1>3. b \in Seq(1 .. Blocks)
  <2>1. i \in File => Image[i] \in Seq(1 .. Blocks)
    BY SfsAssumption
  <2>2. <<>> \in Seq(1 .. Blocks)
    OBVIOUS
  <2>3. b = IF i \in File THEN Image[i] ELSE <<>>
    OBVIOUS
  <2> HIDE DEF b
  <2> QED BY <2>1, <2>2, <2>3
<1> HIDE DEF b
<1>4. nd \in Node /\ nd.ref = f.node[i].ref + 1 /\ nd.open = f.node[i].open
      /\ (f.node[i].ref > 0 => nd.blocks = f.node[i].blocks)
  <2>1. CASE f.node[i].ref > 0
    BY <1>2, <2>1 DEF Node
  <2>2. CASE ~(f.node[i].ref > 0)
    <3>1. f.node[i].ref = 0 /\ f.node[i].open = 0
      BY <2>2
    <3>2. nd = [ref |-> 1, open |-> 0, size |-> Len(b), blocks |-> b] /\ Len(b) \in Nat
      BY <2>2, <1>3
    <3> QED BY <1>3, <3>1, <3>2 DEF Node
  <2> QED BY <2>1, <2>2
<1> HIDE DEF nd
<1>5. /\ g \in FsType /\ SameMap(f, g) /\ g.node[i] = nd
      /\ \A j \in Ino \ {i} : g.node[j] = f.node[j]
  BY <1>4, WithNode
<1> HIDE DEF g
<1>6. ASSUME NEW j \in Ino
      PROVE  /\ g.node[j].ref = f.node[j].ref + one(i, j) /\ g.node[j].open = f.node[j].open
             /\ (j # i \/ f.node[i].ref > 0) => g.node[j].blocks = f.node[j].blocks
  <2>1. f.node[j].ref \in Int /\ f.node[j].open \in Int
    BY NodeFacts
  <2>2. CASE j = i
    BY <1>4, <1>5, <2>1, <2>2 DEF one
  <2>3. CASE j # i
    BY <1>5, <2>1, <2>3 DEF one
  <2> QED BY <2>2, <2>3
<1> QED BY <1>1, <1>5, <1>6

-----------------------------------------------------------------------------
(* Blocks and the free map.  Agrees is MapExact of a file system f. *)

Agrees(f) ==
    /\ \A i, j \in File :
           \A k \in DOMAIN f.node[i].blocks, l \in DOMAIN f.node[j].blocks :
               /\ f.node[i].blocks[k] \notin f.free
               /\ f.node[i].blocks[k] = f.node[j].blocks[l] => i = j /\ k = l
    /\ f.unused = Cardinality(f.free)

\* Files that leave memory or stay take nothing from the agreement.
FewerFileBlocks(f, g) ==
    SameMap(f, g) /\ \A j \in File : g.node[j].blocks \in {f.node[j].blocks, <<>>}

LEMMA FewerAgrees ==
    ASSUME NEW f, NEW g, FewerFileBlocks(f, g), Agrees(f)
    PROVE  Agrees(g)
<1>1. g.free = f.free /\ g.unused = f.unused
  BY DEF FewerFileBlocks, SameMap
<1>2. ASSUME NEW i \in File, NEW k \in DOMAIN g.node[i].blocks
      PROVE  k \in DOMAIN f.node[i].blocks /\ g.node[i].blocks = f.node[i].blocks
  <2>1. g.node[i].blocks \in {f.node[i].blocks, <<>>}
    BY DEF FewerFileBlocks
  <2>2. g.node[i].blocks # <<>>
    BY <1>2
  <2> QED BY <2>1, <2>2, <1>2
<1>3. ASSUME NEW i \in File, NEW j \in File,
             NEW k \in DOMAIN g.node[i].blocks, NEW l \in DOMAIN g.node[j].blocks
      PROVE  /\ g.node[i].blocks[k] \notin g.free
             /\ g.node[i].blocks[k] = g.node[j].blocks[l] => i = j /\ k = l
  <2>1. k \in DOMAIN f.node[i].blocks /\ g.node[i].blocks = f.node[i].blocks
    BY <1>2
  <2>2. l \in DOMAIN f.node[j].blocks /\ g.node[j].blocks = f.node[j].blocks
    BY <1>2
  <2> QED BY <1>1, <2>1, <2>2 DEF Agrees
<1> QED BY <1>1, <1>3 DEF Agrees

LEMMA FreeFinite ==
    ASSUME NEW F \in SUBSET (1 .. Blocks)
    PROVE  IsFiniteSet(F) /\ Cardinality(F) \in Nat
<1>1. IsFiniteSet(1 .. Blocks)
  BY SfsAssumption, FS_Interval
<1> QED BY <1>1, FS_Subset, FS_CardinalityType

\* One inode gets other blocks, and the map changes.
with(f, i, F, U, B) == [node |-> [f.node EXCEPT ![i].blocks = B], free |-> F, unused |-> U]

LEMMA WithBlocks ==
    ASSUME NEW f \in FsType, NEW i \in Ino, NEW F \in SUBSET (1 .. Blocks), NEW U \in Int,
           NEW B \in Seq(1 .. Blocks)
    PROVE  LET g == with(f, i, F, U, B)
           IN  /\ g \in FsType /\ g.free = F /\ g.unused = U /\ SameCounts(f, g)
               /\ g.node[i].blocks = B /\ g.node[i].size = f.node[i].size
               /\ \A j \in Ino \ {i} : g.node[j] = f.node[j]
<1> DEFINE nd == [f.node[i] EXCEPT !.blocks = B]
           N == [f.node EXCEPT ![i] = nd]
           g == [node |-> N, free |-> F, unused |-> U]
<1>1. f.node \in [Ino -> Node] /\ f.node[i] \in Node
  BY NodeFacts
<1>2. nd \in Node /\ nd.ref = f.node[i].ref /\ nd.open = f.node[i].open /\ nd.blocks = B
      /\ nd.size = f.node[i].size
  BY <1>1 DEF Node
<1>3. with(f, i, F, U, B) = g
  BY DEF with
<1> HIDE DEF nd
<1>4. N \in [Ino -> Node] /\ N[i] = nd /\ \A j \in Ino \ {i} : N[j] = f.node[j]
  BY <1>1, <1>2
<1> HIDE DEF N
<1>5. g \in FsType /\ g.free = F /\ g.unused = U /\ g.node = N
  BY <1>4 DEF FsType
<1> HIDE DEF g
<1>6. SameCounts(f, g)
  BY <1>2, <1>4, <1>5 DEF SameCounts
<1> QED BY <1>2, <1>3, <1>4, <1>5, <1>6

\* bitmap_alloc finds a block.
LEMMA MinFree ==
    ASSUME NEW F \in SUBSET (1 .. Blocks), F # {}
    PROVE  Min(F) \in F
<1>1. F \in SUBSET Nat
  BY SfsAssumption
<1>2. \E k \in F : \A j \in F : k <= j
  BY <1>1, LeastNumber
<1> QED BY <1>2 DEF Min

LEMMA BlockAlloc ==
    ASSUME NEW f \in FsType, NEW i \in File, f.free # {}
    PROVE  LET g == sfs_block_alloc(f, i)
           IN  /\ g \in FsType /\ SameCounts(f, g)
               /\ g.node[i].size = f.node[i].size
               /\ Agrees(f) => Agrees(g)
<1> DEFINE b == Min(f.free)
           B == Append(f.node[i].blocks, b)
           g == sfs_block_alloc(f, i)
<1>1. i \in Ino
  BY DEF Ino
<1>2. /\ f.free \in SUBSET (1 .. Blocks) /\ f.unused \in Int
      /\ f.node[i].blocks \in Seq(1 .. Blocks)
  BY <1>1, NodeFacts
<1>3. b \in f.free
  BY <1>2, MinFree
<1>4. g = with(f, i, f.free \ {b}, f.unused - 1, B)
  <2>1. g = [f EXCEPT !.free = f.free \ {b}, !.unused = f.unused - 1,
                      !.node = [f.node EXCEPT ![i].blocks = B]]
    BY DEF sfs_block_alloc
  <2>2. f = [node |-> f.node, free |-> f.free, unused |-> f.unused]
    BY DEF FsType
  <2> HIDE DEF g, B, b
  <2> QED BY <2>1, <2>2 DEF with
<1> HIDE DEF b, g
<1>5. B \in Seq(1 .. Blocks) /\ Len(B) = Len(f.node[i].blocks) + 1
      /\ B[Len(B)] = b /\ \A k \in 1 .. Len(f.node[i].blocks) : B[k] = f.node[i].blocks[k]
  BY <1>2, <1>3
<1>6. f.free \ {b} \in SUBSET (1 .. Blocks) /\ f.unused - 1 \in Int
  BY <1>2
<1> HIDE DEF B
<1>7. /\ g \in FsType /\ g.free = f.free \ {b} /\ g.unused = f.unused - 1 /\ SameCounts(f, g)
      /\ g.node[i].blocks = B /\ g.node[i].size = f.node[i].size
      /\ \A j \in Ino \ {i} : g.node[j] = f.node[j]
  <2>1. PICK F \in SUBSET (1 .. Blocks) : F = f.free \ {b}
    BY <1>6
  <2>2. PICK U \in Int : U = f.unused - 1
    BY <1>6
  <2>3. g = with(f, i, F, U, B)
    BY <1>4, <2>1, <2>2
  <2> DEFINE h == with(f, i, F, U, B)
  <2>4. /\ h \in FsType /\ h.free = F /\ h.unused = U /\ SameCounts(f, h)
        /\ h.node[i].blocks = B /\ h.node[i].size = f.node[i].size
        /\ \A j \in Ino \ {i} : h.node[j] = f.node[j]
    BY <1>1, <1>5, WithBlocks
  <2> HIDE DEF h
  <2> QED BY <2>1, <2>2, <2>3, <2>4 DEF h
<1>8. ASSUME Agrees(f) PROVE Agrees(g)
  <2> DEFINE n == Len(f.node[i].blocks)
  <2>1. n \in Nat /\ DOMAIN f.node[i].blocks = 1 .. n /\ DOMAIN B = 1 .. (n + 1)
        /\ B[n + 1] = b /\ \A k \in 1 .. n : B[k] = f.node[i].blocks[k]
    BY <1>2, <1>5
  <2> HIDE DEF n
  <2>2. ASSUME NEW j \in File, NEW k \in DOMAIN g.node[j].blocks
        PROVE  \/ /\ k \in DOMAIN f.node[j].blocks
                  /\ g.node[j].blocks[k] = f.node[j].blocks[k]
                  /\ g.node[j].blocks[k] \notin f.free
               \/ j = i /\ k = n + 1 /\ g.node[j].blocks[k] = b
    <3>1. CASE j = i
      <4>1. k \in 1 .. (n + 1)
        BY <1>7, <2>1, <2>2, <3>1
      <4>2. CASE k = n + 1
        BY <1>7, <2>1, <3>1, <4>2
      <4>3. CASE k # n + 1
        <5>1. k \in 1 .. n
          BY <2>1, <4>1, <4>3
        <5>2. k \in DOMAIN f.node[j].blocks /\ g.node[j].blocks[k] = f.node[j].blocks[k]
          BY <1>7, <2>1, <3>1, <5>1
        <5> QED BY <5>2, <1>8 DEF Agrees
      <4> QED BY <4>2, <4>3
    <3>2. CASE j # i
      <4>1. j \in Ino \ {i}
        BY <3>2 DEF Ino
      <4>2. g.node[j] = f.node[j]
        BY <4>1, <1>7
      <4> QED BY <4>2, <2>2, <1>8 DEF Agrees
    <3> QED BY <3>1, <3>2
  <2>3. ASSUME NEW j \in File, NEW m \in File,
               NEW k \in DOMAIN g.node[j].blocks, NEW l \in DOMAIN g.node[m].blocks
        PROVE  /\ g.node[j].blocks[k] \notin g.free
               /\ g.node[j].blocks[k] = g.node[m].blocks[l] => j = m /\ k = l
    <3>1. \/ /\ k \in DOMAIN f.node[j].blocks
             /\ g.node[j].blocks[k] = f.node[j].blocks[k]
             /\ g.node[j].blocks[k] \notin f.free
          \/ j = i /\ k = n + 1 /\ g.node[j].blocks[k] = b
      BY <2>2
    <3>2. \/ /\ l \in DOMAIN f.node[m].blocks
             /\ g.node[m].blocks[l] = f.node[m].blocks[l]
             /\ g.node[m].blocks[l] \notin f.free
          \/ m = i /\ l = n + 1 /\ g.node[m].blocks[l] = b
      BY <2>2
    <3> QED BY <3>1, <3>2, <1>3, <1>7, <1>8 DEF Agrees
  <2>4. g.unused = Cardinality(g.free)
    <3>1. Cardinality(f.free \ {b}) = Cardinality(f.free) - 1
      BY <1>2, <1>3, FreeFinite, FS_RemoveElement
    <3> QED BY <3>1, <1>7, <1>8 DEF Agrees
  <2> QED BY <2>3, <2>4 DEF Agrees
<1> QED BY <1>7, <1>8 DEF g

\* What growing and shrinking keep.
Kept(f, i, g) ==
    /\ g \in FsType /\ SameCounts(f, g) /\ g.node[i].size = f.node[i].size
    /\ Agrees(f) => Agrees(g)

LEMMA KeptSelf ==
    ASSUME NEW f \in FsType, NEW i \in File
    PROVE  Kept(f, i, f)
BY DEF Kept, SameCounts

LEMMA KeptAlloc ==
    ASSUME NEW f \in FsType, NEW i \in File, NEW g, Kept(f, i, g), g.free # {}
    PROVE  Kept(f, i, sfs_block_alloc(g, i))
<1> DEFINE h == sfs_block_alloc(g, i)
<1>1. /\ h \in FsType /\ SameCounts(g, h) /\ h.node[i].size = g.node[i].size
      /\ Agrees(g) => Agrees(h)
  BY BlockAlloc DEF Kept
<1> HIDE DEF h
<1>2. Kept(f, i, h)
  BY <1>1 DEF Kept, SameCounts
<1> QED BY <1>2 DEF h

\* The recursive function of grown is defined, and each of its values is Kept.
LEMMA Grown ==
    ASSUME NEW f \in FsType, NEW i \in File, NEW n \in Nat
    PROVE  Kept(f, i, grown(f, i, n))
<1> DEFINE L == Len(f.node[i].blocks)
           next(k, h) == IF k <= L THEN f ELSE IF h.free = {} THEN h ELSE sfs_block_alloc(h, i)
           Is(g) == g = [k \in 0 .. n |-> IF k <= L THEN f
                                          ELSE IF g[k - 1].free = {} THEN g[k - 1]
                                          ELSE sfs_block_alloc(g[k - 1], i)]
           step == [k \in Nat |-> [h \in FsType |-> next(k, h)]]
<1>1. L \in Nat
  <2>1. f.node[i].blocks \in Seq(1 .. Blocks)
    BY NodeFacts DEF Ino
  <2> QED BY <2>1
<1>2. ASSUME NEW k \in Nat, NEW h \in FsType PROVE next(k, h) \in FsType
  BY <1>2, BlockAlloc
<1>3. \E g : Is(g)
  <2>1. step \in [Nat -> [FsType -> FsType]]
    <3> HIDE DEF next
    <3> QED BY <1>2
  <2>2. \A k \in Nat, h \in FsType : step[k][h] = next(k, h)
    OBVIOUS
  <2> HIDE DEF step
  <2>3. PICK g \in [0 .. n -> FsType] : g[0] = f /\ \A k \in 1 .. n : g[k] = step[k][g[k - 1]]
    BY <2>1, Recursion
  <2> HIDE DEF L
  <2>4. ASSUME NEW k \in 0 .. n
        PROVE  g[k] = IF k <= L THEN f ELSE IF g[k - 1].free = {} THEN g[k - 1]
                                       ELSE sfs_block_alloc(g[k - 1], i)
    <3>1. CASE k = 0
      BY <3>1, <2>3, <1>1
    <3>2. CASE k # 0
      <4>1. k \in 1 .. n /\ k \in Nat /\ g[k - 1] \in FsType
        BY <3>2, <2>3
      <4>2. g[k] = next(k, g[k - 1])
        BY <4>1, <2>2, <2>3
      <4> QED BY <4>2
    <3> QED BY <3>1, <3>2
  <2>5. Is(g)
    <3>1. g = [k \in 0 .. n |-> g[k]]
      BY <2>3
    <3> QED BY <3>1, <2>4
  <2> QED BY <2>5
<1>4. PICK g : Is(g) /\ grown(f, i, n) = g[n]
  <2> DEFINE c == CHOOSE g : Is(g)
  <2>1. grown(f, i, n) = c[n]
    BY DEF grown
  <2>2. Is(c)
    <3> HIDE DEF Is
    <3> QED BY <1>3
  <2> HIDE DEF c, Is
  <2> QED BY <2>1, <2>2
<1>5. \A k \in 0 .. n : g[k] = IF k <= L THEN f ELSE IF g[k - 1].free = {} THEN g[k - 1]
                                                ELSE sfs_block_alloc(g[k - 1], i)
  <2> SUFFICES ASSUME NEW h, Is(h)
               PROVE  \A k \in 0 .. n : h[k] = IF k <= L THEN f
                                               ELSE IF h[k - 1].free = {} THEN h[k - 1]
                                               ELSE sfs_block_alloc(h[k - 1], i)
    BY <1>4
  <2> HIDE DEF L
  <2> QED OBVIOUS
<1> HIDE DEF L, Is
<1>6. \A k \in 0 .. n : Kept(f, i, g[k])
  <2> DEFINE Off == {k \in 0 .. n : ~Kept(f, i, g[k])}
  <2> SUFFICES ASSUME Off # {} PROVE FALSE
    OBVIOUS
  <2>1. PICK k \in Off : \A j \in Off : k <= j
    <3>1. Off \in SUBSET Nat
      OBVIOUS
    <3> HIDE DEF Off
    <3> QED BY <3>1, LeastNumber
  <2>2. k \in 0 .. n /\ ~Kept(f, i, g[k])
    BY <2>1
  <2>3. ~(k <= L)
    BY <2>2, <1>5, KeptSelf
  <2>4. k - 1 \in 0 .. n /\ k - 1 \notin Off
    <3>1. k - 1 \in 0 .. n
      BY <2>2, <2>3, <1>1
    <3> HIDE DEF Off
    <3> QED BY <3>1, <2>1, <2>2
  <2>5. Kept(f, i, g[k - 1])
    BY <2>4
  <2>6. CASE g[k - 1].free = {}
    BY <2>2, <2>3, <2>5, <2>6, <1>5
  <2>7. CASE g[k - 1].free # {}
    <3>1. Kept(f, i, sfs_block_alloc(g[k - 1], i))
      BY <2>5, <2>7, KeptAlloc
    <3> QED BY <2>2, <2>3, <2>7, <3>1, <1>5
  <2> QED BY <2>6, <2>7
<1> QED BY <1>4, <1>6

LEMMA SeqFacts ==
    ASSUME NEW T, NEW b \in Seq(T)
    PROVE  Len(b) \in Nat /\ DOMAIN b = 1 .. Len(b) /\ \A k \in 1 .. Len(b) : b[k] \in T
OBVIOUS

\* The blocks a shrinking file gives back, when they are distinct.
LEMMA GoneCount ==
    ASSUME NEW b \in Seq(1 .. Blocks), NEW n \in Nat, NEW L \in Nat, L = Len(b), n <= L,
           \A k, l \in n + 1 .. L : b[k] = b[l] => k = l
    PROVE  LET gone == {b[k] : k \in n + 1 .. L}
           IN  gone \in SUBSET (1 .. Blocks) /\ Cardinality(gone) = L - n
<1> DEFINE K == n + 1 .. L
           h == [k \in K |-> b[k]]
           gone == {b[k] : k \in K}
<1>1. \A k \in K : b[k] \in 1 .. Blocks
  <2>1. \A k \in 1 .. L : b[k] \in 1 .. Blocks
    <3> HIDE DEF K, h, gone
    <3> QED BY SeqFacts
  <2>2. \A k \in K : k \in 1 .. L
    OBVIOUS
  <2> QED BY <2>1, <2>2
<1>2. gone \in SUBSET (1 .. Blocks)
  <2> HIDE DEF K
  <2> QED BY <1>1
<1>3. h \in [K -> gone] /\ (\A k, l \in K : h[k] = h[l] => k = l) /\ \A x \in gone : \E k \in K : h[k] = x
  <2> HIDE DEF K
  <2>1. \A k, l \in K : b[k] = b[l] => k = l
    BY DEF K
  <2> QED BY <2>1
<1>4. IsFiniteSet(K) /\ Cardinality(K) = L - n
  <2>1. PICK a \in Int : a = n + 1
    OBVIOUS
  <2>2. IsFiniteSet(a .. L) /\ Cardinality(a .. L) = IF a > L THEN 0 ELSE L - a + 1
    <3>1. a \in Int /\ L \in Int
      OBVIOUS
    <3> HIDE DEF K, h, gone
    <3> QED BY ONLY <3>1, FS_Interval
  <2>3. K = a .. L
    BY <2>1
  <2>4. (IF a > L THEN 0 ELSE L - a + 1) = L - n
    BY <2>1
  <2> HIDE DEF K
  <2> QED BY <2>2, <2>3, <2>4
<1> HIDE DEF K, h, gone
<1>5. h \in Bijection(K, gone)
  BY <1>3, Fun_IsBij
<1>6. Cardinality(gone) = Cardinality(K)
  BY <1>4, <1>5, FS_Bijection DEF ExistsBijection
<1>7. Cardinality(gone) = L - n
  BY <1>4, <1>6
<1> QED BY <1>2, <1>7 DEF gone, K

LEMMA Prefix ==
    ASSUME NEW T, NEW b \in Seq(T), NEW n \in Nat, n <= Len(b)
    PROVE  \E B \in Seq(T) :
               B = SubSeq(b, 1, n) /\ DOMAIN B = 1 .. n /\ \A k \in 1 .. n : B[k] = b[k]
<1>1. Len(b) \in Nat /\ DOMAIN b = 1 .. Len(b) /\ \A k \in 1 .. Len(b) : b[k] \in T
  BY SeqFacts
<1>2. SubSeq(b, 1, n) = [k \in 1 .. n |-> b[k]]
  <2>1. SubSeq(b, 1, n) = [k \in 1 .. (1 + n - 1) |-> b[1 + k - 1]]
    OBVIOUS
  <2> QED BY <2>1
<1>3. [k \in 1 .. n |-> b[k]] \in [1 .. n -> T]
  BY <1>1
<1>4. [k \in 1 .. n |-> b[k]] \in Seq(T)
  BY <1>3
<1> QED BY <1>1, <1>2, <1>4

\* A file with a prefix of its blocks, and the others free: the agreement stays.
Trimmed(f, i, n, L, g) ==
    /\ L = Len(f.node[i].blocks) /\ n <= L
    /\ g.free = f.free \cup {f.node[i].blocks[k] : k \in n + 1 .. L}
    /\ g.unused = Cardinality(g.free)
    /\ DOMAIN g.node[i].blocks = 1 .. n
    /\ \A k \in 1 .. n : g.node[i].blocks[k] = f.node[i].blocks[k]
    /\ \A j \in Ino \ {i} : g.node[j] = f.node[j]

LEMMA PrefixAgrees ==
    ASSUME NEW f \in FsType, NEW g \in FsType, NEW i \in File, NEW n \in Nat, NEW L \in Nat,
           Trimmed(f, i, n, L, g), Agrees(f)
    PROVE  Agrees(g)
<1> USE DEF Trimmed
<1>1. DOMAIN f.node[i].blocks = 1 .. L
  <2>1. f.node[i].blocks \in Seq(1 .. Blocks)
    BY NodeFacts DEF Ino
  <2> QED BY <2>1
<1>2. ASSUME NEW j \in File, NEW k \in DOMAIN g.node[j].blocks
      PROVE  /\ k \in DOMAIN f.node[j].blocks /\ g.node[j].blocks[k] = f.node[j].blocks[k]
             /\ j = i => k \in 1 .. n
  <2>1. CASE j = i
    <3>1. k \in 1 .. n
      BY <1>2, <2>1
    <3>2. k \in 1 .. L
      BY <3>1
    <3> QED BY <1>1, <2>1, <3>1, <3>2
  <2>2. CASE j # i
    <3>1. j \in Ino \ {i}
      BY <2>2 DEF Ino
    <3>2. g.node[j] = f.node[j]
      BY <3>1
    <3> QED BY <3>2, <1>2, <2>2
  <2> QED BY <2>1, <2>2
<1>3. ASSUME NEW j \in File, NEW k \in DOMAIN g.node[j].blocks
      PROVE  g.node[j].blocks[k] \notin g.free
  <2>1. /\ k \in DOMAIN f.node[j].blocks /\ g.node[j].blocks[k] = f.node[j].blocks[k]
        /\ j = i => k \in 1 .. n
    BY <1>2
  <2>2. f.node[j].blocks[k] \notin f.free
    BY <2>1 DEF Agrees
  <2>3. ASSUME NEW l \in n + 1 .. L, f.node[j].blocks[k] = f.node[i].blocks[l] PROVE FALSE
    <3>1. l \in 1 .. L
      OBVIOUS
    <3>2. j = i /\ k = l
      BY <1>1, <2>1, <2>3, <3>1 DEF Agrees
    <3>3. l \in 1 .. n
      BY <2>1, <3>2
    <3> QED BY <3>3
  <2> QED BY <2>1, <2>2, <2>3
<1>4. ASSUME NEW j \in File, NEW m \in File,
             NEW k \in DOMAIN g.node[j].blocks, NEW l \in DOMAIN g.node[m].blocks,
             g.node[j].blocks[k] = g.node[m].blocks[l]
      PROVE  j = m /\ k = l
  <2>1. k \in DOMAIN f.node[j].blocks /\ g.node[j].blocks[k] = f.node[j].blocks[k]
    BY <1>2
  <2>2. l \in DOMAIN f.node[m].blocks /\ g.node[m].blocks[l] = f.node[m].blocks[l]
    BY <1>2
  <2>3. f.node[j].blocks[k] = f.node[m].blocks[l]
    BY <1>4, <2>1, <2>2
  <2> QED BY <2>1, <2>2, <2>3 DEF Agrees
<1>5. g.unused = Cardinality(g.free)
  OBVIOUS
<1> QED
  <2> HIDE DEF Trimmed
  <2> QED BY <1>3, <1>4, <1>5 DEF Agrees

\* Giving back the last blocks, as far as sfs_bmap_free_nolock and bitmap_free assert
\* what they do.
LEMMA Shrunk ==
    ASSUME NEW f \in FsType, NEW i \in File, NEW n \in Nat, n <= Len(f.node[i].blocks),
           truncateAsserts(f, i, n)
    PROVE  Kept(f, i, shrunk(f, i, n))
<1>1. i \in Ino
  BY DEF Ino
<1>2. f.free \in SUBSET (1 .. Blocks) /\ f.unused \in Int /\ f.node[i].blocks \in Seq(1 .. Blocks)
  BY <1>1, NodeFacts
<1>3. PICK b \in Seq(1 .. Blocks) : b = f.node[i].blocks
  BY <1>2
<1>4. PICK L \in Nat : L = Len(b)
  OBVIOUS
<1>5. n <= L
  BY <1>3, <1>4
<1>6. /\ \A k \in n + 1 .. L : b[k] \notin f.free
      /\ \A k, l \in n + 1 .. L : b[k] = b[l] => k = l
  BY <1>3, <1>4 DEF truncateAsserts
<1> DEFINE R == {b[k] : k \in n + 1 .. L}
<1>7. R \in SUBSET (1 .. Blocks) /\ Cardinality(R) = L - n
  BY <1>4, <1>5, <1>6, GoneCount
<1>8. R \cap f.free = {}
  BY <1>6
<1>9. PICK B \in Seq(1 .. Blocks) : B = SubSeq(b, 1, n) /\ DOMAIN B = 1 .. n /\ \A k \in 1 .. n : B[k] = b[k]
  <2>1. n <= Len(b)
    BY <1>4, <1>5
  <2>2. PICK T : T = 1 .. Blocks
    OBVIOUS
  <2>3. b \in Seq(T)
    BY <2>2
  <2>4. \E B \in Seq(T) :
            B = SubSeq(b, 1, n) /\ DOMAIN B = 1 .. n /\ \A k \in 1 .. n : B[k] = b[k]
    BY ONLY <2>1, <2>3, n \in Nat, Prefix
  <2> QED BY <2>2, <2>4
<1>10. PICK F \in SUBSET (1 .. Blocks) : F = f.free \cup R
  BY <1>2, <1>7
<1>11. PICK U \in Int : U = f.unused + (L - n)
  BY <1>2
<1>12. shrunk(f, i, n) = with(f, i, F, U, B)
  <2>1. shrunk(f, i, n) = [f EXCEPT !.free = F, !.unused = U,
                                    !.node = [f.node EXCEPT ![i].blocks = B]]
    BY <1>3, <1>4, <1>9, <1>10, <1>11 DEF shrunk
  <2>2. f = [node |-> f.node, free |-> f.free, unused |-> f.unused]
    BY DEF FsType
  <2> QED BY <2>1, <2>2 DEF with
<1> DEFINE g == with(f, i, F, U, B)
<1>13. /\ g \in FsType /\ g.free = F /\ g.unused = U /\ SameCounts(f, g)
       /\ g.node[i].blocks = B /\ g.node[i].size = f.node[i].size
       /\ \A j \in Ino \ {i} : g.node[j] = f.node[j]
  BY <1>1, WithBlocks
<1> HIDE DEF g
<1>14. ASSUME Agrees(f) PROVE Agrees(g)
  <2>1. Cardinality(F) = Cardinality(f.free) + (L - n)
    <3> HIDE DEF R
    <3>1. IsFiniteSet(f.free) /\ Cardinality(f.free) \in Nat /\ IsFiniteSet(R)
      BY <1>2, <1>7, FreeFinite
    <3>2. Cardinality(f.free \cup R)
            = Cardinality(f.free) + Cardinality(R) - Cardinality(f.free \cap R)
      BY <3>1, FS_Union
    <3>3. f.free \cap R = {} /\ Cardinality({}) = 0
      BY <1>8, FS_EmptySet
    <3>4. PICK c \in Nat : c = Cardinality(f.free)
      BY <3>1
    <3>5. Cardinality(F) = c + (L - n) - 0
      BY <1>7, <1>10, <3>2, <3>3, <3>4
    <3>6. c + (L - n) - 0 = c + (L - n)
      OBVIOUS
    <3> QED BY <3>4, <3>5, <3>6
  <2>2. g.unused = Cardinality(g.free)
    BY <2>1, <1>11, <1>13, <1>14 DEF Agrees
  <2>3. L = Len(f.node[i].blocks) /\ g.free = f.free \cup {f.node[i].blocks[k] : k \in n + 1 .. L}
    BY <1>3, <1>4, <1>10, <1>13
  <2>4. DOMAIN g.node[i].blocks = 1 .. n /\ \A k \in 1 .. n : g.node[i].blocks[k] = f.node[i].blocks[k]
    BY <1>3, <1>9, <1>13
  <2>5. g \in FsType /\ (\A j \in Ino \ {i} : g.node[j] = f.node[j]) /\ n <= L
    BY <1>5, <1>13
  <2> HIDE DEF R
  <2>6. Trimmed(f, i, n, L, g)
    BY <2>2, <2>3, <2>4, <2>5 DEF Trimmed
  <2> QED BY <1>13, <1>14, <2>6, PrefixAgrees
<1>15. Kept(f, i, g)
  BY <1>13, <1>14 DEF Kept
<1> QED BY <1>12, <1>15 DEF g

\* A step on blocks or size that concerns no reference.
Neutral(f, g) == g \in FsType /\ SameCounts(f, g) /\ (Agrees(f) => Agrees(g))

LEMMA KeptNeutral ==
    ASSUME NEW f, NEW i, NEW g, Kept(f, i, g)
    PROVE  Neutral(f, g)
BY DEF Kept, Neutral

LEMMA NeutralTrans ==
    ASSUME NEW f, NEW g, NEW h, Neutral(f, g), Neutral(g, h)
    PROVE  Neutral(f, h)
BY DEF Neutral, SameCounts

LEMMA NewSize ==
    ASSUME NEW f \in FsType, NEW i \in Ino, NEW n \in Nat
    PROVE  Neutral(f, [f EXCEPT !.node[i].size = n])
<1>1. f.node[i] \in Node
  BY NodeFacts
<1>2. PICK nd \in Node : nd = [f.node[i] EXCEPT !.size = n]
  BY <1>1 DEF Node
<1>3. nd.ref = f.node[i].ref /\ nd.open = f.node[i].open /\ nd.blocks = f.node[i].blocks
  BY <1>1, <1>2 DEF Node
<1> DEFINE g == [f EXCEPT !.node[i] = nd]
<1>4. [f EXCEPT !.node[i].size = n] = g
  BY <1>2
<1>5. /\ g \in FsType /\ SameMap(f, g) /\ g.node[i] = nd
      /\ \A j \in Ino \ {i} : g.node[j] = f.node[j]
  BY WithNode
<1> HIDE DEF g
<1>6. ASSUME NEW j \in Ino
      PROVE  /\ g.node[j].ref = f.node[j].ref /\ g.node[j].open = f.node[j].open
             /\ g.node[j].blocks = f.node[j].blocks
  BY <1>3, <1>5
<1>7. SameCounts(f, g)
  BY <1>6 DEF SameCounts
<1>8. FewerFileBlocks(f, g)
  BY <1>5, <1>6 DEF FewerFileBlocks, Ino
<1> QED BY <1>4, <1>5, <1>7, <1>8, FewerAgrees DEF Neutral

LEMMA Truncate ==
    ASSUME NEW f \in FsType, NEW i \in File, NEW n \in Nat, truncateAsserts(f, i, n)
    PROVE  Neutral(f, sfs_truncfile(f, i, n))
<1>1. i \in Ino
  BY DEF Ino
<1>2. Len(f.node[i].blocks) \in Nat
  <2>1. f.node[i].blocks \in Seq(1 .. Blocks)
    BY <1>1, NodeFacts
  <2> QED BY <2>1
<1> DEFINE t == IF n > Len(f.node[i].blocks) THEN grown(f, i, n) ELSE shrunk(f, i, n)
<1>3. Kept(f, i, t)
  <2>1. CASE n > Len(f.node[i].blocks)
    BY <2>1, Grown
  <2>2. CASE ~(n > Len(f.node[i].blocks))
    <3>1. n <= Len(f.node[i].blocks)
      BY <1>2, <2>2
    <3> QED BY <2>2, <3>1, Shrunk
  <2> QED BY <2>1, <2>2
<1>4. sfs_truncfile(f, i, n) \in {f, t, [t EXCEPT !.node[i].size = n]}
  BY DEF sfs_truncfile
<1> HIDE DEF t
<1>5. Neutral(f, t) /\ t \in FsType
  BY <1>3, KeptNeutral DEF Kept
<1>6. Neutral(f, [t EXCEPT !.node[i].size = n])
  <2>1. PICK h : h = [t EXCEPT !.node[i].size = n]
    OBVIOUS
  <2>2. Neutral(t, h)
    BY <1>1, <1>5, <2>1, NewSize
  <2>3. Neutral(f, h)
    BY <1>5, <2>2, NeutralTrans
  <2> QED BY <2>1, <2>3
<1>7. Neutral(f, f)
  BY DEF Neutral, SameCounts
<1> QED BY <1>4, <1>5, <1>6, <1>7

LEMMA Write ==
    ASSUME NEW f \in FsType, NEW i \in File, NEW k \in Nat, ioAsserts(f, i, k)
    PROVE  Neutral(f, sfs_write(f, i, k))
<1>1. i \in Ino
  BY DEF Ino
<1> DEFINE t == IF k = Len(f.node[i].blocks) THEN sfs_block_alloc(f, i) ELSE f
<1>2. Kept(f, i, t)
  <2>1. CASE k = Len(f.node[i].blocks)
    <3>1. k \in Int /\ f.free # {}
      BY <2>1 DEF ioAsserts
    <3>2. Kept(f, i, f)
      BY KeptSelf
    <3> QED BY <2>1, <3>1, <3>2, KeptAlloc
  <2>2. CASE k # Len(f.node[i].blocks)
    BY <2>2, KeptSelf
  <2> QED BY <2>1, <2>2
<1>3. t \in FsType /\ Neutral(f, t)
  BY <1>2, KeptNeutral DEF Kept
<1>4. sfs_write(f, i, k)
        = [t EXCEPT !.node[i].size = IF k + 1 > t.node[i].size THEN k + 1 ELSE t.node[i].size]
  BY DEF sfs_write
<1> HIDE DEF t
<1>5. PICK n \in Nat : n = IF k + 1 > t.node[i].size THEN k + 1 ELSE t.node[i].size
  BY <1>1, <1>3, NodeFacts
<1>6. PICK h : h = [t EXCEPT !.node[i].size = n]
  OBVIOUS
<1>7. Neutral(t, h)
  BY <1>1, <1>3, <1>6, NewSize
<1>8. Neutral(f, h)
  BY <1>3, <1>7, NeutralTrans
<1> QED BY <1>4, <1>5, <1>6, <1>8

\* An open takes one reference and one open count; it only disturbs the agreement
\* when it reads a file from the disk.
LEMMA Open ==
    ASSUME NEW f \in FsType, NEW i \in Ino, NEW mode, f.node[i].ref \in Nat,
           f.node[i].ref = 0 => f.node[i].open = 0,
           mode \in Truncating => i \in File /\ truncateAsserts(sfs_load_inode(f, i), i, 0)
    PROVE  LET g == vfs_open(f, i, mode)
           IN  /\ g \in FsType
               /\ \A j \in Ino : /\ g.node[j].ref = f.node[j].ref + one(i, j)
                                 /\ g.node[j].open = f.node[j].open + one(i, j)
               /\ (i \notin File \/ f.node[i].ref > 0) /\ Agrees(f) => Agrees(g)
<1>1. PICK l : l = sfs_load_inode(f, i)
  OBVIOUS
<1>2. /\ l \in FsType /\ SameMap(f, l)
      /\ \A j \in Ino : /\ l.node[j].ref = f.node[j].ref + one(i, j)
                        /\ l.node[j].open = f.node[j].open
                        /\ (j # i \/ f.node[i].ref > 0) => l.node[j].blocks = f.node[j].blocks
  BY <1>1, Load
<1>3. PICK o : o = inode_open_inc(l, i)
  OBVIOUS
<1>4. /\ o \in FsType /\ SameBlocks(l, o) /\ o.node[i].size = l.node[i].size
      /\ \A j \in Ino : /\ o.node[j].ref = l.node[j].ref
                        /\ o.node[j].open = l.node[j].open + one(i, j)
  BY <1>2, <1>3, OpenInc
<1>5. \A j \in Ino : /\ o.node[j].ref = f.node[j].ref + one(i, j)
                     /\ o.node[j].open = f.node[j].open + one(i, j)
  BY <1>2, <1>4
<1>6. ASSUME i \notin File \/ f.node[i].ref > 0, Agrees(f) PROVE Agrees(o)
  <2>1. \A j \in File : o.node[j].blocks = f.node[j].blocks
    BY <1>2, <1>4, <1>6 DEF SameBlocks, Ino
  <2>2. FewerFileBlocks(f, o)
    BY <1>2, <1>4, <2>1 DEF FewerFileBlocks, SameBlocks, SameMap
  <2> QED BY <1>6, <2>2, FewerAgrees
<1>7. CASE mode \in Truncating
  <2>1. i \in File /\ truncateAsserts(l, i, 0)
    BY <1>1, <1>7
  <2>2. truncateAsserts(o, i, 0)
    BY <1>4, <2>1 DEF truncateAsserts, SameBlocks, SameMap
  <2>3. PICK g : g = sfs_truncfile(o, i, 0)
    OBVIOUS
  <2>4. Neutral(o, g)
    BY <1>4, <2>1, <2>2, <2>3, Truncate
  <2>5. vfs_open(f, i, mode) = g
    BY <1>1, <1>3, <1>7, <2>3 DEF vfs_open
  <2>6. /\ g \in FsType
        /\ \A j \in Ino : /\ g.node[j].ref = f.node[j].ref + one(i, j)
                          /\ g.node[j].open = f.node[j].open + one(i, j)
        /\ (i \notin File \/ f.node[i].ref > 0) /\ Agrees(f) => Agrees(g)
    BY <1>5, <1>6, <2>4 DEF Neutral, SameCounts
  <2> QED BY <2>5, <2>6
<1>8. CASE mode \notin Truncating
  <2>1. vfs_open(f, i, mode) = o
    BY <1>1, <1>3, <1>8 DEF vfs_open
  <2> QED BY <2>1, <1>4, <1>5, <1>6
<1> QED BY <1>7, <1>8

-----------------------------------------------------------------------------
\* The exact counts, of any state of the four variables.
Exact(f, F, P, l) ==
    \A i \in Ino : /\ f.node[i].open = total(F, i)
                   /\ f.node[i].ref = total(F, i) + count(Proc, P, i) + permanent(i) + l[i]

LEMMA ExactIsRefs == RefsExact <=> Exact(s, fd, pwd, lost)
BY DEF RefsExact, Exact, total, count

LEMMA ExactIsRefsNext == RefsExact' <=> Exact(s', fd', pwd', lost')
BY DEF RefsExact, Exact, total, count

\* A descriptor that names an inode counts, and so does a current directory.
LEMMA CountAtLeast ==
    ASSUME NEW S, IsFiniteSet(S), NEW f, NEW x \in S, NEW i
    PROVE  count(S, f, i) >= one(f[x], i)
<1> DEFINE A == {y \in S : f[y] = i}
<1>1. IsFiniteSet(A) /\ Cardinality(A) \in Nat /\ count(S, f, i) = Cardinality(A)
  BY CountNat DEF count
<1>2. CASE f[x] = i
  <2>1. A # {}
    BY <1>2
  <2> HIDE DEF A
  <2>2. Cardinality(A) # 0
    BY <1>1, <2>1, FS_EmptySet
  <2> QED BY <1>1, <1>2, <2>2 DEF one
<1>3. CASE f[x] # i
  <2> HIDE DEF A
  <2> QED BY <1>1, <1>3 DEF one
<1> QED BY <1>2, <1>3

\* Nothing in a table of closed descriptors.
LEMMA UsesNone ==
    ASSUME NEW t, \A n \in Fd : t[n] = Unused, NEW i \in Ino
    PROVE  uses(t, Fd, i) = 0
<1>1. {n \in Fd : t[n].node = i} = {}
  BY FilesAssumption DEF Unused
<1> QED BY <1>1, FS_EmptySet DEF uses

LEMMA TotalAtLeast ==
    ASSUME NEW F \in [Proc -> Table], NEW p \in Proc, NEW i \in Ino
    PROVE  total(F, i) >= uses(F[p], Fd, i)
<1>1. PICK T : T = [n \in Fd |-> Unused]
  OBVIOUS
<1>2. PICK G : G = [F EXCEPT ![p] = T]
  OBVIOUS
<1>3. OnlyAt(Proc, p, F, G) /\ OnlyAt(Proc, p, G, F) /\ G[p] = T
  BY <1>2 DEF OnlyAt
<1>4. total(F, i) \in Nat /\ total(G, i) = total(F, i) - uses(F[p], Fd, i) + uses(G[p], Fd, i)
  BY <1>3, TotalChanges
<1>5. total(G, i) \in Nat
  BY <1>3, TotalChanges
<1>6. uses(G[p], Fd, i) = 0
  <2>1. \A n \in Fd : G[p][n] = Unused
    BY <1>1, <1>3
  <2> QED BY <2>1, UsesNone
<1>7. uses(F[p], Fd, i) \in Nat
  <2>1. Fd \in SUBSET Fd
    OBVIOUS
  <2> QED BY <2>1, UsesNat
<1> QED BY <1>4, <1>5, <1>6, <1>7

LEMMA UsesPart ==
    ASSUME NEW t, NEW ns \in SUBSET Fd, NEW i \in Ino
    PROVE  uses(t, ns, i) \in Nat /\ uses(t, Fd, i) \in Nat /\ uses(t, ns, i) <= uses(t, Fd, i)
<1>1. Fd \in SUBSET Fd
  OBVIOUS
<1>2. PICK c : c = closed(t, ns)
  OBVIOUS
<1>3. uses(c, Fd, i) = uses(t, Fd, i) - uses(t, ns, i)
  BY <1>2, UsesClosed
<1>4. uses(c, Fd, i) \in Nat /\ uses(t, Fd, i) \in Nat /\ uses(t, ns, i) \in Nat
  BY <1>1, UsesNat
<1> QED BY <1>3, <1>4

\* What the invariant says of one inode and one process.
LEMMA Bounds ==
    ASSUME FilesInv, NEW p \in Proc, NEW i \in Ino
    PROVE  /\ s.node[i].ref \in Nat /\ s.node[i].open \in Nat
           /\ s.node[i].open >= uses(fd[p], Fd, i)
           /\ s.node[i].ref >= s.node[i].open + one(pwd[p], i)
           /\ uses(fd[p], Fd, i) \in Nat /\ one(pwd[p], i) \in Nat
<1>1. Exact(s, fd, pwd, lost)
  BY ExactIsRefs DEF FilesInv
<1>2. s.node[i].open = total(fd, i)
      /\ s.node[i].ref = total(fd, i) + count(Proc, pwd, i) + permanent(i) + lost[i]
  BY <1>1 DEF Exact
<1>3. permanent(i) \in Nat /\ lost[i] \in Nat
  BY DEF FilesInv, TypeOK, permanent
<1>4. IsFiniteSet(Proc)
  BY FilesAssumption
<1>5. count(Proc, pwd, i) \in Nat /\ count(Proc, pwd, i) >= one(pwd[p], i) /\ one(pwd[p], i) \in Nat
  BY <1>4, CountNat, CountAtLeast DEF one
<1>6. fd \in [Proc -> Table]
  BY DEF FilesInv, TypeOK
<1>7. total(fd, i) >= uses(fd[p], Fd, i)
  BY <1>6, TotalAtLeast
<1>8. total(fd, i) \in Nat
  <2>1. OnlyAt(Proc, p, fd, fd)
    BY DEF OnlyAt
  <2> QED BY <2>1, TotalChanges
<1>9. uses(fd[p], Fd, i) \in Nat
  <2>1. Fd \in SUBSET Fd
    OBVIOUS
  <2> QED BY <2>1, UsesNat
<1> QED BY <1>2, <1>3, <1>5, <1>7, <1>8, <1>9

\* What a step of process p does to the counts: its table becomes T, its directory A.
Moves(p, T, A, g, m) ==
    \A i \in Ino :
        /\ g.node[i].open = s.node[i].open - uses(fd[p], Fd, i) + uses(T, Fd, i)
        /\ g.node[i].ref = s.node[i].ref - uses(fd[p], Fd, i) + uses(T, Fd, i)
                           - one(pwd[p], i) + one(A, i) - lost[i] + m[i]

LEMMA OneTable ==
    ASSUME NEW R, NEW F \in [Proc -> R], NEW p \in Proc, NEW T \in R
    PROVE  LET G == [F EXCEPT ![p] = T]
           IN  G \in [Proc -> R] /\ G[p] = T /\ \A q \in Proc \ {p} : G[q] = F[q]
OBVIOUS

LEMMA Step ==
    ASSUME FilesInv, NEW p \in Proc, NEW T \in Table, NEW A \in Dir \cup {NULL},
           NEW g \in FsType, NEW m \in [Ino -> Nat],
           Moves(p, T, A, g, m), A = NULL => \A n \in Fd : T[n] = Unused,
           fd' = [fd EXCEPT ![p] = T], pwd' = [pwd EXCEPT ![p] = A], s' = g, lost' = m
    PROVE  FilesInv'
<1>1. fd \in [Proc -> Table] /\ pwd \in [Proc -> Dir \cup {NULL}] /\ s \in FsType
      /\ lost \in [Ino -> Nat]
  BY DEF FilesInv, TypeOK
<1>2. fd' \in [Proc -> Table] /\ fd'[p] = T /\ \A q \in Proc \ {p} : fd'[q] = fd[q]
  BY <1>1, OneTable
<1>3. /\ pwd' \in [Proc -> Dir \cup {NULL}] /\ pwd'[p] = A
      /\ \A q \in Proc \ {p} : pwd'[q] = pwd[q]
  BY <1>1, OneTable
<1>4. TypeOK'
  BY <1>2, <1>3 DEF TypeOK
<1>5. NoFiles'
  <2> SUFFICES ASSUME NEW q \in Proc, pwd'[q] = NULL, NEW n \in Fd PROVE fd'[q][n] = Unused
    BY DEF NoFiles, Live
  <2>1. CASE q = p
    BY <1>2, <1>3, <2>1
  <2>2. CASE q # p
    BY <1>2, <1>3, <2>2 DEF FilesInv, NoFiles, Live
  <2> QED BY <2>1, <2>2
<1>6. RefsExact'
  <2> SUFFICES ASSUME NEW i \in Ino
               PROVE  /\ s'.node[i].open = total(fd', i)
                      /\ s'.node[i].ref = total(fd', i) + count(Proc, pwd', i) + permanent(i)
                                          + lost'[i]
    BY ExactIsRefsNext DEF Exact
  <2>1. /\ s.node[i].open = total(fd, i)
        /\ s.node[i].ref = total(fd, i) + count(Proc, pwd, i) + permanent(i) + lost[i]
    BY ExactIsRefs DEF FilesInv, Exact
  <2>2. total(fd, i) \in Nat
        /\ total(fd', i) = total(fd, i) - uses(fd[p], Fd, i) + uses(fd'[p], Fd, i)
    <3>1. PICK F, G : F = fd /\ G = fd'
      OBVIOUS
    <3>2. OnlyAt(Proc, p, F, G)
      BY <1>2, <3>1 DEF OnlyAt
    <3>3. total(F, i) \in Nat /\ total(G, i) = total(F, i) - uses(F[p], Fd, i) + uses(G[p], Fd, i)
      BY <3>2, TotalChanges
    <3> QED BY ONLY <3>1, <3>3
  <2>3. IsFiniteSet(Proc)
    BY FilesAssumption
  <2>4. count(Proc, pwd', i) = count(Proc, pwd, i) - one(pwd[p], i) + one(pwd'[p], i)
    <3>1. PICK F, G : F = pwd /\ G = pwd'
      OBVIOUS
    <3>2. OnlyAt(Proc, p, F, G)
      BY <1>3, <3>1 DEF OnlyAt
    <3>3. count(Proc, G, i) = count(Proc, F, i) - one(F[p], i) + one(G[p], i)
      BY <2>3, <3>2, CountChanges
    <3> QED BY ONLY <3>1, <3>3
  <2>5. count(Proc, pwd, i) \in Nat
    BY <2>3, CountNat
  <2>6. Fd \in SUBSET Fd
    OBVIOUS
  <2>7. uses(fd[p], Fd, i) \in Nat /\ uses(T, Fd, i) \in Nat
    BY <2>6, UsesNat
  <2>8. one(pwd[p], i) \in Int /\ one(A, i) \in Int /\ permanent(i) \in Int
        /\ lost[i] \in Int /\ m[i] \in Int
    BY <1>1 DEF one, permanent
  <2>9. /\ s'.node[i].open = s.node[i].open - uses(fd[p], Fd, i) + uses(T, Fd, i)
        /\ s'.node[i].ref = s.node[i].ref - uses(fd[p], Fd, i) + uses(T, Fd, i)
                            - one(pwd[p], i) + one(A, i) - lost[i] + m[i]
    BY DEF Moves
  <2>10. total(fd', i) = total(fd, i) - uses(fd[p], Fd, i) + uses(T, Fd, i)
         /\ count(Proc, pwd', i) = count(Proc, pwd, i) - one(pwd[p], i) + one(A, i)
         /\ lost'[i] = m[i]
    BY <1>2, <1>3, <2>2, <2>4
  <2> QED BY <2>1, <2>2, <2>5, <2>7, <2>8, <2>9, <2>10
<1> QED BY <1>4, <1>5, <1>6 DEF FilesInv

-----------------------------------------------------------------------------
\* One action at a time: the invariant, and the agreement of map and inodes.
KeepsMap == MapExact => MapExact' \/ \E i \in File : Reread(i)

LEMMA AgreesIsMap == MapExact <=> Agrees(s)
BY DEF MapExact, Agrees

LEMMA AgreesIsMapNext == MapExact' <=> Agrees(s')
BY DEF MapExact, Agrees

LEMMA KeepsByAgrees ==
    ASSUME Agrees(s) => Agrees(s')
    PROVE  KeepsMap
BY AgreesIsMap, AgreesIsMapNext DEF KeepsMap

LEMMA KeepsByFewer ==
    ASSUME FewerBlocks(s, s')
    PROVE  KeepsMap
<1>1. PICK f, g : f = s /\ g = s'
  OBVIOUS
<1>2. FewerFileBlocks(f, g)
  BY <1>1 DEF FewerBlocks, FewerFileBlocks, Ino
<1>3. Agrees(f) => Agrees(g)
  BY <1>2, FewerAgrees
<1> QED BY <1>1, <1>3, KeepsByAgrees

\* A descriptor that fd_array_alloc returns is free.
LEMMA DescAlloc ==
    ASSUME NEW t, hasFree(t)
    PROVE  fd_array_alloc(t) \in Fd /\ t[fd_array_alloc(t)].node = NULL
<1> DEFINE S == {n \in Fd : t[n].node = NULL}
<1>1. S \in SUBSET Nat /\ S # {}
  BY DEF hasFree, Fd
<1>2. fd_array_alloc(t) = Min(S)
  BY DEF fd_array_alloc
<1>3. Min(S) \in S
  <2> HIDE DEF S
  <2>1. \E k \in S : \A j \in S : k <= j
    BY <1>1, LeastNumber
  <2> QED BY <2>1 DEF Min
<1> QED BY <1>2, <1>3

\* One descriptor of a table changes.
LEMMA OneDesc ==
    ASSUME NEW t \in Table, NEW n \in Fd, NEW d \in Desc
    PROVE  \E u \in Table : /\ u = [t EXCEPT ![n] = d] /\ u[n] = d
                            /\ \A i : uses(u, Fd, i)
                                      = uses(t, Fd, i) - one(t[n].node, i) + one(d.node, i)
<1>1. PICK u : u = [t EXCEPT ![n] = d]
  OBVIOUS
<1>2. u \in Table /\ u[n] = d /\ OnlyAt(Fd, n, t, u)
  BY <1>1 DEF Table, OnlyAt
<1>3. ASSUME NEW i PROVE uses(u, Fd, i) = uses(t, Fd, i) - one(t[n].node, i) + one(d.node, i)
  <2>1. uses(u, Fd, i) = uses(t, Fd, i) - one(t[n].node, i) + one(u[n].node, i)
    BY <1>2, UsesChange
  <2> QED BY <1>2, <2>1
<1> QED BY <1>1, <1>2, <1>3

LEMMA OneNat == ASSUME NEW a, NEW i PROVE one(a, i) \in Nat
BY DEF one

LEMMA OneNull == ASSUME NEW i \in Ino PROVE one(NULL, i) = 0
BY FilesAssumption DEF one

\* The parts of the state that belong to one process.
LEMMA Mine ==
    ASSUME FilesInv, NEW p \in Proc
    PROVE  /\ fd[p] \in Table /\ pwd[p] \in Dir \cup {NULL} /\ s \in FsType
           /\ lost \in [Ino -> Nat] /\ fd = [fd EXCEPT ![p] = fd[p]]
           /\ pwd = [pwd EXCEPT ![p] = pwd[p]]
           /\ \A n \in Fd : fd[p][n] \in Desc /\ fd[p][n].node \in Ino \cup {NULL}
                            /\ fd[p][n].pos \in Nat
BY DEF FilesInv, TypeOK, Table, Desc

LEMMA OpenStep ==
    ASSUME FilesInv, NEW p \in Proc, NEW i \in Ino, NEW mode, file_open(p, i, mode)
    PROVE  FilesInv' /\ KeepsMap
<1>1. PICK n : n = fd_array_alloc(fd[p])
  OBVIOUS
<1>2. n \in Fd /\ fd[p][n].node = NULL
  BY <1>1, DescAlloc DEF file_open
<1>3. PICK g : g = vfs_open(s, i, mode)
  OBVIOUS
<1>4. /\ s.node[i].ref \in Nat /\ s.node[i].open \in Nat
      /\ s.node[i].ref = 0 => s.node[i].open = 0
  <2>1. PICK r, o, w : r = s.node[i].ref /\ o = s.node[i].open /\ w = one(pwd[p], i)
    OBVIOUS
  <2>2. r \in Nat /\ o \in Nat /\ w \in Nat /\ r >= o + w
    BY <2>1, Bounds
  <2> QED BY <2>1, <2>2
<1>5. mode \in Truncating => i \in File /\ truncateAsserts(sfs_load_inode(s, i), i, 0)
  BY DEF file_open, Modes, Truncating
<1>6. s \in FsType
  BY Mine
<1>7. /\ g \in FsType
      /\ \A j \in Ino : /\ g.node[j].ref = s.node[j].ref + one(i, j)
                        /\ g.node[j].open = s.node[j].open + one(i, j)
      /\ (i \notin File \/ s.node[i].ref > 0) /\ Agrees(s) => Agrees(g)
  BY <1>3, <1>4, <1>5, <1>6, Open
<1>8. PICK d \in Desc : d = [node |-> i, pos |-> IF mode = "append" THEN g.node[i].size ELSE 0,
                             w |-> mode \notin {"r", "create"}]
  <2>1. PICK z \in Nat : z = IF mode = "append" THEN g.node[i].size ELSE 0
    BY <1>7, NodeFacts
  <2>2. PICK w \in BOOLEAN : w = (mode \notin {"r", "create"})
    OBVIOUS
  <2> QED BY <2>1, <2>2 DEF Desc
<1>9. s' = g /\ fd' = [fd EXCEPT ![p][n] = d] /\ pwd' = pwd /\ lost' = lost /\ Live(p)
  BY <1>1, <1>3, <1>8 DEF file_open
<1>10. fd[p] \in Table
  BY Mine
<1>11. PICK T \in Table : /\ T = [fd[p] EXCEPT ![n] = d]
                          /\ \A j : uses(T, Fd, j) = uses(fd[p], Fd, j) - one(fd[p][n].node, j)
                                                     + one(d.node, j)
  BY <1>2, <1>10, OneDesc
<1>12. FilesInv'
  <2>1. fd' = [fd EXCEPT ![p] = T]
    BY <1>9, <1>11
  <2>2. pwd' = [pwd EXCEPT ![p] = pwd[p]] /\ pwd[p] \in Dir \cup {NULL} /\ pwd[p] # NULL
    BY <1>9, Mine DEF Live
  <2>3. Moves(p, T, pwd[p], g, lost)
    <3> SUFFICES ASSUME NEW j \in Ino
                 PROVE  /\ g.node[j].open = s.node[j].open - uses(fd[p], Fd, j) + uses(T, Fd, j)
                        /\ g.node[j].ref = s.node[j].ref - uses(fd[p], Fd, j) + uses(T, Fd, j)
                               - one(pwd[p], j) + one(pwd[p], j) - lost[j] + lost[j]
      BY DEF Moves
    <3>1. uses(T, Fd, j) = uses(fd[p], Fd, j) - one(fd[p][n].node, j) + one(d.node, j)
      BY <1>11
    <3>2. one(fd[p][n].node, j) = 0
      BY <1>2, OneNull
    <3>3. d.node = i
      BY <1>8
    <3>4. /\ uses(fd[p], Fd, j) \in Nat /\ one(i, j) \in Nat /\ one(pwd[p], j) \in Nat
          /\ s.node[j].ref \in Nat /\ s.node[j].open \in Nat /\ lost[j] \in Nat
      BY Bounds, Mine, OneNat
    <3> QED BY <1>7, <3>1, <3>2, <3>3, <3>4
  <2>4. lost \in [Ino -> Nat]
    BY Mine
  <2> QED BY ZenonT(30), <1>7, <1>9, <2>1, <2>2, <2>3, <2>4, Step
<1>13. KeepsMap
  <2>1. CASE i \notin File \/ s.node[i].ref > 0
    BY <1>7, <1>9, <2>1, KeepsByAgrees
  <2>2. CASE i \in File /\ ~(s.node[i].ref > 0)
    <3>1. s.node[i].ref = 0
      BY <1>4, <2>2
    <3>2. one(i, i) = 1
      BY DEF one
    <3>3. s'.node[i].ref > 0
      BY <1>7, <1>9, <3>1, <3>2
    <3> QED BY <2>2, <3>1, <3>3 DEF KeepsMap, Reread
  <2> QED BY <2>1, <2>2
<1> QED BY <1>12, <1>13

\* O_CREAT with O_EXCL: the reference is lost, and counted as such.
LEMMA ExistsStep ==
    ASSUME FilesInv, NEW p \in Proc, NEW i \in Ino, vfs_open_Exists(p, i)
    PROVE  FilesInv' /\ KeepsMap
<1>1. s \in FsType /\ lost \in [Ino -> Nat] /\ fd[p] \in Table /\ pwd[p] \in Dir \cup {NULL}
  BY Mine
<1>2. PICK g : g = sfs_load_inode(s, i)
  OBVIOUS
<1>3. /\ s.node[i].ref \in Nat /\ s.node[i].open \in Nat
      /\ s.node[i].ref = 0 => s.node[i].open = 0
  <2>1. PICK r, o, w : r = s.node[i].ref /\ o = s.node[i].open /\ w = one(pwd[p], i)
    OBVIOUS
  <2>2. r \in Nat /\ o \in Nat /\ w \in Nat /\ r >= o + w
    BY <2>1, Bounds
  <2> QED BY <2>1, <2>2
<1>4. /\ g \in FsType /\ SameMap(s, g)
      /\ \A j \in Ino : /\ g.node[j].ref = s.node[j].ref + one(i, j)
                        /\ g.node[j].open = s.node[j].open
                        /\ (j # i \/ s.node[i].ref > 0) => g.node[j].blocks = s.node[j].blocks
  BY <1>1, <1>2, <1>3, Load
<1>5. PICK m \in [Ino -> Nat] : m = [lost EXCEPT ![i] = lost[i] + 1]
  <2>1. PICK z \in Nat : z = lost[i] + 1
    BY <1>1
  <2>2. PICK m : m = [lost EXCEPT ![i] = z]
    OBVIOUS
  <2>3. m \in [Ino -> Nat]
    BY <1>1, <2>2
  <2> QED BY <2>1, <2>2, <2>3
<1>6. s' = g /\ lost' = m /\ fd' = fd /\ pwd' = pwd /\ pwd[p] # NULL
  BY <1>2, <1>5 DEF vfs_open_Exists, Live
<1>7. FilesInv'
  <2>1. fd' = [fd EXCEPT ![p] = fd[p]] /\ pwd' = [pwd EXCEPT ![p] = pwd[p]]
    BY <1>6, Mine
  <2>2. Moves(p, fd[p], pwd[p], g, m)
    <3> SUFFICES ASSUME NEW j \in Ino
                 PROVE  /\ g.node[j].open = s.node[j].open - uses(fd[p], Fd, j) + uses(fd[p], Fd, j)
                        /\ g.node[j].ref = s.node[j].ref - uses(fd[p], Fd, j) + uses(fd[p], Fd, j)
                               - one(pwd[p], j) + one(pwd[p], j) - lost[j] + m[j]
      BY DEF Moves
    <3>1. m[j] = lost[j] + one(i, j)
      <4>1. lost[j] \in Nat
        BY <1>1
      <4> QED BY <1>1, <1>5, <4>1 DEF one
    <3>2. /\ uses(fd[p], Fd, j) \in Nat /\ one(i, j) \in Nat /\ one(pwd[p], j) \in Nat
          /\ s.node[j].ref \in Nat /\ s.node[j].open \in Nat /\ lost[j] \in Nat
      BY <1>1, Bounds, OneNat
    <3> QED BY <1>4, <3>1, <3>2
  <2>3. PICK T \in Table, A \in Dir \cup {NULL} : T = fd[p] /\ A = pwd[p]
    BY <1>1
  <2>4. Moves(p, T, A, g, m) /\ fd' = [fd EXCEPT ![p] = T] /\ pwd' = [pwd EXCEPT ![p] = A] /\ A # NULL
    BY <1>6, <2>1, <2>2, <2>3
  <2> QED BY ZenonT(30), <1>4, <1>6, <2>4, Step
<1>8. KeepsMap
  <2>1. CASE i \notin File \/ s.node[i].ref > 0
    <3>1. FewerFileBlocks(s, g)
      BY <1>4, <2>1 DEF FewerFileBlocks, Ino
    <3>2. Agrees(s) => Agrees(g)
      BY <3>1, FewerAgrees
    <3> QED BY <1>6, <3>2, KeepsByAgrees
  <2>2. CASE i \in File /\ ~(s.node[i].ref > 0)
    <3>1. s.node[i].ref = 0
      BY <1>3, <2>2
    <3>2. one(i, i) = 1
      BY DEF one
    <3>3. s'.node[i].ref > 0
      BY <1>4, <1>6, <3>1, <3>2
    <3> QED BY <2>2, <3>1, <3>3 DEF KeepsMap, Reread
  <2> QED BY <2>1, <2>2
<1> QED BY <1>7, <1>8

LEMMA CloseStep ==
    ASSUME FilesInv, NEW p \in Proc, NEW n \in Fd, file_close(p, n)
    PROVE  FilesInv' /\ KeepsMap
<1>1. s \in FsType /\ lost \in [Ino -> Nat] /\ fd[p] \in Table /\ pwd[p] \in Dir \cup {NULL}
  BY Mine
<1>2. PICK i \in Ino : i = fd[p][n].node
  BY Mine DEF file_close, Opened
<1>3. PICK g : g = vfs_close(s, i)
  OBVIOUS
<1>4. Unused \in Desc /\ Unused.node = NULL
  BY DEF Unused, Desc
<1>5. PICK T \in Table : /\ T = [fd[p] EXCEPT ![n] = Unused]
                         /\ \A j : uses(T, Fd, j) = uses(fd[p], Fd, j) - one(fd[p][n].node, j)
                                                    + one(Unused.node, j)
  BY <1>1, <1>4, OneDesc
<1>6. closed(fd[p], {n}) = T
  BY <1>1, <1>5 DEF closed, Table
<1>7. s' = g /\ fd' = [fd EXCEPT ![p] = T] /\ lost' = lost /\ pwd' = pwd /\ pwd[p] # NULL
  BY <1>2, <1>3, <1>6 DEF file_close, Live
<1>8. ASSUME NEW j \in Ino
      PROVE  uses(T, Fd, j) = uses(fd[p], Fd, j) - one(i, j) /\ uses(T, Fd, j) \in Nat
             /\ uses(fd[p], Fd, j) \in Nat /\ one(i, j) \in Nat
  <2>1. Fd \in SUBSET Fd
    OBVIOUS
  <2>2. uses(T, Fd, j) \in Nat /\ uses(fd[p], Fd, j) \in Nat /\ one(i, j) \in Nat
    BY <2>1, UsesNat, OneNat
  <2>3. uses(T, Fd, j) = uses(fd[p], Fd, j) - one(i, j) + 0
    BY <1>2, <1>4, <1>5, OneNull
  <2> QED BY <2>2, <2>3
<1>9. s.node[i].ref = 1 => s.node[i].open = 1
  <2>1. one(i, i) = 1
    BY DEF one
  <2>2. uses(fd[p], Fd, i) >= 1
    BY <1>8, <2>1
  <2>3. PICK r, o, u, w : r = s.node[i].ref /\ o = s.node[i].open /\ w = one(pwd[p], i)
                          /\ u = uses(fd[p], Fd, i)
    OBVIOUS
  <2>4. r \in Nat /\ o \in Nat /\ u \in Nat /\ w \in Nat /\ o >= u /\ r >= o + w
    BY <2>3, Bounds
  <2> QED BY <2>2, <2>3, <2>4
<1>10. /\ g \in FsType /\ FewerBlocks(s, g)
       /\ \A j \in Ino : /\ g.node[j].ref = s.node[j].ref - one(i, j)
                         /\ g.node[j].open = s.node[j].open - one(i, j)
  BY <1>1, <1>3, <1>9, Close
<1>11. FilesInv'
  <2>1. pwd' = [pwd EXCEPT ![p] = pwd[p]]
    BY <1>7, Mine
  <2>2. Moves(p, T, pwd[p], g, lost)
    <3> SUFFICES ASSUME NEW j \in Ino
                 PROVE  /\ g.node[j].open = s.node[j].open - uses(fd[p], Fd, j) + uses(T, Fd, j)
                        /\ g.node[j].ref = s.node[j].ref - uses(fd[p], Fd, j) + uses(T, Fd, j)
                               - one(pwd[p], j) + one(pwd[p], j) - lost[j] + lost[j]
      BY DEF Moves
    <3>1. /\ one(pwd[p], j) \in Nat
          /\ s.node[j].ref \in Nat /\ s.node[j].open \in Nat /\ lost[j] \in Nat
      BY <1>1, Bounds
    <3>2. uses(T, Fd, j) = uses(fd[p], Fd, j) - one(i, j) /\ uses(T, Fd, j) \in Nat
          /\ uses(fd[p], Fd, j) \in Nat /\ one(i, j) \in Nat
      BY <1>8
    <3>3. /\ g.node[j].ref = s.node[j].ref - one(i, j)
          /\ g.node[j].open = s.node[j].open - one(i, j)
      BY <1>10
    <3> QED BY <3>1, <3>2, <3>3
  <2> QED BY <1>1, <1>7, <1>10, <2>1, <2>2, Step
<1>12. KeepsMap
  BY <1>7, <1>10, KeepsByFewer
<1> QED BY <1>11, <1>12

\* Reads, writes and seeks move a position, and may change blocks.
LEMMA Positioned ==
    ASSUME FilesInv, NEW p \in Proc, NEW n \in Fd, NEW d \in Desc, d.node = fd[p][n].node,
           NEW g, Neutral(s, g), s' = g, fd' = [fd EXCEPT ![p][n] = d], pwd' = pwd,
           lost' = lost, Live(p)
    PROVE  FilesInv' /\ KeepsMap
<1>1. s \in FsType /\ lost \in [Ino -> Nat] /\ fd[p] \in Table /\ pwd[p] \in Dir \cup {NULL}
  BY Mine
<1>2. PICK T \in Table : /\ T = [fd[p] EXCEPT ![n] = d]
                         /\ \A j : uses(T, Fd, j) = uses(fd[p], Fd, j) - one(fd[p][n].node, j)
                                                    + one(d.node, j)
  BY <1>1, OneDesc
<1>3. g \in FsType /\ SameCounts(s, g) /\ (Agrees(s) => Agrees(g))
  BY DEF Neutral
<1>4. fd' = [fd EXCEPT ![p] = T] /\ pwd' = [pwd EXCEPT ![p] = pwd[p]] /\ pwd[p] # NULL
  BY <1>2, Mine DEF Live
<1>5. Moves(p, T, pwd[p], g, lost)
  <2> SUFFICES ASSUME NEW j \in Ino
               PROVE  /\ g.node[j].open = s.node[j].open - uses(fd[p], Fd, j) + uses(T, Fd, j)
                      /\ g.node[j].ref = s.node[j].ref - uses(fd[p], Fd, j) + uses(T, Fd, j)
                             - one(pwd[p], j) + one(pwd[p], j) - lost[j] + lost[j]
    BY DEF Moves
  <2>1. /\ uses(fd[p], Fd, j) \in Nat /\ one(d.node, j) \in Nat /\ one(pwd[p], j) \in Nat
        /\ s.node[j].ref \in Nat /\ s.node[j].open \in Nat /\ lost[j] \in Nat
    BY <1>1, Bounds, OneNat
  <2>2. uses(T, Fd, j) = uses(fd[p], Fd, j) - one(d.node, j) + one(d.node, j)
    BY <1>2
  <2>3. g.node[j].ref = s.node[j].ref /\ g.node[j].open = s.node[j].open
    BY <1>3 DEF SameCounts
  <2> QED BY <2>1, <2>2, <2>3
<1>6. FilesInv'
  BY <1>1, <1>3, <1>4, <1>5, Step
<1> QED BY <1>3, <1>6, KeepsByAgrees

LEMMA NewPos ==
    ASSUME NEW d \in Desc, NEW k \in Nat
    PROVE  \E e \in Desc : e = [d EXCEPT !.pos = k] /\ e.node = d.node
<1>1. PICK e : e = [d EXCEPT !.pos = k]
  OBVIOUS
<1>2. e \in Desc /\ e.node = d.node
  BY <1>1 DEF Desc
<1> QED BY <1>1, <1>2

LEMMA ReadStep ==
    ASSUME FilesInv, NEW p \in Proc, NEW n \in Fd, file_read(p, n)
    PROVE  FilesInv' /\ KeepsMap
<1>1. s \in FsType /\ fd[p][n] \in Desc
  BY Mine
<1>2. PICK d \in Desc : d = [fd[p][n] EXCEPT !.pos = fd[p][n].pos + 1] /\ d.node = fd[p][n].node
  <2>1. PICK k \in Nat : k = fd[p][n].pos + 1
    BY Mine
  <2>2. \E d \in Desc : d = [fd[p][n] EXCEPT !.pos = k] /\ d.node = fd[p][n].node
    BY <1>1, NewPos
  <2> QED BY <2>1, <2>2
<1>3. fd' = [fd EXCEPT ![p][n] = d] /\ s' = s /\ pwd' = pwd /\ lost' = lost /\ Live(p)
  BY <1>2 DEF file_read
<1>4. Neutral(s, s)
  BY <1>1 DEF Neutral, SameCounts
<1> QED BY <1>2, <1>3, <1>4, Positioned

LEMMA WriteStep ==
    ASSUME FilesInv, NEW p \in Proc, NEW n \in Fd, file_write(p, n)
    PROVE  FilesInv' /\ KeepsMap
<1>1. s \in FsType /\ fd[p][n] \in Desc
  BY Mine
<1>2. PICK d \in Desc : d = [fd[p][n] EXCEPT !.pos = fd[p][n].pos + 1] /\ d.node = fd[p][n].node
  <2>1. PICK k \in Nat : k = fd[p][n].pos + 1
    BY Mine
  <2>2. \E d \in Desc : d = [fd[p][n] EXCEPT !.pos = k] /\ d.node = fd[p][n].node
    BY <1>1, NewPos
  <2> QED BY <2>1, <2>2
<1>3. PICK i \in File, k \in Nat : i = fd[p][n].node /\ k = fd[p][n].pos
  BY <1>1 DEF file_write, Desc
<1>4. PICK g : g = sfs_write(s, i, k)
  OBVIOUS
<1>5. /\ fd' = [fd EXCEPT ![p][n] = d] /\ s' = g /\ pwd' = pwd /\ lost' = lost /\ Live(p)
      /\ ioAsserts(s, i, k)
  BY <1>2, <1>3, <1>4 DEF file_write
<1>6. Neutral(s, g)
  BY <1>1, <1>4, <1>5, Write
<1> QED BY <1>2, <1>5, <1>6, Positioned

LEMMA SeekStep ==
    ASSUME FilesInv, NEW p \in Proc, NEW n \in Fd, NEW pos \in Nat, file_seek(p, n, pos)
    PROVE  FilesInv' /\ KeepsMap
<1>1. s \in FsType /\ fd[p][n] \in Desc /\ fd = [fd EXCEPT ![p][n] = fd[p][n]]
  <2>1. fd[p] = [fd[p] EXCEPT ![n] = fd[p][n]]
    <3>1. PICK t \in Table : t = fd[p]
      BY Mine
    <3>2. t = [t EXCEPT ![n] = t[n]]
      BY DEF Table
    <3> QED BY <3>1, <3>2
  <2>2. [fd EXCEPT ![p][n] = fd[p][n]] = [fd EXCEPT ![p] = [fd[p] EXCEPT ![n] = fd[p][n]]]
    OBVIOUS
  <2>3. fd = [fd EXCEPT ![p] = fd[p]]
    BY Mine
  <2>4. fd = [fd EXCEPT ![p][n] = fd[p][n]]
    BY <2>1, <2>2, <2>3
  <2> QED BY <2>4, Mine
<1>2. PICK i \in File : i = fd[p][n].node
  BY DEF file_seek
<1>3. PICK g : g = IF pos > s.node[i].size THEN sfs_truncfile(s, i, pos) ELSE s
  OBVIOUS
<1>4. PICK d \in Desc : /\ d = IF pos > g.node[i].size THEN fd[p][n]
                               ELSE [fd[p][n] EXCEPT !.pos = pos]
                        /\ d.node = fd[p][n].node
  <2>1. \E d \in Desc : d = [fd[p][n] EXCEPT !.pos = pos] /\ d.node = fd[p][n].node
    BY <1>1, NewPos
  <2> QED BY <1>1, <2>1
<1>5. /\ s' = g /\ pwd' = pwd /\ lost' = lost /\ Live(p)
      /\ pos > s.node[i].size => truncateAsserts(s, i, pos)
      /\ fd' = IF pos > g.node[i].size THEN fd ELSE [fd EXCEPT ![p][n].pos = pos]
  BY <1>2, <1>3 DEF file_seek
<1>6. fd' = [fd EXCEPT ![p][n] = d]
  <2>1. CASE pos > g.node[i].size
    BY <1>1, <1>4, <1>5, <2>1
  <2>2. CASE ~(pos > g.node[i].size)
    BY <1>4, <1>5, <2>2
  <2> QED BY <2>1, <2>2
<1>7. Neutral(s, g)
  <2>1. CASE pos > s.node[i].size
    BY <1>1, <1>3, <1>5, <2>1, Truncate
  <2>2. CASE ~(pos > s.node[i].size)
    BY <1>1, <1>3, <2>2 DEF Neutral, SameCounts
  <2> QED BY <2>1, <2>2
<1> QED BY <1>4, <1>5, <1>6, <1>7, Positioned

LEMMA UsesOne ==
    ASSUME NEW t, NEW n, NEW i
    PROVE  uses(t, {n}, i) = one(t[n].node, i)
<1>1. {m \in {n} : t[m].node = i} = IF t[n].node = i THEN {n} ELSE {}
  OBVIOUS
<1>2. Cardinality({n}) = 1 /\ Cardinality({}) = 0
  BY FS_Singleton, FS_EmptySet
<1> QED BY <1>1, <1>2 DEF uses, one

LEMMA UsesOpen ==
    ASSUME NEW t, NEW i \in Ino
    PROVE  uses(t, openOf(t), i) = uses(t, Fd, i)
<1>1. {n \in openOf(t) : t[n].node = i} = {n \in Fd : t[n].node = i}
  BY FilesAssumption DEF openOf
<1> QED BY <1>1 DEF uses

LEMMA OpenOfType == ASSUME NEW t PROVE openOf(t) \in SUBSET Fd
BY DEF openOf

LEMMA KeepsBySame ==
    ASSUME SameBlocks(s, s')
    PROVE  KeepsMap
<1>1. FewerBlocks(s, s')
  BY DEF SameBlocks, FewerBlocks
<1> QED BY <1>1, KeepsByFewer

LEMMA DupStep ==
    ASSUME FilesInv, NEW p \in Proc, NEW n \in Fd, NEW m \in Fd, file_dup(p, n, m)
    PROVE  FilesInv' /\ KeepsMap
<1>1. s \in FsType /\ lost \in [Ino -> Nat] /\ fd[p] \in Table /\ pwd[p] \in Dir \cup {NULL}
  BY Mine
<1>2. PICK t \in Table, d \in Desc : t = fd[p] /\ d = fd[p][n]
  BY Mine
<1>3. PICK g : g = fd_array_dup(s, t, {n})
  OBVIOUS
<1>4. {n} \in SUBSET Fd
  OBVIOUS
<1>5. /\ g \in FsType /\ SameBlocks(s, g)
      /\ \A j \in Ino : /\ g.node[j].ref = s.node[j].ref + uses(t, {n}, j)
                        /\ g.node[j].open = s.node[j].open + uses(t, {n}, j)
  BY <1>1, <1>3, <1>4, Dup
<1>6. PICK T \in Table : /\ T = [t EXCEPT ![m] = d]
                         /\ \A j : uses(T, Fd, j) = uses(t, Fd, j) - one(t[m].node, j)
                                                    + one(d.node, j)
  BY <1>2, OneDesc
<1>7. /\ s' = g /\ fd' = [fd EXCEPT ![p] = T] /\ lost' = lost /\ pwd' = pwd /\ pwd[p] # NULL
      /\ t[m].node = NULL
  BY <1>2, <1>3, <1>6 DEF file_dup, Live, Opened
<1>8. FilesInv'
  <2>1. pwd' = [pwd EXCEPT ![p] = pwd[p]]
    BY <1>7, Mine
  <2>2. Moves(p, T, pwd[p], g, lost)
    <3> SUFFICES ASSUME NEW j \in Ino
                 PROVE  /\ g.node[j].open = s.node[j].open - uses(fd[p], Fd, j) + uses(T, Fd, j)
                        /\ g.node[j].ref = s.node[j].ref - uses(fd[p], Fd, j) + uses(T, Fd, j)
                               - one(pwd[p], j) + one(pwd[p], j) - lost[j] + lost[j]
      BY DEF Moves
    <3>1. /\ uses(t, Fd, j) \in Nat /\ one(d.node, j) \in Nat /\ one(pwd[p], j) \in Nat
          /\ s.node[j].ref \in Nat /\ s.node[j].open \in Nat /\ lost[j] \in Nat
      BY <1>1, <1>2, Bounds, OneNat
    <3>2. uses(T, Fd, j) = uses(t, Fd, j) - 0 + one(d.node, j)
      BY <1>6, <1>7, OneNull
    <3>3. uses(t, {n}, j) = one(d.node, j)
      BY <1>2, UsesOne
    <3>4. /\ g.node[j].ref = s.node[j].ref + one(d.node, j)
          /\ g.node[j].open = s.node[j].open + one(d.node, j)
      BY <1>5, <3>3
    <3> QED BY <1>2, <3>1, <3>2, <3>4
  <2> QED BY <1>1, <1>5, <1>7, <2>1, <2>2, Step
<1> QED BY <1>5, <1>7, <1>8, KeepsBySame

LEMMA ChdirStep ==
    ASSUME FilesInv, NEW p \in Proc, NEW d \in Ino, vfs_chdir(p, d)
    PROVE  FilesInv' /\ KeepsMap
<1>1. s \in FsType /\ lost \in [Ino -> Nat] /\ fd[p] \in Table /\ pwd[p] \in Dir \cup {NULL}
  BY Mine
<1>2. PICK a \in Dir : a = pwd[p] /\ a \in Ino /\ d # a /\ d \in Dir
  BY <1>1 DEF vfs_chdir, Live, Ino
<1>3. PICK l : l = sfs_load_inode(s, d)
  OBVIOUS
<1>4. ASSUME NEW j \in Ino
      PROVE  /\ s.node[j].ref \in Nat /\ s.node[j].open \in Nat
             /\ s.node[j].ref >= s.node[j].open + one(a, j)
             /\ s.node[j].ref = 0 => s.node[j].open = 0
             /\ one(a, j) \in Nat /\ one(d, j) \in Nat
  <2>1. PICK r, o, w : r = s.node[j].ref /\ o = s.node[j].open /\ w = one(a, j)
    OBVIOUS
  <2>2. r \in Nat /\ o \in Nat /\ w \in Nat /\ r >= o + w
    BY <1>2, <2>1, Bounds
  <2>3. one(d, j) \in Nat
    BY OneNat
  <2> QED BY <2>1, <2>2, <2>3
<1>5. /\ l \in FsType /\ SameMap(s, l)
      /\ \A j \in Ino : /\ l.node[j].ref = s.node[j].ref + one(d, j)
                        /\ l.node[j].open = s.node[j].open
                        /\ (j # d \/ s.node[d].ref > 0) => l.node[j].blocks = s.node[j].blocks
  BY <1>1, <1>3, <1>4, Load
<1>6. l.node[a].ref = 1 => l.node[a].open = 0
  <2>1. one(d, a) = 0 /\ one(a, a) = 1
    BY <1>2 DEF one
  <2>2. PICK r, o : r = s.node[a].ref /\ o = s.node[a].open
    OBVIOUS
  <2>3. r \in Nat /\ o \in Nat /\ r >= o + 1
    BY <1>2, <1>4, <2>1, <2>2
  <2>4. l.node[a].ref = r + 0 /\ l.node[a].open = o
    BY <1>2, <1>5, <2>1, <2>2
  <2> QED BY <2>3, <2>4
<1>7. PICK g : g = inode_ref_dec(l, a)
  OBVIOUS
<1>8. /\ g \in FsType /\ FewerBlocks(l, g)
      /\ \A j \in Ino : /\ g.node[j].ref = l.node[j].ref - one(a, j)
                        /\ g.node[j].open = l.node[j].open
  BY <1>2, <1>5, <1>6, <1>7, RefDec
<1>9. s' = g /\ fd' = fd /\ lost' = lost /\ pwd' = [pwd EXCEPT ![p] = d]
  BY <1>2, <1>3, <1>7 DEF vfs_chdir
<1>10. FilesInv'
  <2>1. PICK T \in Table, A \in Dir \cup {NULL} : T = fd[p] /\ A = d /\ A # NULL
    BY <1>1, <1>2, FilesAssumption
  <2>2. fd' = [fd EXCEPT ![p] = T] /\ pwd' = [pwd EXCEPT ![p] = A]
    BY <1>9, <2>1, Mine
  <2>3. Moves(p, T, A, g, lost)
    <3> SUFFICES ASSUME NEW j \in Ino
                 PROVE  /\ g.node[j].open = s.node[j].open - uses(fd[p], Fd, j) + uses(T, Fd, j)
                        /\ g.node[j].ref = s.node[j].ref - uses(fd[p], Fd, j) + uses(T, Fd, j)
                               - one(pwd[p], j) + one(A, j) - lost[j] + lost[j]
      BY DEF Moves
    <3>1. uses(fd[p], Fd, j) \in Nat /\ lost[j] \in Nat
      BY <1>1, Bounds
    <3>2. /\ s.node[j].ref \in Nat /\ s.node[j].open \in Nat
          /\ one(a, j) \in Nat /\ one(d, j) \in Nat
      BY <1>4
    <3>3. g.node[j].ref = s.node[j].ref + one(d, j) - one(a, j) /\ g.node[j].open = s.node[j].open
      <4>1. l.node[j].ref = s.node[j].ref + one(d, j) /\ l.node[j].open = s.node[j].open
        BY <1>5
      <4>2. g.node[j].ref = l.node[j].ref - one(a, j) /\ g.node[j].open = l.node[j].open
        BY <1>8
      <4> QED BY <3>2, <4>1, <4>2
    <3> QED BY <1>2, <2>1, <3>1, <3>2, <3>3
  <2> QED BY <1>1, <1>8, <1>9, <2>1, <2>2, <2>3, Step
<1>11. KeepsMap
  <2>1. \A j \in File : j # d
    BY <1>2, SfsAssumption
  <2>2. FewerFileBlocks(s, g)
    <3>0. SameMap(s, g)
      BY <1>5, <1>8 DEF FewerBlocks, SameMap
    <3> SUFFICES ASSUME NEW j \in File PROVE g.node[j].blocks \in {s.node[j].blocks, <<>>}
      BY <3>0 DEF FewerFileBlocks
    <3>1. j \in Ino
      BY DEF Ino
    <3>2. l.node[j].blocks = s.node[j].blocks
      BY <1>5, <2>1, <3>1
    <3>3. g.node[j].blocks \in {l.node[j].blocks, <<>>}
      BY <1>8, <3>1 DEF FewerBlocks
    <3> QED BY <3>2, <3>3
  <2>3. Agrees(s) => Agrees(g)
    BY <2>2, FewerAgrees
  <2> QED BY <1>9, <2>3, KeepsByAgrees
<1> QED BY <1>10, <1>11

LEMMA ForkStep ==
    ASSUME FilesInv, NEW p \in Proc, NEW q \in Proc, Fork(p, q)
    PROVE  FilesInv' /\ KeepsMap
<1>1. s \in FsType /\ lost \in [Ino -> Nat] /\ fd[p] \in Table /\ pwd[p] \in Dir \cup {NULL}
  BY Mine
<1>2. PICK a \in Dir : a = pwd[p] /\ a \in Ino /\ a # NULL
  BY <1>1, FilesAssumption DEF Fork, Live, Ino
<1>3. PICK T \in Table : T = fd[p]
  BY <1>1
<1>4. PICK r : r = inode_ref_inc(s, a)
  OBVIOUS
<1>5. /\ r \in FsType /\ SameBlocks(s, r)
      /\ \A j \in Ino : /\ r.node[j].ref = s.node[j].ref + one(a, j)
                        /\ r.node[j].open = s.node[j].open
  BY <1>1, <1>2, <1>4, RefInc
<1>6. PICK N \in SUBSET Fd : N = openOf(T)
  BY OpenOfType
<1>7. PICK g : g = fd_array_dup(r, T, N)
  OBVIOUS
<1>8. /\ g \in FsType /\ SameBlocks(r, g)
      /\ \A j \in Ino : /\ g.node[j].ref = r.node[j].ref + uses(T, N, j)
                        /\ g.node[j].open = r.node[j].open + uses(T, N, j)
  BY <1>5, <1>7, Dup
<1>9. /\ s' = g /\ fd' = [fd EXCEPT ![q] = T] /\ lost' = lost /\ pwd' = [pwd EXCEPT ![q] = a]
      /\ pwd[q] = NULL
  BY <1>2, <1>3, <1>4, <1>6, <1>7 DEF Fork, Live
<1>10. Moves(q, T, a, g, lost)
  <2> SUFFICES ASSUME NEW j \in Ino
               PROVE  /\ g.node[j].open = s.node[j].open - uses(fd[q], Fd, j) + uses(T, Fd, j)
                      /\ g.node[j].ref = s.node[j].ref - uses(fd[q], Fd, j) + uses(T, Fd, j)
                             - one(pwd[q], j) + one(a, j) - lost[j] + lost[j]
    BY DEF Moves
  <2>1. uses(fd[q], Fd, j) = 0
    <3>1. \A n \in Fd : fd[q][n] = Unused
      BY <1>9 DEF FilesInv, NoFiles, Live
    <3> QED BY <3>1, UsesNone
  <2>2. one(pwd[q], j) = 0
    BY <1>9, OneNull
  <2>3. uses(T, N, j) = uses(T, Fd, j)
    BY <1>6, UsesOpen
  <2>4. /\ uses(T, Fd, j) \in Nat /\ one(a, j) \in Nat
        /\ s.node[j].ref \in Nat /\ s.node[j].open \in Nat /\ lost[j] \in Nat
    BY <1>1, <1>2, <1>3, Bounds
  <2>5. /\ g.node[j].ref = s.node[j].ref + one(a, j) + uses(T, Fd, j)
        /\ g.node[j].open = s.node[j].open + uses(T, Fd, j)
    BY <1>5, <1>8, <2>3
  <2> QED BY <2>1, <2>2, <2>4, <2>5
<1>11. FilesInv'
  BY <1>1, <1>2, <1>8, <1>9, <1>10, Step
<1>12. SameBlocks(s, g)
  BY <1>5, <1>8 DEF SameBlocks, SameMap
<1> QED BY <1>9, <1>11, <1>12, KeepsBySame

LEMMA SpawnStep ==
    ASSUME FilesInv, NEW q \in Proc, Spawn(q)
    PROVE  FilesInv' /\ KeepsMap
<1>1. s \in FsType /\ lost \in [Ino -> Nat] /\ fd[q] \in Table
  BY Mine
<1>2. PICK a \in Dir : a = Root /\ a \in Ino /\ a # NULL
  BY FilesAssumption DEF Ino
<1>3. PICK T \in Table : T = fd[q]
  BY <1>1
<1>4. PICK g : g = inode_ref_inc(s, a)
  OBVIOUS
<1>5. /\ g \in FsType /\ SameBlocks(s, g)
      /\ \A j \in Ino : /\ g.node[j].ref = s.node[j].ref + one(a, j)
                        /\ g.node[j].open = s.node[j].open
  BY <1>1, <1>2, <1>4, RefInc
<1>6. /\ s' = g /\ fd' = [fd EXCEPT ![q] = T] /\ lost' = lost /\ pwd' = [pwd EXCEPT ![q] = a]
      /\ pwd[q] = NULL
  BY <1>2, <1>3, <1>4, Mine DEF Spawn, Live
<1>7. Moves(q, T, a, g, lost)
  <2> SUFFICES ASSUME NEW j \in Ino
               PROVE  /\ g.node[j].open = s.node[j].open - uses(fd[q], Fd, j) + uses(T, Fd, j)
                      /\ g.node[j].ref = s.node[j].ref - uses(fd[q], Fd, j) + uses(T, Fd, j)
                             - one(pwd[q], j) + one(a, j) - lost[j] + lost[j]
    BY DEF Moves
  <2>1. one(pwd[q], j) = 0
    BY <1>6, OneNull
  <2>2. /\ uses(T, Fd, j) \in Nat /\ one(a, j) \in Nat
        /\ s.node[j].ref \in Nat /\ s.node[j].open \in Nat /\ lost[j] \in Nat
    BY <1>1, <1>3, Bounds, OneNat
  <2> QED BY <1>3, <1>5, <2>1, <2>2
<1>8. FilesInv'
  BY <1>1, <1>2, <1>5, <1>6, <1>7, Step
<1> QED BY <1>5, <1>6, <1>8, KeepsBySame

\* do_execve closes descriptors and then opens the program, which may have been the
\* last of them.
LEMMA ExecStep ==
    ASSUME FilesInv, NEW p \in Proc, NEW i \in Ino, Exec(p, i)
    PROVE  FilesInv' /\ KeepsMap
<1>1. s \in FsType /\ lost \in [Ino -> Nat] /\ fd[p] \in Table /\ pwd[p] \in Dir \cup {NULL}
  BY Mine
<1>2. PICK t \in Table : t = fd[p]
  BY <1>1
<1>3. PICK N \in SUBSET Fd : N = {n \in openOf(t) : n >= StdFds}
  BY OpenOfType
<1>4. PICK c \in Table : c = closed(t, N)
  <2>1. Unused \in Desc
    BY DEF Unused, Desc
  <2>2. closed(t, N) \in Table
    BY <2>1 DEF closed, Table
  <2> QED BY <2>2
<1>5. PICK f : f = fd_array_close(s, t, N)
  OBVIOUS
<1>6. PICK g : g = vfs_open(f, i, "r")
  OBVIOUS
<1>7. PICK m : m = fd_array_alloc(c)
  OBVIOUS
<1>8. PICK d \in Desc : d = [Unused EXCEPT !.node = i] /\ d.node = i
  <2>1. PICK d : d = [Unused EXCEPT !.node = i]
    OBVIOUS
  <2>2. d = [node |-> i, pos |-> 0, w |-> FALSE]
    BY <2>1 DEF Unused
  <2>3. d \in Desc /\ d.node = i
    BY <2>2 DEF Desc
  <2> QED BY <2>1, <2>3
<1>9. /\ s' = g /\ lost' = lost /\ pwd' = pwd /\ pwd[p] # NULL /\ hasFree(c) /\ i \in File
      /\ fd' = [fd EXCEPT ![p] = [c EXCEPT ![m] = d]]
  BY <1>2, <1>3, <1>4, <1>5, <1>6, <1>7, <1>8 DEF Exec, Live
<1>10. m \in Fd /\ c[m].node = NULL
  BY <1>7, <1>9, DescAlloc
<1>11. PICK T \in Table : /\ T = [c EXCEPT ![m] = d]
                          /\ \A j : uses(T, Fd, j) = uses(c, Fd, j) - one(c[m].node, j)
                                                     + one(d.node, j)
  BY <1>10, OneDesc
<1>12. ASSUME NEW j \in Ino
       PROVE  /\ s.node[j].ref \in Nat /\ s.node[j].open \in Nat /\ one(pwd[p], j) \in Nat
              /\ s.node[j].ref >= s.node[j].open + one(pwd[p], j)
              /\ uses(t, N, j) \in Nat /\ uses(t, Fd, j) \in Nat /\ one(i, j) \in Nat
              /\ s.node[j].open >= uses(t, Fd, j) /\ uses(t, N, j) <= uses(t, Fd, j)
              /\ uses(c, Fd, j) = uses(t, Fd, j) - uses(t, N, j)
  BY <1>2, <1>4, Bounds, UsesPart, UsesClosed, OneNat
<1>13. \A j \in Ino : s.node[j].ref = uses(t, N, j) => s.node[j].open = uses(t, N, j)
  <2> SUFFICES ASSUME NEW j \in Ino, s.node[j].ref = uses(t, N, j)
               PROVE  s.node[j].open = uses(t, N, j)
    OBVIOUS
  <2>1. PICK r, o, w, u, v : r = s.node[j].ref /\ o = s.node[j].open /\ w = one(pwd[p], j)
                             /\ u = uses(t, Fd, j) /\ v = uses(t, N, j)
    OBVIOUS
  <2>2. r \in Nat /\ o \in Nat /\ w \in Nat /\ u \in Nat /\ v \in Nat /\ r >= o + w /\ o >= u /\ v <= u
    BY <1>12, <2>1
  <2> QED BY <2>1, <2>2
<1>14. /\ f \in FsType /\ FewerBlocks(s, f)
       /\ \A j \in Ino : /\ f.node[j].ref = s.node[j].ref - uses(t, N, j)
                         /\ f.node[j].open = s.node[j].open - uses(t, N, j)
  BY <1>1, <1>5, <1>13, CloseAll
<1>15. f.node[i].ref \in Nat /\ (f.node[i].ref = 0 => f.node[i].open = 0)
  <2>1. PICK r, o, w, u, v : r = s.node[i].ref /\ o = s.node[i].open /\ w = one(pwd[p], i)
                             /\ u = uses(t, Fd, i) /\ v = uses(t, N, i)
    OBVIOUS
  <2>2. r \in Nat /\ o \in Nat /\ w \in Nat /\ u \in Nat /\ v \in Nat /\ r >= o + w /\ o >= u /\ v <= u
    BY <1>12, <2>1
  <2>3. f.node[i].ref = r - v /\ f.node[i].open = o - v
    BY <1>14, <2>1
  <2> QED BY <2>2, <2>3
<1>16. PICK mode : mode = "r" /\ mode \notin Truncating
  BY DEF Truncating
<1>17. /\ g \in FsType
       /\ \A j \in Ino : /\ g.node[j].ref = f.node[j].ref + one(i, j)
                         /\ g.node[j].open = f.node[j].open + one(i, j)
  BY <1>6, <1>14, <1>15, <1>16, Open
<1>18. ASSUME NEW j \in Ino
       PROVE  /\ g.node[j].open = s.node[j].open - uses(t, N, j) + one(i, j)
              /\ g.node[j].ref = s.node[j].ref - uses(t, N, j) + one(i, j)
              /\ uses(T, Fd, j) = uses(t, Fd, j) - uses(t, N, j) - 0 + one(i, j)
  <2>1. f.node[j].ref = s.node[j].ref - uses(t, N, j) /\ f.node[j].open = s.node[j].open - uses(t, N, j)
    BY <1>14
  <2>2. g.node[j].ref = f.node[j].ref + one(i, j) /\ g.node[j].open = f.node[j].open + one(i, j)
    BY <1>17
  <2>3. one(c[m].node, j) = 0
    BY <1>10, OneNull
  <2>4. uses(T, Fd, j) = uses(c, Fd, j) - one(c[m].node, j) + one(d.node, j)
    BY <1>11
  <2>5. uses(c, Fd, j) = uses(t, Fd, j) - uses(t, N, j)
    BY <1>12
  <2> QED BY <1>8, <2>1, <2>2, <2>3, <2>4, <2>5
<1>19. FilesInv'
  <2>1. PICK A \in Dir \cup {NULL} : A = pwd[p] /\ A # NULL
    BY <1>1, <1>9
  <2>2. fd' = [fd EXCEPT ![p] = T] /\ pwd' = [pwd EXCEPT ![p] = A]
    BY <1>9, <1>11, <2>1, Mine
  <2>3. Moves(p, T, A, g, lost)
    <3> SUFFICES ASSUME NEW j \in Ino
                 PROVE  /\ g.node[j].open = s.node[j].open - uses(fd[p], Fd, j) + uses(T, Fd, j)
                        /\ g.node[j].ref = s.node[j].ref - uses(fd[p], Fd, j) + uses(T, Fd, j)
                               - one(pwd[p], j) + one(A, j) - lost[j] + lost[j]
      BY DEF Moves
    <3>1. /\ s.node[j].ref \in Nat /\ s.node[j].open \in Nat /\ one(pwd[p], j) \in Nat
          /\ uses(t, N, j) \in Nat /\ uses(t, Fd, j) \in Nat /\ one(i, j) \in Nat /\ lost[j] \in Nat
      BY <1>1, <1>12
    <3>2. /\ g.node[j].open = s.node[j].open - uses(t, N, j) + one(i, j)
          /\ g.node[j].ref = s.node[j].ref - uses(t, N, j) + one(i, j)
          /\ uses(T, Fd, j) = uses(t, Fd, j) - uses(t, N, j) - 0 + one(i, j)
      BY <1>18
    <3> QED BY <1>2, <2>1, <3>1, <3>2
  <2> QED BY <1>1, <1>9, <1>17, <2>1, <2>2, <2>3, Step
<1>20. KeepsMap
  <2>1. one(i, i) = 1
    BY DEF one
  <2>2. g.node[i].ref = f.node[i].ref + 1
    BY <1>17, <2>1
  <2>3. s'.node[i].ref > 0
    BY <1>9, <1>15, <2>2
  <2> QED BY <1>9, <2>3 DEF KeepsMap, Reread
<1> QED BY <1>19, <1>20

LEMMA ExitStep ==
    ASSUME FilesInv, NEW p \in Proc, Exit(p)
    PROVE  FilesInv' /\ KeepsMap
<1>1. s \in FsType /\ lost \in [Ino -> Nat] /\ fd[p] \in Table /\ pwd[p] \in Dir \cup {NULL}
  BY Mine
<1>2. PICK a \in Dir : a = pwd[p] /\ a \in Ino
  BY <1>1 DEF Exit, Live, Ino
<1>3. PICK t \in Table : t = fd[p]
  BY <1>1
<1>4. PICK N \in SUBSET Fd : N = openOf(t)
  BY OpenOfType
<1>5. PICK f, g : f = inode_ref_dec(s, a) /\ g = fd_array_close(f, t, N)
  OBVIOUS
<1>6. PICK T \in Table : T = [n \in Fd |-> Unused] /\ \A n \in Fd : T[n] = Unused
  <2>1. Unused \in Desc
    BY DEF Unused, Desc
  <2>2. [n \in Fd |-> Unused] \in Table
    BY <2>1 DEF Table
  <2> QED BY <2>2
<1>7. PICK A \in Dir \cup {NULL} : A = NULL
  OBVIOUS
<1>8. /\ s' = g /\ lost' = lost /\ pwd' = [pwd EXCEPT ![p] = A]
      /\ fd' = [fd EXCEPT ![p] = T]
  BY <1>2, <1>3, <1>4, <1>5, <1>6, <1>7 DEF Exit
<1>9. ASSUME NEW j \in Ino
      PROVE  /\ s.node[j].ref \in Nat /\ s.node[j].open \in Nat /\ one(a, j) \in Nat
             /\ s.node[j].ref >= s.node[j].open + one(a, j)
             /\ uses(t, N, j) \in Nat /\ uses(t, N, j) = uses(t, Fd, j)
             /\ s.node[j].open >= uses(t, N, j)
  <2>1. uses(t, N, j) = uses(t, Fd, j)
    BY <1>4, UsesOpen
  <2> QED BY <1>2, <1>3, <2>1, Bounds
<1>10. s.node[a].ref = 1 => s.node[a].open = 0
  <2>1. PICK r, o, w : r = s.node[a].ref /\ o = s.node[a].open /\ w = one(a, a)
    OBVIOUS
  <2>2. r \in Nat /\ o \in Nat /\ r >= o + w
    BY <1>2, <1>9, <2>1
  <2>3. w = 1
    BY <2>1 DEF one
  <2> QED BY <2>1, <2>2, <2>3
<1>11. /\ f \in FsType /\ FewerBlocks(s, f)
       /\ \A j \in Ino : f.node[j].ref = s.node[j].ref - one(a, j) /\ f.node[j].open = s.node[j].open
  BY <1>1, <1>2, <1>5, <1>10, RefDec
<1>12. \A j \in Ino : f.node[j].ref = uses(t, N, j) => f.node[j].open = uses(t, N, j)
  <2> SUFFICES ASSUME NEW j \in Ino, f.node[j].ref = uses(t, N, j)
               PROVE  f.node[j].open = uses(t, N, j)
    OBVIOUS
  <2>1. PICK r, o, w, v : r = s.node[j].ref /\ o = s.node[j].open /\ w = one(a, j)
                          /\ v = uses(t, N, j)
    OBVIOUS
  <2>2. r \in Nat /\ o \in Nat /\ w \in Nat /\ v \in Nat /\ r >= o + w /\ o >= v
    BY <1>9, <2>1
  <2>3. f.node[j].ref = r - w /\ f.node[j].open = o
    BY <1>11, <2>1
  <2> QED BY <2>1, <2>2, <2>3
<1>13. /\ g \in FsType /\ FewerBlocks(f, g)
       /\ \A j \in Ino : /\ g.node[j].ref = f.node[j].ref - uses(t, N, j)
                         /\ g.node[j].open = f.node[j].open - uses(t, N, j)
  BY <1>5, <1>11, <1>12, CloseAll
<1>14. Moves(p, T, A, g, lost)
  <2> SUFFICES ASSUME NEW j \in Ino
               PROVE  /\ g.node[j].open = s.node[j].open - uses(fd[p], Fd, j) + uses(T, Fd, j)
                      /\ g.node[j].ref = s.node[j].ref - uses(fd[p], Fd, j) + uses(T, Fd, j)
                             - one(pwd[p], j) + one(A, j) - lost[j] + lost[j]
    BY DEF Moves
  <2>1. uses(T, Fd, j) = 0 /\ one(A, j) = 0
    BY <1>6, <1>7, UsesNone, OneNull
  <2>2. /\ s.node[j].ref \in Nat /\ s.node[j].open \in Nat /\ one(a, j) \in Nat
        /\ uses(t, N, j) \in Nat /\ uses(t, N, j) = uses(t, Fd, j) /\ lost[j] \in Nat
    BY <1>1, <1>9
  <2>3. f.node[j].ref = s.node[j].ref - one(a, j) /\ f.node[j].open = s.node[j].open
    BY <1>11
  <2>4. g.node[j].ref = f.node[j].ref - uses(t, N, j) /\ g.node[j].open = f.node[j].open - uses(t, N, j)
    BY <1>13
  <2> QED BY <1>2, <1>3, <2>1, <2>2, <2>3, <2>4
<1>15. FilesInv'
  BY <1>1, <1>6, <1>8, <1>13, <1>14, Step
<1>16. KeepsMap
  <2>1. FewerBlocks(s, g)
    BY <1>11, <1>13 DEF FewerBlocks, SameMap
  <2> QED BY <1>8, <2>1, KeepsByFewer
<1> QED BY <1>15, <1>16

-----------------------------------------------------------------------------
LEMMA FilesInit == Init => FilesInv
<1> SUFFICES ASSUME Init PROVE FilesInv
  OBVIOUS
<1>1. Unused \in Desc
  BY DEF Unused, Desc
<1>2. \A p \in Proc, n \in Fd : fd[p][n] = Unused
  BY DEF Init
<1>3. s \in FsType
  <2>1. \A i \in Ino : [NoNode EXCEPT !.ref = permanent(i)] \in Node
    <3> TAKE i \in Ino
    <3>1. PICK c \in Int : c = permanent(i)
      BY DEF permanent
    <3>2. ASSUME NEW nd \in Node PROVE [nd EXCEPT !.ref = c] \in Node
      BY DEF Node
    <3> QED BY <3>1, <3>2, NoNodeType
  <2>2. PICK nd \in [Ino -> Node] : nd = [i \in Ino |-> [NoNode EXCEPT !.ref = permanent(i)]]
    BY <2>1
  <2>3. unusedOnDisk \in SUBSET (1 .. Blocks)
    BY DEF unusedOnDisk
  <2>4. PICK c \in Int : c = Cardinality(unusedOnDisk)
    BY <2>3, FreeFinite
  <2>5. s = [node |-> nd, free |-> unusedOnDisk, unused |-> c]
    BY <2>2, <2>4 DEF Init
  <2> QED BY <2>3, <2>5 DEF FsType
<1>4. TypeOK
  <2>1. fd \in [Proc -> Table]
    BY <1>1 DEF Init, Table
  <2>2. pwd \in [Proc -> Dir \cup {NULL}] /\ lost \in [Ino -> Nat]
    BY DEF Init
  <2> QED BY <1>3, <2>1, <2>2 DEF TypeOK
<1>5. NoFiles
  BY <1>2 DEF NoFiles
<1>6. RefsExact
  <2> SUFFICES ASSUME NEW i \in Ino
               PROVE  /\ s.node[i].open = total(fd, i)
                      /\ s.node[i].ref = total(fd, i) + count(Proc, pwd, i) + permanent(i) + lost[i]
    BY ExactIsRefs DEF Exact
  <2>1. s.node[i].open = 0 /\ s.node[i].ref = permanent(i) /\ lost[i] = 0 /\ permanent(i) \in Nat
    BY DEF Init, NoNode, permanent
  <2>2. {x \in Proc \X Fd : fd[x[1]][x[2]].node = i} = {}
    <3> SUFFICES ASSUME NEW x \in Proc \X Fd PROVE fd[x[1]][x[2]].node # i
      OBVIOUS
    <3>1. fd[x[1]][x[2]] = Unused
      BY <1>2
    <3> QED BY <3>1, FilesAssumption DEF Unused
  <2>3. {p \in Proc : pwd[p] = i} = {}
    BY FilesAssumption DEF Init
  <2>4. total(fd, i) = 0 /\ count(Proc, pwd, i) = 0
    BY <2>2, <2>3, FS_EmptySet DEF total, count
  <2> QED BY <2>1, <2>4
<1> QED BY <1>4, <1>5, <1>6 DEF FilesInv

LEMMA FilesStep == FilesInv /\ [Next]_vars => FilesInv' /\ (KeepsMap \/ UNCHANGED vars)
<1> SUFFICES ASSUME FilesInv, [Next]_vars PROVE FilesInv' /\ (KeepsMap \/ UNCHANGED vars)
  OBVIOUS
<1>1. CASE UNCHANGED vars
  BY <1>1 DEF vars, FilesInv, TypeOK, NoFiles, RefsExact, Live
<1>2. CASE Next
  <2> PICK p \in Proc :
        \/ \E i \in Ino : vfs_open_Exists(p, i) \/ vfs_chdir(p, i) \/ Exec(p, i)
        \/ \E i \in Ino, mode \in Mode : file_open(p, i, mode)
        \/ \E n \in Fd : file_close(p, n) \/ file_read(p, n) \/ file_write(p, n)
        \/ \E n \in Fd, pos \in 0 .. MaxSize : file_seek(p, n, pos)
        \/ \E n, m \in Fd : file_dup(p, n, m)
        \/ \E q \in Proc : Fork(p, q)
        \/ Spawn(p) \/ Exit(p)
    BY <1>2 DEF Next
  <2>1. ASSUME NEW i \in Ino, vfs_open_Exists(p, i) \/ vfs_chdir(p, i) \/ Exec(p, i)
        PROVE  FilesInv' /\ KeepsMap
    BY <2>1, ExistsStep, ChdirStep, ExecStep
  <2>2. ASSUME NEW i \in Ino, NEW mode \in Mode, file_open(p, i, mode)
        PROVE  FilesInv' /\ KeepsMap
    BY <2>2, OpenStep
  <2>3. ASSUME NEW n \in Fd, file_close(p, n) \/ file_read(p, n) \/ file_write(p, n)
        PROVE  FilesInv' /\ KeepsMap
    BY <2>3, CloseStep, ReadStep, WriteStep
  <2>4. ASSUME NEW n \in Fd, NEW pos \in 0 .. MaxSize, file_seek(p, n, pos)
        PROVE  FilesInv' /\ KeepsMap
    <3>1. pos \in Nat
      BY FilesAssumption
    <3> QED BY <2>4, <3>1, SeekStep
  <2>5. ASSUME NEW n \in Fd, NEW m \in Fd, file_dup(p, n, m)
        PROVE  FilesInv' /\ KeepsMap
    BY <2>5, DupStep
  <2>6. ASSUME NEW q \in Proc, Fork(p, q)
        PROVE  FilesInv' /\ KeepsMap
    BY <2>6, ForkStep
  <2>7. ASSUME Spawn(p) \/ Exit(p)
        PROVE  FilesInv' /\ KeepsMap
    BY <2>7, SpawnStep, ExitStep
  <2> QED BY <2>1, <2>2, <2>3, <2>4, <2>5, <2>6, <2>7
<1> QED BY <1>1, <1>2

\* RefsExact: in every reachable state, for any number of processes, descriptors and
\* inodes, ref_count and open_count are exactly the open descriptors, the current
\* directories, the permanent holders and the forgotten references (file.c, fs.c,
\* vfsfile.c, inode.c, proc.c).  No inode is freed while a process uses it.
THEOREM CountsExact == Spec => []RefsExact
<1>1. FilesInv => RefsExact
  BY DEF FilesInv
<1> QED BY <1>1, FilesInit, FilesStep, PTL DEF Spec

\* BlocksKept: no open, write, seek, truncation, failed growth, close, fork or exit
\* makes two files share a block, or a file's block free, or unused_blocks wrong; only
\* reading a file from the unwritten disk does (sfs_inode.c: sfs_load_inode,
\* sfs_truncfile, sfs_io_nolock).
THEOREM MapKept == Spec => BlocksKept
<1>1. FilesInv /\ [Next]_vars => [MapExact => MapExact' \/ \E i \in File : Reread(i)]_vars
  BY FilesStep DEF KeepsMap
<1> QED BY <1>1, FilesInit, FilesStep, PTL DEF Spec, BlocksKept
=============================================================================
