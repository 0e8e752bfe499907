------------------------------ MODULE VmProofs ------------------------------
(***************************************************************************)
(* Proofs about address spaces and the TLB, for every number of processes, *)
(* virtual pages, frames and TLB entries: FramesExact, OwnSpace and        *)
(* TlbCoherent.                                                            *)
(***************************************************************************)
EXTENDS Vm, FiniteSetTheorems, FunctionTheorems, WellFoundedInduction, TLAPS

PteType == [page : Frame \cup {NULL}, TLB_P : BOOLEAN, idx : Slot]
DirType == [table : Frame \cup {NULL}, pte : [VA -> PteType]]

MemType(m) ==
    /\ m = [dir |-> m.dir, free |-> m.free]
    /\ m.dir = [d \in DOMAIN m.dir |-> m.dir[d]]
    /\ DOMAIN m.dir \subseteq Frame /\ m.free \subseteq Frame
    /\ \A d \in DOMAIN m.dir : m.dir[d] \in DirType

UserModes == {"user", "kernel"}

TypeOK ==
    /\ st \in [Proc -> UserModes \cup {"none", "exec", "exit", "zombie"}]
    /\ mm \in [Proc -> Frame \cup {NULL}]
    /\ pgdir \in [Proc -> Frame \cup {NULL, boot_pgdir}]
    /\ newmm \in [Proc -> Frame \cup {NULL}]
    /\ MemType(mem)
    /\ current \in Proc \cup {idle}
    /\ tlb \in [Slot -> [hi : Int, lo : [{0, 1} -> Frame \cup {NULL}]]]
    /\ algo \in [empty : Seq(Slot), hi : [Slot -> Int], ptr : Slot]

\* The frames of a directory d with the contents r, and that none has two uses.
own(d, r) == ({d, r.table} \cup {r.pte[va].page : va \in VA}) \ {NULL}
Distinct(d, r) ==
    /\ d # r.table
    /\ \A va \in VA : r.pte[va].page # NULL => r.pte[va].page \notin {d, r.table}
    /\ \A va, w \in VA : r.pte[va].page = r.pte[w].page /\ r.pte[va].page # NULL => va = w

\* Every frame is free or has one use.
Separate(m) ==
    /\ \A d \in DOMAIN m.dir :
         /\ Distinct(d, m.dir[d])
         /\ own(d, m.dir[d]) \cap m.free = {}
         /\ \A e \in DOMAIN m.dir \ {d} : own(d, m.dir[d]) \cap own(e, m.dir[e]) = {}
    /\ \A f \in Frame : f \in m.free \/ \E d \in DOMAIN m.dir : f \in own(d, m.dir[d])

MemOK(m) == MemType(m) /\ Separate(m)

\* Every address space has one holder.
Holders ==
    /\ DOMAIN mem.dir = Held
    /\ \A p, q \in Proc : mm[p] # NULL => mm[p] # newmm[q] /\ (p # q => mm[p] # mm[q])
    /\ \A p, q \in Proc : newmm[p] # NULL /\ p # q => newmm[p] # newmm[q]

\* Which address spaces a process has follows from where it is; load_icode maps
\* the pages of the image only.
Spaces ==
    \A p \in Proc :
        /\ mm[p] # NULL <=> st[p] \in UserModes
        /\ st[p] \in UserModes => pgdir[p] = mm[p]
        /\ newmm[p] # NULL => st[p] = "exec" /\ Present(newmm[p]) \subseteq Image

\* The TLB is used in user mode and in system calls only, on the directory of the
\* process; anyone else runs with an empty one, though cur_pgdir may be stale.
Switched ==
    /\ \A p \in Proc : Runs(p, UserModes) => cur_pgdir = mm[p]
    /\ (\A p \in Proc : ~Runs(p, UserModes)) => tlb = [i \in Slot |-> Invalid]

\* The inductive invariant.
VmInv == TypeOK /\ Separate(mem) /\ Holders /\ Spaces /\ Switched /\ TlbCoherent
-----------------------------------------------------------------------------
(* Frames are taken in order. *)

below(S, x) == {g \in S : g < x}

\* The elements of a finite set of numbers have the ranks 0, 1, 2, ...
LEMMA Rank ==
    ASSUME NEW S \in SUBSET Nat, IsFiniteSet(S)
    PROVE  /\ Cardinality(S) \in Nat
           /\ \A x \in S : Cardinality(below(S, x)) \in 0 .. Cardinality(S) - 1
           /\ \A x, y \in S : Cardinality(below(S, x)) = Cardinality(below(S, y)) => x = y
           /\ \A k \in 0 .. Cardinality(S) - 1 : \E x \in S : Cardinality(below(S, x)) = k
<1> DEFINE r == [x \in S |-> Cardinality(below(S, x))]
           T == 0 .. Cardinality(S) - 1
<1>1. Cardinality(S) \in Nat
  BY FS_CardinalityType
<1>2. ASSUME NEW x \in S
      PROVE  /\ IsFiniteSet(below(S, x)) /\ Cardinality(below(S, x)) \in Nat
             /\ IsFiniteSet(below(S, x) \cup {x})
             /\ Cardinality(below(S, x) \cup {x}) = Cardinality(below(S, x)) + 1
  <2>1. below(S, x) \in SUBSET S
    BY DEF below
  <2>2. IsFiniteSet(below(S, x)) /\ Cardinality(below(S, x)) \in Nat
    BY <2>1, FS_Subset, FS_CardinalityType
  <2>3. x \notin below(S, x)
    BY DEF below
  <2> QED BY <2>2, <2>3, FS_AddElement
<1>3. ASSUME NEW x \in S PROVE Cardinality(below(S, x)) \in T
  <2>1. below(S, x) \cup {x} \in SUBSET S
    BY DEF below
  <2>2. Cardinality(below(S, x) \cup {x}) <= Cardinality(S)
    BY <2>1, FS_Subset, Zenon
  <2>3. Cardinality(below(S, x)) \in Nat /\ Cardinality(below(S, x)) + 1 <= Cardinality(S)
    BY <2>2, <1>2
  <2> QED BY <2>3, <1>1
<1>4. ASSUME NEW x \in S, NEW y \in S, x < y
      PROVE  Cardinality(below(S, x)) < Cardinality(below(S, y))
  <2>0. \A g \in S : g < x => g < y
    BY <1>4
  <2>1. below(S, x) \cup {x} \in SUBSET below(S, y)
    BY <2>0, <1>4 DEF below
  <2>2. Cardinality(below(S, x) \cup {x}) <= Cardinality(below(S, y))
    BY <2>1, <1>2, FS_Subset, Zenon
  <2>3. /\ Cardinality(below(S, x)) \in Nat /\ Cardinality(below(S, y)) \in Nat
        /\ Cardinality(below(S, x)) + 1 <= Cardinality(below(S, y))
    BY <2>2, <1>2
  <2> QED BY <2>3
<1>5. ASSUME NEW x \in S, NEW y \in S, Cardinality(below(S, x)) = Cardinality(below(S, y))
      PROVE  x = y
  <2>0. Cardinality(below(S, x)) \in Nat /\ Cardinality(below(S, y)) \in Nat
    BY <1>2
  <2>a. ASSUME x < y PROVE FALSE
    <3>1. Cardinality(below(S, x)) < Cardinality(below(S, y))
      BY <2>a, <1>4
    <3> QED BY <3>1, <2>0, <1>5
  <2>b. ASSUME y < x PROVE FALSE
    <3>1. Cardinality(below(S, y)) < Cardinality(below(S, x))
      BY <2>b, <1>4
    <3> QED BY <3>1, <2>0, <1>5
  <2>1. ~(x < y) /\ ~(y < x)
    BY <2>a, <2>b
  <2>2. x \in Nat /\ y \in Nat
    OBVIOUS
  <2> QED BY <2>1, <2>2
<1>6. r \in Injection(S, T)
  <2>1. r \in [S -> T]
    BY <1>3
  <2>2. \A x, y \in S : r[x] = r[y] => x = y
    BY <1>5
  <2> QED BY <2>1, <2>2, Fun_IsInj
<1>7. IsFiniteSet(T) /\ Cardinality(T) = Cardinality(S)
  <2>1. 0 \in Int /\ Cardinality(S) - 1 \in Int
    BY <1>1
  <2>2. IsFiniteSet(T) /\ Cardinality(T) = IF 0 > Cardinality(S) - 1 THEN 0
                                            ELSE Cardinality(S) - 1 - 0 + 1
    BY <2>1, FS_Interval
  <2> QED BY <1>1, <2>2
<1> HIDE DEF r, T
<1>8. r \in Surjection(S, T)
  BY <1>6, <1>7, FS_Injection
<1>9. \A k \in T : \E x \in S : r[x] = k
  BY <1>8, Fun_SurjectionProperties
<1> QED BY <1>1, <1>3, <1>5, <1>9 DEF r, T

\* alloc_page gives a free frame, and a different one each time.
LEMMA Lowest ==
    ASSUME NEW S \in SUBSET Frame
    PROVE  /\ IsFiniteSet(S) /\ Cardinality(S) \in Nat
           /\ \A k \in 1 .. Cardinality(S) : lowest(S, k) \in S
           /\ \A j, k \in 1 .. Cardinality(S) : lowest(S, j) = lowest(S, k) => j = k
<1>1. S \in SUBSET Nat /\ IsFiniteSet(S)
  <2>1. IsFiniteSet(Frame)
    BY VmAssumption, FS_Interval DEF Frame
  <2>2. Frame \subseteq Nat
    BY VmAssumption DEF Frame
  <2> QED BY <2>1, <2>2, FS_Subset
<1>2. Cardinality(S) \in Nat
  BY <1>1, Rank
<1>3. ASSUME NEW k \in 1 .. Cardinality(S)
      PROVE  lowest(S, k) \in S /\ Cardinality(below(S, lowest(S, k))) = k - 1
  <2>1. k - 1 \in 0 .. Cardinality(S) - 1
    BY <1>2
  <2>2. \E f \in S : Cardinality(below(S, f)) = k - 1
    BY <1>1, <2>1, Rank
  <2> QED BY <2>2 DEF lowest, below
<1>4. ASSUME NEW j \in 1 .. Cardinality(S), NEW k \in 1 .. Cardinality(S),
             lowest(S, j) = lowest(S, k)
      PROVE  j = k
  <2>1. j - 1 = k - 1
    BY <1>3, <1>4
  <2> QED BY <2>1, <1>2
<1> QED BY <1>1, <1>2, <1>3, <1>4

\* load_icode's next page exists.
LEMMA Least ==
    ASSUME NEW S \in SUBSET Nat, S # {}
    PROVE  \E x \in S : \A y \in S : x <= y
<1>1. PICK x \in S : \A y \in S : ~(<<y, x>> \in OpToRel(<, Nat))
  BY NatLessThanWellFounded, WFMin
<1>2. \A y \in S : ~(y < x)
  BY <1>1 DEF OpToRel
<1> QED BY <1>2

-----------------------------------------------------------------------------
(* What the operations on memory preserve. *)

LEMMA FrameFacts == NULL \notin Frame /\ boot_pgdir \notin Frame
BY VmAssumption DEF NULL, Frame, boot_pgdir

\* m with the contents r for the directory d, whose additional frames were free.
withDir(m, d, r, new) == [dir |-> newdir(m.dir, d, r), free |-> m.free \ new]

LEMMA WithDir ==
    ASSUME NEW m, MemType(m), NEW d \in Frame, NEW r \in DirType, NEW new
    PROVE  /\ MemType(withDir(m, d, r, new))
           /\ DOMAIN withDir(m, d, r, new).dir = DOMAIN m.dir \cup {d}
           /\ withDir(m, d, r, new).dir[d] = r
           /\ \A e \in DOMAIN m.dir \ {d} : withDir(m, d, r, new).dir[e] = m.dir[e]
           /\ withDir(m, d, r, new).free = m.free \ new
BY DEF MemType, withDir, newdir

LEMMA OwnFrames ==
    ASSUME NEW d \in Frame, NEW r \in DirType
    PROVE  own(d, r) \subseteq Frame /\ d \in own(d, r)
BY FrameFacts DEF own, DirType, PteType

LEMMA NewContents ==
    ASSUME NEW m, MemOK(m), NEW d \in Frame, NEW r \in DirType, Distinct(d, r),
           NEW new \in SUBSET m.free,
           d \in DOMAIN m.dir \/ d \in new,
           \A f : f \in own(d, r) <=>
                     f \in new \/ (d \in DOMAIN m.dir /\ f \in own(d, m.dir[d]))
    PROVE  MemOK(withDir(m, d, r, new))
<1> DEFINE w == withDir(m, d, r, new)
<1>1. /\ MemType(w) /\ DOMAIN w.dir = DOMAIN m.dir \cup {d} /\ w.dir[d] = r
      /\ \A e \in DOMAIN m.dir \ {d} : w.dir[e] = m.dir[e]
      /\ w.free = m.free \ new
  BY WithDir DEF MemOK
<1> HIDE DEF w
<1>2. \A e \in DOMAIN w.dir \ {d} : e \in DOMAIN m.dir /\ w.dir[e] = m.dir[e]
  BY <1>1
<1>3. \A e \in DOMAIN w.dir : Distinct(e, w.dir[e])
  BY <1>1, <1>2 DEF MemOK, Separate
<1>4. \A f \in own(d, r) : f \notin w.free
  BY <1>1 DEF MemOK, Separate
<1>5. ASSUME NEW e \in DOMAIN w.dir \ {d}
      PROVE  own(e, w.dir[e]) \cap w.free = {} /\ own(e, w.dir[e]) \cap own(d, r) = {}
  <2>1. own(e, m.dir[e]) \cap m.free = {}
    BY <1>2, <1>5 DEF MemOK, Separate
  <2>2. d \in DOMAIN m.dir => own(e, m.dir[e]) \cap own(d, m.dir[d]) = {}
    BY <1>2, <1>5 DEF MemOK, Separate
  <2>3. w.dir[e] = m.dir[e]
    BY <1>2, <1>5
  <2> QED BY <1>1, <2>1, <2>2, <2>3
<1>6. \A e, e2 \in DOMAIN w.dir : e # e2 => own(e, w.dir[e]) \cap own(e2, w.dir[e2]) = {}
  <2> SUFFICES ASSUME NEW e \in DOMAIN w.dir, NEW e2 \in DOMAIN w.dir, e # e2
               PROVE  own(e, w.dir[e]) \cap own(e2, w.dir[e2]) = {}
    OBVIOUS
  <2>1. CASE e = d
    BY <2>1, <1>1, <1>5
  <2>2. CASE e2 = d
    BY <2>2, <1>1, <1>5
  <2>3. CASE e # d /\ e2 # d
    BY <2>3, <1>2 DEF MemOK, Separate
  <2> QED BY <2>1, <2>2, <2>3
<1>7. \A f \in Frame : f \in w.free \/ \E e \in DOMAIN w.dir : f \in own(e, w.dir[e])
  <2> SUFFICES ASSUME NEW f \in Frame, f \notin w.free
               PROVE  \E e \in DOMAIN w.dir : f \in own(e, w.dir[e])
    OBVIOUS
  <2>1. CASE f \in own(d, r)
    BY <2>1, <1>1
  <2>2. CASE f \notin own(d, r)
    <3>1. f \notin m.free
      BY <2>2, <1>1
    <3>2. PICK e \in DOMAIN m.dir : f \in own(e, m.dir[e])
      BY <3>1 DEF MemOK, Separate
    <3>3. e # d
      BY <2>2, <3>2
    <3> QED BY <3>2, <3>3, <1>1
  <2> QED BY <2>1, <2>2
<1>8. \A e \in DOMAIN w.dir : own(e, w.dir[e]) \cap w.free = {}
  BY <1>1, <1>4, <1>5
<1>9. Separate(w)
  BY <1>3, <1>6, <1>7, <1>8 DEF Separate
<1> QED BY <1>1, <1>9 DEF MemOK, w

\* exit_mmap and put_pgdir give every frame of the address space back.
LEMMA ExitMmap ==
    ASSUME MemOK(mem), NEW d \in DOMAIN mem.dir
    PROVE  /\ MemOK(exit_mmap(mem, d))
           /\ DOMAIN exit_mmap(mem, d).dir = DOMAIN mem.dir \ {d}
           /\ \A e \in DOMAIN mem.dir \ {d} : exit_mmap(mem, d).dir[e] = mem.dir[e]
<1> DEFINE w == exit_mmap(mem, d)
<1>1. framesOf(d) = own(d, mem.dir[d])
  BY DEF framesOf, own
<1>2. /\ w = [dir |-> [e \in DOMAIN mem.dir \ {d} |-> mem.dir[e]],
               free |-> mem.free \cup own(d, mem.dir[d])]
  BY <1>1 DEF exit_mmap
<1>3. /\ DOMAIN w.dir = DOMAIN mem.dir \ {d}
      /\ \A e \in DOMAIN mem.dir \ {d} : w.dir[e] = mem.dir[e]
      /\ w.free = mem.free \cup own(d, mem.dir[d])
      /\ w = [dir |-> w.dir, free |-> w.free]
      /\ w.dir = [e \in DOMAIN w.dir |-> w.dir[e]]
  BY <1>2
<1> HIDE DEF w
<1>4. own(d, mem.dir[d]) \subseteq Frame
  BY OwnFrames DEF MemOK, MemType
<1>5. MemType(w)
  BY <1>3, <1>4 DEF MemOK, MemType
<1>6. Separate(w)
  <2>1. \A e \in DOMAIN w.dir : Distinct(e, w.dir[e])
    BY <1>3 DEF MemOK, Separate
  <2>2. \A e \in DOMAIN w.dir : own(e, w.dir[e]) \cap w.free = {}
    BY <1>3 DEF MemOK, Separate
  <2>3. \A e \in DOMAIN w.dir : \A e2 \in DOMAIN w.dir \ {e} :
            own(e, w.dir[e]) \cap own(e2, w.dir[e2]) = {}
    BY <1>3 DEF MemOK, Separate
  <2>4. \A f \in Frame : f \in w.free \/ \E e \in DOMAIN w.dir : f \in own(e, w.dir[e])
    BY <1>3 DEF MemOK, Separate
  <2> QED BY <2>1, <2>2, <2>3, <2>4 DEF Separate
<1> QED BY <1>3, <1>5, <1>6 DEF MemOK, w

LEMMA PteFacts ==
    /\ NoPte \in PteType /\ NoPte.page = NULL
    /\ \A f \in Frame \cup {NULL} : Pte(f) \in PteType /\ Pte(f).page = f
<1>1. 0 \in Slot
  BY VmAssumption DEF Slot
<1> QED BY <1>1 DEF NoPte, Pte, PteType

\* setup_pgdir makes an empty address space.
LEMMA SetupPgdir ==
    ASSUME NEW m, MemOK(m), Cardinality(m.free) >= 1
    PROVE  /\ MemOK(setup_pgdir(m))
           /\ lowest(m.free, 1) \in m.free /\ lowest(m.free, 1) \notin DOMAIN m.dir
           /\ DOMAIN setup_pgdir(m).dir = DOMAIN m.dir \cup {lowest(m.free, 1)}
           /\ setup_pgdir(m).dir[lowest(m.free, 1)] = Empty
           /\ \A e \in DOMAIN m.dir : setup_pgdir(m).dir[e] = m.dir[e]
<1> DEFINE d == lowest(m.free, 1)
<1>1. d \in m.free /\ d \in Frame
  BY Lowest DEF MemOK, MemType
<1> HIDE DEF d
<1>2. d \notin DOMAIN m.dir
  BY <1>1, OwnFrames DEF MemOK, MemType, Separate
<1>3. /\ Empty \in DirType /\ Empty.table = NULL
      /\ \A va \in VA : Empty.pte[va].page = NULL
  BY PteFacts DEF Empty, DirType
<1>4. Distinct(d, Empty) /\ \A f : f \in own(d, Empty) <=> f \in {d}
  BY <1>1, <1>3, FrameFacts DEF Distinct, own
<1>5. MemOK(withDir(m, d, Empty, {d}))
  BY <1>1, <1>2, <1>3, <1>4, NewContents
<1>6. setup_pgdir(m) = withDir(m, d, Empty, {d})
  BY DEF setup_pgdir, withDir, d
<1> QED BY <1>1, <1>2, <1>3, <1>5, <1>6, WithDir DEF MemOK, d

\* get_pte and pgdir_alloc_page: one more page, and the page table before it.
LEMMA PgdirAllocPage ==
    ASSUME NEW m, MemOK(m), NEW d \in DOMAIN m.dir, NEW va \in VA,
           m.dir[d].pte[va].page = NULL, Cardinality(m.free) >= 1 + tables(m, d)
    PROVE  /\ MemOK(pgdir_alloc_page(m, d, va))
           /\ DOMAIN pgdir_alloc_page(m, d, va).dir = DOMAIN m.dir
           /\ \A e \in DOMAIN m.dir \ {d} : pgdir_alloc_page(m, d, va).dir[e] = m.dir[e]
           /\ \A w \in VA \ {va} : pgdir_alloc_page(m, d, va).dir[d].pte[w].page = m.dir[d].pte[w].page
<1> DEFINE n == tables(m, d)
           page == lowest(m.free, n + 1)
           r == [table |-> IF n = 1 THEN lowest(m.free, 1) ELSE m.dir[d].table,
                 pte   |-> [m.dir[d].pte EXCEPT ![va] = Pte(page)]]
           new == lowestSet(m.free, n + 1)
<1>1. /\ n \in {0, 1} /\ (n = 1 <=> m.dir[d].table = NULL)
      /\ d \in Frame /\ m.dir[d] \in DirType /\ m.free \in SUBSET Frame
  BY DEF tables, MemOK, MemType
<1>2. m.dir[d].table \in Frame \cup {NULL} /\ m.dir[d].pte \in [VA -> PteType]
  BY <1>1 DEF DirType
<1>3. /\ page \in m.free /\ lowest(m.free, 1) \in m.free
      /\ n = 1 => lowest(m.free, 1) # page
  BY <1>1, Lowest
<1>4. new = {page} \cup (IF n = 1 THEN {lowest(m.free, 1)} ELSE {})
  BY <1>1 DEF lowestSet
<1>5. pgdir_alloc_page(m, d, va) = withDir(m, d, r, new)
  <2>1. newdir(m.dir, d, r) = [m.dir EXCEPT ![d] = r]
    BY DEF newdir, MemOK, MemType
  <2> QED BY <2>1 DEF pgdir_alloc_page, withDir
<1> HIDE DEF n, page
<1>6. /\ r.table = (IF n = 1 THEN lowest(m.free, 1) ELSE m.dir[d].table)
      /\ r.pte = [m.dir[d].pte EXCEPT ![va] = Pte(page)]
  OBVIOUS
<1>7. r.pte \in [VA -> PteType] /\ r.pte[va].page = page
      /\ \A w \in VA \ {va} : r.pte[w].page = m.dir[d].pte[w].page
  BY <1>1, <1>2, <1>3, <1>6, PteFacts
<1>8. r \in DirType
  BY <1>1, <1>2, <1>3, <1>6, <1>7 DEF DirType
<1> HIDE DEF r, new
<1>9. Distinct(d, m.dir[d]) /\ own(d, m.dir[d]) \cap m.free = {}
  BY DEF MemOK, Separate
<1>10. /\ d \notin m.free /\ m.dir[d].table \notin m.free
       /\ \A w \in VA : m.dir[d].pte[w].page \notin m.free
  BY <1>1, <1>9, FrameFacts DEF own
<1>11. Distinct(d, r)
  <2>1. d # r.table
    BY <1>3, <1>6, <1>9, <1>10 DEF Distinct
  <2>2. ASSUME NEW w \in VA, r.pte[w].page # NULL PROVE r.pte[w].page \notin {d, r.table}
    BY <2>2, <1>1, <1>3, <1>6, <1>7, <1>9, <1>10 DEF Distinct
  <2>3. ASSUME NEW v \in VA, NEW w \in VA, r.pte[v].page = r.pte[w].page, r.pte[v].page # NULL
        PROVE  v = w
    BY <2>3, <1>3, <1>7, <1>9, <1>10 DEF Distinct
  <2> QED BY <2>1, <2>2, <2>3 DEF Distinct
<1>12. \A f : f \in own(d, r) <=> f \in new \/ f \in own(d, m.dir[d])
  <2>1. \A f : f \in own(d, r) <=>
            f # NULL /\ (f = d \/ f = r.table \/ \E w \in VA : f = r.pte[w].page)
    BY DEF own
  <2>2. \A f : f \in own(d, m.dir[d]) <=>
            f # NULL /\ (f = d \/ f = m.dir[d].table \/ \E w \in VA : f = m.dir[d].pte[w].page)
    BY DEF own
  <2>3. page # NULL /\ lowest(m.free, 1) # NULL
    BY <1>1, <1>3, FrameFacts
  <2>4. \A f : f # NULL => ((\E w \in VA : f = r.pte[w].page) <=>
            f = page \/ \E w \in VA : f = m.dir[d].pte[w].page)
    BY <1>7
  <2>5. \A f : f # NULL => (f = r.table <=> f = m.dir[d].table \/ (n = 1 /\ f = lowest(m.free, 1)))
    BY <1>1, <1>6
  <2>6. \A f : f \in new <=> f = page \/ (n = 1 /\ f = lowest(m.free, 1))
    BY <1>4
  <2> SUFFICES ASSUME NEW f PROVE f \in own(d, r) <=> f \in new \/ f \in own(d, m.dir[d])
    OBVIOUS
  <2>7. CASE f = NULL
    BY <2>7, <2>1, <2>2, <2>3, <2>6
  <2>8. CASE f # NULL
    BY <2>8, <2>1, <2>2, <2>4, <2>5, <2>6
  <2> QED BY <2>7, <2>8
<1>13. new \in SUBSET m.free
  BY <1>3, <1>4
<1>14. MemOK(withDir(m, d, r, new))
  BY <1>1, <1>8, <1>11, <1>12, <1>13, NewContents
<1>15. /\ DOMAIN withDir(m, d, r, new).dir = DOMAIN m.dir \cup {d}
       /\ withDir(m, d, r, new).dir[d] = r
       /\ \A e \in DOMAIN m.dir \ {d} : withDir(m, d, r, new).dir[e] = m.dir[e]
  BY <1>1, <1>8, WithDir DEF MemOK
<1> QED BY <1>5, <1>7, <1>14, <1>15

\* The mapped pages of an address space are as many as its frames, apart from the
\* directory and the page table.
LEMMA Mapped ==
    ASSUME MemOK(mem), NEW d \in DOMAIN mem.dir
    PROVE  /\ Present(d) \in SUBSET Nat /\ IsFiniteSet(Present(d))
           /\ Cardinality(Present(d)) \in Nat
           /\ Cardinality(framesOf(d)) =
                  1 + (IF mem.dir[d].table = NULL THEN 0 ELSE 1) + Cardinality(Present(d))
<1> DEFINE S == Present(d)
           table == mem.dir[d].table
           pg == [va \in S |-> mem.dir[d].pte[va].page]
           P == {mem.dir[d].pte[va].page : va \in S}
           Q == IF table = NULL THEN P ELSE P \cup {table}
<1>1. /\ d \in Frame /\ mem.dir[d] \in DirType /\ Distinct(d, mem.dir[d])
      /\ table \in Frame \cup {NULL} /\ mem.dir[d].pte \in [VA -> PteType]
  BY DEF MemOK, MemType, Separate, DirType
<1>2. \A va \in VA : mem.dir[d].pte[va].page \in Frame \cup {NULL}
  BY <1>1 DEF PteType
<1>3. S \subseteq VA /\ S \in SUBSET Nat
  BY VmAssumption DEF Present
<1>4. P \subseteq Frame /\ pg \in [S -> P] /\ pg \in [S -> Frame]
  BY <1>2, <1>3 DEF Present
<1>5. \A v, w \in S : pg[v] = pg[w] => v = w
  BY <1>1, <1>3 DEF Distinct, Present
<1>6. \A f \in P : \E v \in S : pg[v] = f
  OBVIOUS
<1>7. IsFiniteSet(Frame)
  BY VmAssumption, FS_Interval DEF Frame
<1>8. pg \in Injection(S, Frame) /\ pg \in Injection(S, P) /\ pg \in Surjection(S, P)
  BY <1>4, <1>5, <1>6, Fun_IsInj, Fun_IsSurj
<1>f. framesOf(d) = Q \cup {d} /\ d \notin Q /\ (table # NULL => table \notin P)
  <2>1. \A f : f \in P <=> f # NULL /\ \E va \in VA : f = mem.dir[d].pte[va].page
    BY DEF Present
  <2>2. \A f : f \in framesOf(d) <=>
            f # NULL /\ (f = d \/ f = table \/ \E va \in VA : f = mem.dir[d].pte[va].page)
    BY DEF framesOf
  <2>3. d # NULL
    BY <1>1, FrameFacts
  <2>4. \A f : f \in framesOf(d) <=> f = d \/ (table # NULL /\ f = table) \/ f \in P
    BY <2>1, <2>2, <2>3
  <2>5. d \notin P /\ (table # NULL => table \notin P) /\ d # table
    BY ZenonT(30), <1>1, <2>1 DEF Distinct
  <2> QED BY <2>4, <2>5
<1> HIDE DEF S, pg, P, Q, table
<1>9. IsFiniteSet(S)
  BY <1>7, <1>8, FS_Injection
<1>10. IsFiniteSet(P) /\ Cardinality(P) = Cardinality(S)
  BY <1>8, <1>9, FS_Surjection
<1>11. Cardinality(S) \in Nat
  BY <1>9, FS_CardinalityType
<1>12. IsFiniteSet(Q) /\ Cardinality(Q) = (IF table = NULL THEN 0 ELSE 1) + Cardinality(S)
  <2>1. CASE table = NULL
    BY <2>1, <1>10, <1>11 DEF Q
  <2>2. CASE table # NULL
    <3>1. Q = P \cup {table} /\ table \notin P
      BY <2>2, <1>f DEF Q
    <3>2. IsFiniteSet(Q) /\ Cardinality(Q) = Cardinality(P) + 1
      BY <3>1, <1>10, FS_AddElement
    <3> QED BY <2>2, <3>2, <1>10, <1>11
  <2> QED BY <2>1, <2>2
<1>13. Cardinality(framesOf(d)) = Cardinality(Q) + 1
  BY <1>f, <1>12, FS_AddElement
<1>14. Cardinality(framesOf(d)) = 1 + (IF table = NULL THEN 0 ELSE 1) + Cardinality(S)
  BY <1>11, <1>12, <1>13
<1> QED BY <1>3, <1>9, <1>11, <1>14 DEF S, table

\* dup_mmap: the child's address space has frames of its own.
LEMMA DupMmap ==
    ASSUME MemOK(mem), NEW from \in DOMAIN mem.dir,
           Cardinality(mem.free) >= 2 + Cardinality(Present(from))
    PROVE  /\ MemOK(dup_mmap(mem, from))
           /\ lowest(mem.free, 1) \in mem.free /\ lowest(mem.free, 1) \notin DOMAIN mem.dir
           /\ DOMAIN dup_mmap(mem, from).dir = DOMAIN mem.dir \cup {lowest(mem.free, 1)}
           /\ \A e \in DOMAIN mem.dir : dup_mmap(mem, from).dir[e] = mem.dir[e]
<1> DEFINE here == Present(from)
           n == IF here = {} THEN 1 ELSE 2
           c == Cardinality(here)
           rank(va) == Cardinality({w \in here : w < va}) + 1
           l(k) == lowest(mem.free, k)
           d == l(1)
           r == [table |-> IF here = {} THEN NULL ELSE l(2),
                 pte   |-> [va \in VA |-> IF va \in here THEN Pte(l(n + rank(va))) ELSE NoPte]]
           new == lowestSet(mem.free, n + c)
<1>1. /\ here \in SUBSET VA /\ here \in SUBSET Nat /\ IsFiniteSet(here) /\ c \in Nat
      /\ mem.free \in SUBSET Frame
  BY Mapped DEF Present, MemOK, MemType
<1>2. n \in {1, 2} /\ (n = 1 <=> here = {}) /\ (here = {} => c = 0)
  BY <1>1, FS_EmptySet
<1>3. /\ \A va \in here : rank(va) \in 1 .. c
      /\ \A v, w \in here : rank(v) = rank(w) => v = w
      /\ \A k \in 1 .. c : \E va \in here : rank(va) = k
  <2>1. /\ \A x \in here : Cardinality(below(here, x)) \in 0 .. c - 1
        /\ \A x, y \in here : Cardinality(below(here, x)) = Cardinality(below(here, y)) => x = y
        /\ \A k \in 0 .. c - 1 : \E x \in here : Cardinality(below(here, x)) = k
    BY <1>1, Rank
  <2>2. \A x \in here : rank(x) = Cardinality(below(here, x)) + 1
    BY DEF below
  <2> HIDE DEF rank
  <2>3. \A va \in here : rank(va) \in 1 .. c
    BY <2>1, <2>2, <1>1
  <2>4. ASSUME NEW v \in here, NEW w \in here, rank(v) = rank(w) PROVE v = w
    <3>1. Cardinality(below(here, v)) = Cardinality(below(here, w))
      BY <2>1, <2>2, <2>4, <1>1
    <3> QED BY <3>1, <2>1
  <2>5. ASSUME NEW k \in 1 .. c PROVE \E va \in here : rank(va) = k
    <3>1. k - 1 \in 0 .. c - 1
      BY <1>1
    <3>2. PICK va \in here : Cardinality(below(here, va)) = k - 1
      BY <2>1, <3>1
    <3> QED BY <2>2, <3>2, <1>1
  <2> QED BY <2>3, <2>4, <2>5
<1> HIDE DEF c, rank
<1>4. /\ \A k \in 1 .. n + c : l(k) \in mem.free
      /\ \A j, k \in 1 .. n + c : l(j) = l(k) => j = k
  <2>1. Cardinality(mem.free) \in Nat /\ Cardinality(mem.free) >= n + c
    BY <1>1, <1>2, Lowest DEF c
  <2>2. \A k \in 1 .. n + c : k \in 1 .. Cardinality(mem.free)
    BY <2>1, <1>1, <1>2
  <2> QED BY <2>2, <1>1, Lowest
<1>5. dup_mmap(mem, from) = withDir(mem, d, r, new)
  BY DEF dup_mmap, withDir, c, rank
<1>6. \A f : f \in new <=> \E k \in 1 .. n + c : f = l(k)
  BY DEF lowestSet
<1> HIDE DEF l, n, here, new
<1>7. d \in mem.free /\ d \in Frame /\ d \in new
  <2>1. 1 \in 1 .. n + c
    BY <1>1, <1>2
  <2> QED BY <2>1, <1>1, <1>4, <1>6
<1>8. d \notin DOMAIN mem.dir
  BY <1>7, OwnFrames DEF MemOK, MemType, Separate
<1> HIDE DEF d
<1>9. \A va \in here : n + rank(va) \in 1 .. n + c /\ l(n + rank(va)) \in Frame
  <2>1. \A va \in here : n + rank(va) \in 1 .. n + c
    BY <1>1, <1>2, <1>3
  <2> QED BY <2>1, <1>1, <1>4
<1>10. here # {} => 2 \in 1 .. n + c /\ l(2) \in Frame
  <2>1. here # {} => 2 \in 1 .. n + c
    BY <1>1, <1>2
  <2> QED BY <2>1, <1>1, <1>4
<1>11. /\ r.table = (IF here = {} THEN NULL ELSE l(2))
       /\ \A va \in here : r.pte[va].page = l(n + rank(va))
       /\ \A va \in VA \ here : r.pte[va].page = NULL
  BY <1>1, <1>9, PteFacts
<1>12. r \in DirType
  <2>1. r.pte \in [VA -> PteType]
    BY <1>9, PteFacts
  <2> QED BY <2>1, <1>10 DEF DirType
<1> HIDE DEF r
<1>13. Distinct(d, r)
  <2>1. 1 \in 1 .. n + c /\ d = l(1)
    BY <1>1, <1>2 DEF d
  <2>2. d # r.table
    <3>1. CASE here = {}
      BY <3>1, <1>7, <1>11, FrameFacts
    <3>2. CASE here # {}
      BY <3>2, <2>1, <1>4, <1>10, <1>11
    <3> QED BY <3>1, <3>2
  <2>3. ASSUME NEW va \in VA, r.pte[va].page # NULL PROVE r.pte[va].page \notin {d, r.table}
    <3>1. va \in here /\ r.pte[va].page = l(n + rank(va)) /\ rank(va) \in 1 .. c
      BY <2>3, <1>3, <1>11
    <3>2. n + rank(va) # 1 /\ n = 2 /\ n + rank(va) # 2 /\ here # {}
      BY <3>1, <1>1, <1>2
    <3> QED BY <3>1, <3>2, <2>1, <1>4, <1>9, <1>10, <1>11
  <2>4. ASSUME NEW v \in VA, NEW w \in VA, r.pte[v].page = r.pte[w].page, r.pte[v].page # NULL
        PROVE  v = w
    <3>1. v \in here /\ w \in here
      BY <2>4, <1>11
    <3>2. n + rank(v) = n + rank(w)
      BY <2>4, <3>1, <1>4, <1>9, <1>11
    <3>3. rank(v) = rank(w)
      BY <3>1, <3>2, <1>2, <1>3
    <3> QED BY <3>1, <3>3, <1>3
  <2> QED BY <2>2, <2>3, <2>4 DEF Distinct
<1>14. \A f : f \in own(d, r) <=> f \in new
  <2>1. \A f : f \in own(d, r) <=>
            f # NULL /\ (f = d \/ f = r.table \/ \E w \in VA : f = r.pte[w].page)
    BY DEF own
  <2>2. ASSUME NEW f \in own(d, r) PROVE f \in new
    <3>1. CASE f = d
      BY <3>1, <1>7
    <3>2. CASE f = r.table
      BY <3>2, <2>1, <1>6, <1>10, <1>11
    <3>3. ASSUME NEW w \in VA, f = r.pte[w].page PROVE f \in new
      BY <3>3, <2>1, <1>6, <1>9, <1>11
    <3> QED BY <2>1, <3>1, <3>2, <3>3
  <2>3. ASSUME NEW k \in 1 .. n + c PROVE l(k) \in own(d, r)
    <3>1. l(k) # NULL
      BY <1>1, <1>4, FrameFacts
    <3>2. CASE k = 1
      BY <3>1, <3>2, <2>1 DEF d
    <3>3. CASE k = 2 /\ here # {}
      BY <3>1, <3>3, <2>1, <1>11
    <3>4. CASE k - n \in 1 .. c
      <4>1. PICK va \in here : rank(va) = k - n
        BY <3>4, <1>3
      <4>2. n + rank(va) = k
        BY <4>1, <1>2
      <4>3. va \in VA /\ r.pte[va].page = l(k)
        BY <4>2, <1>1, <1>11
      <4> QED BY <4>3, <3>1, <2>1
    <3>5. k = 1 \/ (k = 2 /\ here # {}) \/ k - n \in 1 .. c
      BY <1>1, <1>2
    <3> QED BY <3>2, <3>3, <3>4, <3>5
  <2> QED BY <2>2, <2>3, <1>6
<1>15. new \in SUBSET mem.free
  BY <1>4, <1>6
<1>16. MemOK(withDir(mem, d, r, new))
  BY <1>7, <1>8, <1>12, <1>13, <1>14, <1>15, NewContents
<1>17. /\ DOMAIN withDir(mem, d, r, new).dir = DOMAIN mem.dir \cup {d}
       /\ \A e \in DOMAIN mem.dir \ {d} : withDir(mem, d, r, new).dir[e] = mem.dir[e]
  BY <1>7, <1>12, WithDir DEF MemOK
<1>18. d = lowest(mem.free, 1)
  BY DEF d, l
<1> QED BY <1>5, <1>7, <1>8, <1>16, <1>17, <1>18

-----------------------------------------------------------------------------
(* The TLB. *)

LEMMA VaFacts ==
    /\ \A va \in VA : va \in Nat /\ hi(va) \in Int /\ TLBLO(va) \in {0, 1}
    /\ \A v, w \in VA : hi(v) = hi(w) /\ TLBLO(v) = TLBLO(w) => v = w
    /\ \A v, w \in VA : hi(v) = hi(w) /\ TLBLO(v) # TLBLO(w) => w = TLBPAIR(v)
<1>1. VA \subseteq Nat
  BY VmAssumption
<1> QED BY <1>1 DEF hi, TLBLO, TLBPAIR

\* An empty TLB translates nothing.
LEMMA EmptyTlb ==
    ASSUME tlb = [i \in Slot |-> Invalid]
    PROVE  TlbCoherent
BY VaFacts DEF TlbCoherent, Invalid

LEMMA LoadPgdir ==
    ASSUME TypeOK, NEW d, load_pgdir(d)
    PROVE  /\ cur_pgdir' = d
           /\ tlb' = [i \in Slot |-> Invalid]
           /\ tlb' \in [Slot -> [hi : Int, lo : [{0, 1} -> Frame \cup {NULL}]]]
           /\ algo' \in [empty : Seq(Slot), hi : [Slot -> Int], ptr : Slot]
           /\ TlbCoherent'
<1>1. Invalid \in [hi : Int, lo : [{0, 1} -> Frame \cup {NULL}]]
  BY DEF Invalid
<1> DEFINE E == [k \in 1 .. TLBN |-> k - 1]
           H == [i \in Slot |-> 0]
<1>2. E \in Seq(Slot) /\ H \in [Slot -> Int]
  BY VmAssumption DEF Slot
<1>3. algo' \in [empty : Seq(Slot), hi : [Slot -> Int], ptr : Slot]
  <2>1. algo' = [algo EXCEPT !.empty = E, !.hi = H]
    BY DEF load_pgdir
  <2> HIDE DEF E, H
  <2> QED BY <1>2, <2>1 DEF TypeOK
<1>4. tlb' = [i \in Slot |-> Invalid] /\ cur_pgdir' = d
  BY DEF load_pgdir
<1>5. TlbCoherent'
  BY <1>4, VaFacts DEF TlbCoherent, Invalid
<1> QED BY <1>1, <1>3, <1>4, <1>5

\* tlb_get_empty: a slot, and the same pages.
LEMMA GetEmpty ==
    ASSUME TypeOK, NEW d \in DirType, NEW h \in Int
    PROVE  LET e == tlb_get_empty(d, h)
           IN  /\ e.idx \in Slot
               /\ e.algo \in [empty : Seq(Slot), hi : [Slot -> Int], ptr : Slot]
               /\ e.pte \in [VA -> PteType]
               /\ \A va \in VA : e.pte[va].page = d.pte[va].page
<1> DEFINE n == Len(algo.empty)
           idx == IF n > 0 THEN algo.empty[n] ELSE algo.ptr
           a == IF n > 0
                THEN [algo EXCEPT !.empty = SubSeq(@, 1, n - 1), !.hi[idx] = h]
                ELSE [algo EXCEPT !.ptr = (@ + 1) % TLBN, !.hi[idx] = h]
           t == IF n > 0 THEN d.pte
                ELSE [va \in VA |-> IF hi(va) = algo.hi[idx] THEN Pte(d.pte[va].page)
                                    ELSE d.pte[va]]
<1>1. /\ algo.empty \in Seq(Slot) /\ algo.hi \in [Slot -> Int] /\ algo.ptr \in Slot
      /\ n \in Nat
  BY DEF TypeOK
<1>2. idx \in Slot
  BY <1>1
<1>3. tlb_get_empty(d, h) = [idx |-> idx, algo |-> a, pte |-> t]
  BY DEF tlb_get_empty
<1>4. a \in [empty : Seq(Slot), hi : [Slot -> Int], ptr : Slot]
  <2>1. CASE n > 0
    <3>1. SubSeq(algo.empty, 1, n - 1) \in Seq(Slot)
      BY <2>1, <1>1
    <3> HIDE DEF idx, n
    <3>2. [algo.hi EXCEPT ![idx] = h] \in [Slot -> Int]
      BY <1>1, <1>2
    <3> QED BY <2>1, <3>1, <3>2 DEF TypeOK
  <2>2. CASE ~(n > 0)
    <3>1. (algo.ptr + 1) % TLBN \in Slot
      BY <1>1, VmAssumption DEF Slot
    <3> HIDE DEF idx, n
    <3>2. [algo.hi EXCEPT ![idx] = h] \in [Slot -> Int]
      BY <1>1, <1>2
    <3> QED BY <2>2, <3>1, <3>2 DEF TypeOK
  <2> QED BY <2>1, <2>2
<1>5. d.pte \in [VA -> PteType] /\ \A va \in VA : d.pte[va].page \in Frame \cup {NULL}
  BY DEF DirType, PteType
<1> HIDE DEF n, idx
<1>6. t \in [VA -> PteType] /\ \A va \in VA : t[va].page = d.pte[va].page
  BY <1>5, PteFacts
<1> HIDE DEF a, t
<1> QED BY <1>2, <1>3, <1>4, <1>6

\* do_pgfault of a TLB miss.
LEMMA Faulted ==
    ASSUME MemOK(mem), cur_pgdir \in DOMAIN mem.dir, NEW va \in VA,
           Frames(IF mem.dir[cur_pgdir].pte[va].page # NULL THEN 0 ELSE 1 + tables(mem, cur_pgdir))
    PROVE  /\ MemOK(faulted(va))
           /\ DOMAIN faulted(va).dir = DOMAIN mem.dir
           /\ \A e \in DOMAIN mem.dir \ {cur_pgdir} : faulted(va).dir[e] = mem.dir[e]
           /\ \A w \in VA : mem.dir[cur_pgdir].pte[w].page # NULL =>
                 faulted(va).dir[cur_pgdir].pte[w].page = mem.dir[cur_pgdir].pte[w].page
<1>1. CASE mem.dir[cur_pgdir].pte[va].page # NULL
  BY <1>1 DEF faulted
<1>2. CASE mem.dir[cur_pgdir].pte[va].page = NULL
  <2>1. Cardinality(mem.free) >= 1 + tables(mem, cur_pgdir)
    BY <1>2 DEF Frames
  <2>2. faulted(va) = pgdir_alloc_page(mem, cur_pgdir, va)
    BY <1>2 DEF faulted
  <2> QED BY <1>2, <2>1, <2>2, PgdirAllocPage
<1> QED BY <1>1, <1>2

\* Where a process in user mode or in a system call runs.
LEMMA RunsInSpace ==
    ASSUME VmInv, NEW p \in Proc, Runs(p, UserModes)
    PROVE  /\ cur_pgdir = mm[p] /\ mm[p] # NULL /\ mm[p] \in DOMAIN mem.dir
           /\ \A q \in Proc : newmm[q] # mm[p]
BY DEF VmInv, Switched, Spaces, Holders, Held, Runs

LEMMA MissStep ==
    ASSUME VmInv, NEW p \in Proc, NEW va \in VA, Miss(p, va)
    PROVE  VmInv'
<1> DEFINE c == cur_pgdir
           m == faulted(va)
           d == m.dir[c]
           with == paired(d, va)
           e == IF with THEN [idx |-> d.pte[TLBPAIR(va)].idx, algo |-> algo, pte |-> d.pte]
                ELSE tlb_get_empty(d, hi(va))
           lo == [h \in {0, 1} |-> IF h = TLBLO(va) THEN d.pte[va].page
                                   ELSE IF with THEN d.pte[TLBPAIR(va)].page ELSE NULL]
           entry == [page |-> d.pte[va].page, TLB_P |-> TRUE, idx |-> e.idx]
           X == [e.pte EXCEPT ![va] = entry]
<1>1. /\ Runs(p, UserModes) /\ ~hit(va)
      /\ Frames(IF mem.dir[c].pte[va].page # NULL THEN 0 ELSE 1 + tables(mem, c))
      /\ tlb_miss_handler(va)
      /\ UNCHANGED <<st, mm, pgdir, newmm, current, cur_pgdir, instr>>
  BY DEF Miss, UserModes
<1>2. /\ c = mm[p] /\ c \in DOMAIN mem.dir /\ \A q \in Proc : newmm[q] # c
  BY <1>1, RunsInSpace
<1>3. /\ MemOK(m) /\ DOMAIN m.dir = DOMAIN mem.dir
      /\ \A f \in DOMAIN mem.dir \ {c} : m.dir[f] = mem.dir[f]
      /\ \A w \in VA : mem.dir[c].pte[w].page # NULL => d.pte[w].page = mem.dir[c].pte[w].page
  <2>1. MemOK(mem)
    BY DEF MemOK, VmInv, TypeOK
  <2> QED BY <1>1, <1>2, <2>1, Faulted
<1>4. /\ tlb' = [tlb EXCEPT ![e.idx] = [hi |-> hi(va), lo |-> lo]]
      /\ algo' = e.algo
      /\ mem' = [m EXCEPT !.dir[c].pte = X]
  BY <1>1 DEF tlb_miss_handler
<1> HIDE DEF m
<1>5. c \in Frame /\ d \in DirType
  BY <1>2, <1>3 DEF MemOK, MemType
<1>6. /\ mem'.dir = newdir(m.dir, c, [d EXCEPT !.pte = X])
      /\ mem' = withDir(m, c, [d EXCEPT !.pte = X], {})
  <2>1. m = [dir |-> m.dir, free |-> m.free] /\ m.dir = [f \in DOMAIN m.dir |-> m.dir[f]]
        /\ c \in DOMAIN m.dir
    BY <1>2, <1>3 DEF MemOK, MemType
  <2>2. newdir(m.dir, c, [d EXCEPT !.pte = X]) = [m.dir EXCEPT ![c].pte = X]
    <3> HIDE DEF X
    <3> QED BY <2>1 DEF newdir
  <2>3. m.free \ {} = m.free
    OBVIOUS
  <2> HIDE DEF X, d
  <2>4. mem' = [dir |-> [m.dir EXCEPT ![c].pte = X], free |-> m.free]
    BY <1>4, <2>1
  <2> QED BY <2>2, <2>3, <2>4 DEF withDir
<1>7. /\ e.idx \in Slot
      /\ e.algo \in [empty : Seq(Slot), hi : [Slot -> Int], ptr : Slot]
      /\ e.pte \in [VA -> PteType]
      /\ \A w \in VA : e.pte[w].page = d.pte[w].page
  <2> HIDE DEF d
  <2>1. CASE with
    <3>1. d.pte \in [VA -> PteType] /\ TLBPAIR(va) \in VA
      BY <2>1, <1>5 DEF DirType, paired
    <3>2. d.pte[TLBPAIR(va)].idx \in Slot
      BY <3>1 DEF PteType
    <3> QED BY <2>1, <3>1, <3>2 DEF VmInv, TypeOK
  <2>2. CASE ~with
    <3>1. e = tlb_get_empty(d, hi(va))
      BY <2>2
    <3>2. TypeOK /\ hi(va) \in Int
      BY VaFacts DEF VmInv
    <3> QED BY <1>5, <3>1, <3>2, GetEmpty
  <2> QED BY <2>1, <2>2
<1>8. /\ \A w \in VA : d.pte[w].page \in Frame \cup {NULL}
      /\ with => TLBPAIR(va) \in VA
  BY <1>5 DEF DirType, PteType, paired
<1> HIDE DEF d, e
<1>9. entry \in PteType /\ entry.page = d.pte[va].page
  BY <1>7, <1>8 DEF PteType
<1> HIDE DEF entry
<1>10. X \in [VA -> PteType] /\ \A w \in VA : X[w].page = d.pte[w].page
  BY <1>7, <1>9
<1> HIDE DEF X
<1> DEFINE r == [d EXCEPT !.pte = X]
<1>11. r \in DirType /\ r.table = d.table /\ r.pte = X
  BY <1>5, <1>10 DEF DirType
<1> HIDE DEF r
<1>12. Distinct(c, r) /\ \A f : f \in own(c, r) <=> f \in own(c, d)
  <2>1. Distinct(c, d)
    BY <1>2, <1>3 DEF MemOK, Separate, d
  <2>2. Distinct(c, r)
    BY <2>1, <1>10, <1>11 DEF Distinct
  <2>3. {r.pte[w].page : w \in VA} = {d.pte[w].page : w \in VA}
    BY <1>10, <1>11
  <2>4. own(c, r) = own(c, d)
    BY <2>3, <1>11 DEF own
  <2> QED BY <2>2, <2>4
<1>13. MemOK(mem')
  <2>1. mem' = withDir(m, c, r, {})
    BY <1>6 DEF r
  <2>2. c \in DOMAIN m.dir /\ {} \in SUBSET m.free /\ d = m.dir[c]
    BY <1>2, <1>3 DEF d
  <2> QED BY <1>3, <1>5, <1>11, <1>12, <2>1, <2>2, NewContents
<1>14. /\ DOMAIN mem'.dir = DOMAIN mem.dir
       /\ mem'.dir[c].pte = X
       /\ \A f \in DOMAIN mem.dir \ {c} : mem'.dir[f] = mem.dir[f]
  BY ZenonT(30), <1>2, <1>3, <1>6, <1>11 DEF newdir, r
<1>15. lo \in [{0, 1} -> Frame \cup {NULL}]
  BY <1>8
<1>16. lo[TLBLO(va)] = d.pte[va].page
       /\ \A w \in VA : TLBLO(w) # TLBLO(va) /\ hi(w) = hi(va) /\ lo[TLBLO(w)] # NULL =>
              lo[TLBLO(w)] = d.pte[w].page
  BY VaFacts
<1> HIDE DEF lo, with
<1>17. TypeOK'
  <2>1. tlb' \in [Slot -> [hi : Int, lo : [{0, 1} -> Frame \cup {NULL}]]]
    BY <1>4, <1>15, VaFacts DEF VmInv, TypeOK
  <2>2. MemType(mem)'
    BY <1>13 DEF MemOK
  <2> QED BY <1>1, <1>4, <1>7, <2>1, <2>2 DEF VmInv, TypeOK
<1>18. TlbCoherent'
  <2> SUFFICES ASSUME NEW i \in Slot, NEW w \in VA, tlb'[i].hi = hi(w), tlb'[i].lo[TLBLO(w)] # NULL
               PROVE  mem'.dir[c].pte[w].page = tlb'[i].lo[TLBLO(w)]
    BY <1>1, <1>2, <1>14 DEF TlbCoherent
  <2>1. CASE i = e.idx
    <3>1. tlb'[i].hi = hi(va) /\ tlb'[i].lo = lo
      BY <2>1, <1>4, <1>7 DEF VmInv, TypeOK
    <3>2. CASE TLBLO(w) = TLBLO(va)
      <4>1. w = va
        BY <3>1, <3>2, VaFacts
      <4> QED BY <3>1, <4>1, <1>10, <1>14, <1>16
    <3>3. CASE TLBLO(w) # TLBLO(va)
      BY <3>1, <3>3, <1>10, <1>14, <1>16
    <3> QED BY <3>2, <3>3
  <2>2. CASE i # e.idx
    <3>1. tlb'[i] = tlb[i]
      BY <2>2, <1>4 DEF VmInv, TypeOK
    <3>2. mem.dir[c].pte[w].page = tlb[i].lo[TLBLO(w)]
      BY <3>1 DEF VmInv, TlbCoherent
    <3>3. d.pte[w].page = mem.dir[c].pte[w].page
      BY <3>1, <3>2, <1>3
    <3> QED BY <3>1, <3>2, <3>3, <1>10, <1>14
  <2> QED BY <2>1, <2>2
<1>19. Holders' /\ Switched'
  BY <1>1, <1>14 DEF VmInv, Holders, Held, Switched, Runs
<1>20. Spaces'
  <2>1. \A q \in Proc : newmm[q] # NULL => Present(newmm[q])' = Present(newmm[q])
    <3>1. \A q \in Proc : newmm[q] # NULL => newmm[q] \in DOMAIN mem.dir \ {c}
      BY <1>2 DEF VmInv, Holders, Held
    <3> QED BY <1>1, <1>14, <3>1 DEF Present
  <2> QED BY <1>1, <2>1 DEF VmInv, Spaces
<1> QED BY <1>13, <1>17, <1>18, <1>19, <1>20 DEF VmInv, MemOK

-----------------------------------------------------------------------------
(* Each step preserves the invariant. *)

LEMMA InitVm == Init => VmInv
<1> SUFFICES ASSUME Init PROVE VmInv
  OBVIOUS
<1>1. mem.dir = <<>> /\ mem.free = Frame /\ DOMAIN mem.dir = {}
      /\ mem = [dir |-> mem.dir, free |-> mem.free]
      /\ mem.dir = [d \in DOMAIN mem.dir |-> mem.dir[d]]
  BY DEF Init
<1>2. /\ \A p \in Proc : mm[p] = NULL /\ newmm[p] = NULL /\ st[p] = "none"
      /\ current = idle /\ current \notin Proc
      /\ tlb = [i \in Slot |-> Invalid]
  BY VmAssumption DEF Init
<1>3. MemType(mem) /\ Separate(mem)
  BY <1>1 DEF MemType, Separate
<1>4. TypeOK
  <2>1. Invalid \in [hi : Int, lo : [{0, 1} -> Frame \cup {NULL}]]
    BY DEF Invalid
  <2> DEFINE E == [k \in 1 .. TLBN |-> k - 1]
             H == [i \in Slot |-> 0]
  <2>2. E \in Seq(Slot) /\ H \in [Slot -> Int] /\ 0 \in Slot
    BY VmAssumption DEF Slot
  <2>3. algo = [empty |-> E, hi |-> H, ptr |-> 0]
    BY DEF Init
  <2> HIDE DEF E, H
  <2>4. algo \in [empty : Seq(Slot), hi : [Slot -> Int], ptr : Slot]
    BY <2>2, <2>3
  <2> QED BY <2>1, <2>4, <1>2, <1>3 DEF Init, TypeOK, UserModes
<1>5. Holders
  BY <1>1, <1>2 DEF Holders, Held
<1>6. Spaces /\ Switched
  BY <1>2 DEF Spaces, Switched, UserModes, Runs
<1>7. TlbCoherent
  BY <1>2, EmptyTlb
<1> QED BY <1>3, <1>4, <1>5, <1>6, <1>7 DEF VmInv

\* Steps that leave memory, the holders and the TLB alone.
LEMMA ModeStep ==
    ASSUME VmInv,
           UNCHANGED <<mm, newmm, mem, current, cur_pgdir, tlb, algo>>,
           st' \in [Proc -> UserModes \cup {"none", "exec", "exit", "zombie"}],
           pgdir' \in [Proc -> Frame \cup {NULL, boot_pgdir}],
           \A q \in Proc : /\ st'[q] \in UserModes <=> st[q] \in UserModes
                           /\ st[q] = "exec" => st'[q] = "exec"
                           /\ st[q] \in UserModes => pgdir'[q] = pgdir[q]
    PROVE  VmInv'
<1>1. TypeOK' /\ Separate(mem)' /\ Holders' /\ TlbCoherent'
  <2>1. MemType(mem)' /\ Separate(mem)'
    BY DEF VmInv, TypeOK, MemType, Separate
  <2>2. TypeOK'
    BY <2>1 DEF VmInv, TypeOK
  <2>3. Holders' /\ TlbCoherent'
    BY DEF VmInv, Holders, Held, TlbCoherent
  <2> QED BY <2>1, <2>2, <2>3
<1>2. Spaces'
  BY DEF VmInv, Spaces, Present
<1>3. \A q \in Proc : Runs(q, UserModes)' <=> Runs(q, UserModes)
  BY DEF Runs
<1>4. Switched'
  BY <1>3 DEF VmInv, Switched
<1> QED BY <1>1, <1>2, <1>4 DEF VmInv

LEMMA RetireStep ==
    ASSUME VmInv, NEW p \in Proc, Retire(p) \/ Syscall(p) \/ Sysret(p) PROVE VmInv'
<1>1. CASE Retire(p)
  BY <1>1, ModeStep DEF Retire, VmInv, TypeOK
<1>2. CASE Syscall(p) \/ Sysret(p)
  <2>1. /\ st[p] \in UserModes
        /\ \E x \in UserModes : st' = [st EXCEPT ![p] = x]
        /\ UNCHANGED <<mm, pgdir, newmm, mem, current, cur_pgdir, tlb, algo>>
    BY <1>2 DEF Syscall, Sysret, Runs, UserModes
  <2>2. \A q \in Proc : /\ st'[q] \in UserModes <=> st[q] \in UserModes
                        /\ st[q] = "exec" => st'[q] = "exec"
    BY <2>1 DEF VmInv, TypeOK, UserModes
  <2>3. st' \in [Proc -> UserModes \cup {"none", "exec", "exit", "zombie"}]
    BY <2>1 DEF VmInv, TypeOK
  <2> QED BY <2>1, <2>2, <2>3, ModeStep DEF VmInv, TypeOK
<1> QED BY <1>1, <1>2

LEMMA SpawnStep ==
    ASSUME VmInv, NEW q \in Proc, Spawn(q) PROVE VmInv'
<1>1. /\ \A p \in Proc : st[p] = "none"
      /\ st' = [st EXCEPT ![q] = "exec"] /\ pgdir' = [pgdir EXCEPT ![q] = boot_pgdir]
      /\ UNCHANGED <<mm, newmm, mem, current, cur_pgdir, tlb, algo>>
  BY DEF Spawn
<1>2. \A p \in Proc : st'[p] \notin UserModes /\ st[p] \notin UserModes /\ st[p] # "exec"
  BY <1>1 DEF VmInv, TypeOK, UserModes
<1>3. st' \in [Proc -> UserModes \cup {"none", "exec", "exit", "zombie"}]
      /\ pgdir' \in [Proc -> Frame \cup {NULL, boot_pgdir}]
  BY <1>1 DEF VmInv, TypeOK
<1> QED BY <1>1, <1>2, <1>3, ModeStep

LEMMA ExitEndsStep ==
    ASSUME VmInv, NEW p \in Proc, ExitEnds(p) \/ Reap(p) PROVE VmInv'
<1>1. /\ st[p] \in {"exit", "zombie"}
      /\ \E x \in {"zombie", "none"} : st' = [st EXCEPT ![p] = x]
      /\ pgdir' = [pgdir EXCEPT ![p] = NULL] \/ pgdir' = pgdir
      /\ UNCHANGED <<mm, newmm, mem, current, cur_pgdir, tlb, algo>>
  BY DEF ExitEnds, Reap, Runs
<1>2. \A q \in Proc : /\ st'[q] \in UserModes <=> st[q] \in UserModes
                      /\ st[q] = "exec" => st'[q] = "exec"
                      /\ st[q] \in UserModes => pgdir'[q] = pgdir[q]
  BY <1>1 DEF VmInv, TypeOK, UserModes
<1>3. st' \in [Proc -> UserModes \cup {"none", "exec", "exit", "zombie"}]
      /\ pgdir' \in [Proc -> Frame \cup {NULL, boot_pgdir}]
  BY <1>1 DEF VmInv, TypeOK
<1> QED BY <1>1, <1>2, <1>3, ModeStep

\* proc_run: pgdir[p] is the process's own directory where that matters.
LEMMA ProcRunStep ==
    ASSUME VmInv, NEW p \in Proc \cup {idle}, proc_run(p) PROVE VmInv'
<1>1. /\ current' = p /\ load_pgdir(IF p = idle THEN boot_pgdir ELSE pgdir[p])
      /\ UNCHANGED <<st, mm, pgdir, newmm, mem>>
  BY DEF proc_run
<1>2. /\ cur_pgdir' = (IF p = idle THEN boot_pgdir ELSE pgdir[p])
      /\ tlb' = [i \in Slot |-> Invalid]
      /\ tlb' \in [Slot -> [hi : Int, lo : [{0, 1} -> Frame \cup {NULL}]]]
      /\ algo' \in [empty : Seq(Slot), hi : [Slot -> Int], ptr : Slot]
      /\ TlbCoherent'
  BY <1>1, LoadPgdir DEF VmInv
<1>3. TypeOK' /\ Separate(mem)' /\ Holders' /\ Spaces'
  <2>1. MemType(mem)' /\ Separate(mem)'
    BY <1>1 DEF VmInv, TypeOK, MemType, Separate
  <2>2. TypeOK'
    BY <1>1, <1>2, <2>1 DEF VmInv, TypeOK
  <2>3. Holders' /\ Spaces'
    BY <1>1 DEF VmInv, Holders, Held, Spaces, Present
  <2> QED BY <2>1, <2>2, <2>3
<1>4. Switched'
  BY <1>1, <1>2, VmAssumption DEF VmInv, Spaces, Switched, Runs
<1> QED BY <1>2, <1>3, <1>4 DEF VmInv

LEMMA ForkStep ==
    ASSUME VmInv, NEW p \in Proc, NEW q \in Proc, Fork(p, q) PROVE VmInv'
<1> DEFINE d == lowest(mem.free, 1)
<1>1. /\ Runs(p, UserModes) /\ st[p] \in UserModes /\ st[q] = "none"
      /\ Frames(2 + Cardinality(Present(mm[p])))
      /\ mem' = dup_mmap(mem, mm[p])
      /\ mm' = [mm EXCEPT ![q] = d] /\ pgdir' = [pgdir EXCEPT ![q] = d]
      /\ st' = [st EXCEPT ![q] = "user"]
      /\ UNCHANGED <<newmm, current, cur_pgdir, tlb, algo>>
  BY DEF Fork, Runs, UserModes
<1>2. MemOK(mem) /\ mm[p] \in DOMAIN mem.dir /\ cur_pgdir = mm[p]
  BY <1>1, RunsInSpace DEF VmInv, TypeOK, MemOK
<1>3. /\ MemOK(mem') /\ d \in mem.free /\ d \in Frame /\ d \notin DOMAIN mem.dir
      /\ DOMAIN mem'.dir = DOMAIN mem.dir \cup {d}
      /\ \A e \in DOMAIN mem.dir : mem'.dir[e] = mem.dir[e]
  BY <1>1, <1>2, DupMmap DEF Frames, MemOK, MemType
<1> HIDE DEF d
<1>4. d # NULL /\ q # p /\ mm[q] = NULL /\ newmm[q] = NULL
  BY <1>1, <1>3, FrameFacts DEF VmInv, Spaces, UserModes
<1>5. TypeOK'
  BY <1>1, <1>3 DEF VmInv, TypeOK, MemOK, UserModes
<1>6. \A x \in Proc : mm[x] # d /\ newmm[x] # d
  BY <1>3, <1>4 DEF VmInv, Holders, Held
<1>7. /\ mm'[q] = d /\ st'[q] = "user" /\ pgdir'[q] = d
      /\ \A x \in Proc \ {q} : mm'[x] = mm[x] /\ st'[x] = st[x] /\ pgdir'[x] = pgdir[x]
  BY <1>1 DEF VmInv, TypeOK
<1>8. Holders'
  <2>1. \A f : f \in Held' <=> f \in Held \/ f = d
    BY <1>1, <1>4, <1>7 DEF Held
  <2>2. DOMAIN mem'.dir = Held'
    BY <2>1, <1>3 DEF VmInv, Holders
  <2>3. \A x, y \in Proc : mm'[x] # NULL => mm'[x] # newmm'[y] /\ (x # y => mm'[x] # mm'[y])
    BY <1>1, <1>6, <1>7 DEF VmInv, Holders
  <2>4. \A x, y \in Proc : newmm'[x] # NULL /\ x # y => newmm'[x] # newmm'[y]
    BY <1>1 DEF VmInv, Holders
  <2> QED BY <2>2, <2>3, <2>4 DEF Holders
<1>9. Spaces'
  <2>1. \A x \in Proc : newmm[x] # NULL => Present(newmm[x])' = Present(newmm[x])
    <3>1. \A x \in Proc : newmm[x] # NULL => newmm[x] \in DOMAIN mem.dir
      BY DEF VmInv, Holders, Held
    <3> QED BY <1>1, <1>3, <3>1 DEF Present
  <2> QED BY <1>1, <1>4, <1>7, <2>1 DEF VmInv, Spaces, UserModes
<1>10. Switched'
  <2>1. p = current /\ current # q
    BY <1>1, <1>4 DEF Runs
  <2> QED BY <1>1, <1>2, <1>4, <1>7, <2>1 DEF Switched, Runs
<1>11. TlbCoherent'
  BY <1>1, <1>2, <1>3 DEF VmInv, TlbCoherent
<1> QED BY <1>3, <1>5, <1>8, <1>9, <1>10, <1>11 DEF VmInv, MemOK

\* do_execve and do_exit give up the address space.
LEMMA DropStep ==
    ASSUME VmInv, NEW p \in Proc, Exec(p) \/ Exit(p) PROVE VmInv'
<1> DEFINE d == mm[p]
<1>1. PICK to \in {"exec", "exit"} : drop_mm(p, to) /\ Runs(p, UserModes)
  BY DEF Exec, Exit, Runs, UserModes
<1>2. /\ load_pgdir(boot_pgdir) /\ mem' = exit_mmap(mem, d)
      /\ mm' = [mm EXCEPT ![p] = NULL] /\ st' = [st EXCEPT ![p] = to]
      /\ UNCHANGED <<pgdir, newmm, current>>
  BY <1>1 DEF drop_mm
<1>3. MemOK(mem) /\ d \in DOMAIN mem.dir /\ d # NULL /\ \A q \in Proc : newmm[q] # d
  BY <1>1, RunsInSpace DEF VmInv, TypeOK, MemOK
<1>4. /\ MemOK(mem') /\ DOMAIN mem'.dir = DOMAIN mem.dir \ {d}
      /\ \A e \in DOMAIN mem.dir \ {d} : mem'.dir[e] = mem.dir[e]
  BY <1>2, <1>3, ExitMmap
<1>5. /\ tlb' = [i \in Slot |-> Invalid]
      /\ tlb' \in [Slot -> [hi : Int, lo : [{0, 1} -> Frame \cup {NULL}]]]
      /\ algo' \in [empty : Seq(Slot), hi : [Slot -> Int], ptr : Slot]
      /\ TlbCoherent'
  BY <1>2, LoadPgdir DEF VmInv
<1>6. TypeOK'
  BY <1>2, <1>4, <1>5 DEF VmInv, TypeOK, MemOK
<1>7. /\ mm'[p] = NULL /\ st'[p] = to
      /\ \A x \in Proc \ {p} : mm'[x] = mm[x] /\ st'[x] = st[x]
  BY <1>2 DEF VmInv, TypeOK
<1>8. Holders'
  <2>1. \A x \in Proc \ {p} : mm[x] # d
    BY <1>3 DEF VmInv, Holders
  <2>2. \A f : f \in Held' <=> f \in Held /\ f # d
    BY <2>1, <1>2, <1>3, <1>7 DEF Held
  <2>3. DOMAIN mem'.dir = Held'
    BY <2>2, <1>4 DEF VmInv, Holders
  <2>4. \A x, y \in Proc : mm'[x] # NULL => mm'[x] # newmm'[y] /\ (x # y => mm'[x] # mm'[y])
    BY <1>2, <1>7 DEF VmInv, Holders
  <2>5. \A x, y \in Proc : newmm'[x] # NULL /\ x # y => newmm'[x] # newmm'[y]
    BY <1>2 DEF VmInv, Holders
  <2> QED BY <2>3, <2>4, <2>5 DEF Holders
<1>9. Spaces'
  <2>1. \A x \in Proc : newmm[x] # NULL => Present(newmm[x])' = Present(newmm[x])
    <3>1. \A x \in Proc : newmm[x] # NULL => newmm[x] \in DOMAIN mem.dir \ {d}
      BY <1>3 DEF VmInv, Holders, Held
    <3> QED BY <1>2, <1>4, <3>1 DEF Present
  <2>2. st'[p] \notin UserModes /\ newmm[p] = NULL
    BY <1>1, <1>7 DEF VmInv, Spaces, UserModes, Runs
  <2> QED BY <1>2, <1>7, <2>1, <2>2 DEF VmInv, Spaces
<1>10. Switched'
  <2>1. \A x \in Proc : ~Runs(x, UserModes)'
    BY <1>1, <1>2, <1>7 DEF Runs, UserModes
  <2> QED BY <2>1, <1>5 DEF Switched
<1> QED BY <1>4, <1>5, <1>6, <1>8, <1>9, <1>10 DEF VmInv, MemOK

\* While a process executes load_icode the TLB is empty.
LEMMA LoadingTlb ==
    ASSUME VmInv, NEW p \in Proc, Runs(p, {"exec"}) PROVE tlb = [i \in Slot |-> Invalid]
BY DEF VmInv, Switched, Runs, UserModes

LEMMA LoadStartStep ==
    ASSUME VmInv, NEW p \in Proc, LoadStart(p) PROVE VmInv'
<1> DEFINE d == lowest(mem.free, 1)
<1>1. /\ Runs(p, {"exec"}) /\ newmm[p] = NULL /\ Frames(1)
      /\ newmm' = [newmm EXCEPT ![p] = d] /\ mem' = setup_pgdir(mem)
      /\ UNCHANGED <<st, mm, pgdir, current, cur_pgdir, tlb, algo>>
  BY DEF LoadStart
<1>2. MemOK(mem)
  BY DEF VmInv, TypeOK, MemOK
<1>3. /\ MemOK(mem') /\ d \in mem.free /\ d \in Frame /\ d \notin DOMAIN mem.dir
      /\ DOMAIN mem'.dir = DOMAIN mem.dir \cup {d} /\ mem'.dir[d] = Empty
      /\ \A e \in DOMAIN mem.dir : mem'.dir[e] = mem.dir[e]
  BY <1>1, <1>2, SetupPgdir DEF Frames, MemOK, MemType
<1> HIDE DEF d
<1>4. d # NULL
  BY <1>3, FrameFacts
<1>5. TypeOK'
  BY <1>1, <1>3 DEF VmInv, TypeOK, MemOK
<1>6. \A x \in Proc : mm[x] # d /\ newmm[x] # d
  BY <1>3, <1>4 DEF VmInv, Holders, Held
<1>7. newmm'[p] = d /\ \A x \in Proc \ {p} : newmm'[x] = newmm[x]
  BY <1>1 DEF VmInv, TypeOK
<1>8. Holders'
  <2>1. \A f : f \in Held' <=> f \in Held \/ f = d
    BY <1>1, <1>4, <1>7 DEF Held
  <2>2. DOMAIN mem'.dir = Held'
    BY <2>1, <1>3 DEF VmInv, Holders
  <2>3. \A x, y \in Proc : mm'[x] # NULL => mm'[x] # newmm'[y] /\ (x # y => mm'[x] # mm'[y])
    BY <1>1, <1>6, <1>7 DEF VmInv, Holders
  <2>4. \A x, y \in Proc : newmm'[x] # NULL /\ x # y => newmm'[x] # newmm'[y]
    BY <1>6, <1>7 DEF VmInv, Holders
  <2> QED BY <2>2, <2>3, <2>4 DEF Holders
<1>9. Spaces'
  <2>1. \A x \in Proc \ {p} : newmm[x] # NULL => Present(newmm[x])' = Present(newmm[x])
    <3>1. \A x \in Proc : newmm[x] # NULL => newmm[x] \in DOMAIN mem.dir
      BY DEF VmInv, Holders, Held
    <3> QED BY <1>3, <1>7, <3>1 DEF Present
  <2>2. Present(newmm[p])' = {}
    BY <1>3, <1>7, PteFacts DEF Present, Empty
  <2>3. st[p] = "exec"
    BY <1>1 DEF Runs
  <2> QED BY <1>1, <1>7, <2>1, <2>2, <2>3 DEF VmInv, Spaces
<1>10. Switched'
  BY <1>1 DEF VmInv, Switched, Runs
<1>11. TlbCoherent'
  <2>1. tlb' = [i \in Slot |-> Invalid]
    BY <1>1, LoadingTlb
  <2> QED BY <2>1, VaFacts DEF TlbCoherent, Invalid
<1> QED BY <1>3, <1>5, <1>8, <1>9, <1>10, <1>11 DEF VmInv, MemOK

LEMMA LoadPageStep ==
    ASSUME VmInv, NEW p \in Proc, LoadPage(p) PROVE VmInv'
<1> DEFINE d == newmm[p]
           todo == Image \ Present(d)
           va == CHOOSE v \in todo : \A w \in todo : v <= w
<1>1. /\ Runs(p, {"exec"}) /\ d # NULL /\ Image # Present(d)
      /\ Frames(1 + tables(mem, d)) /\ mem' = pgdir_alloc_page(mem, d, va)
      /\ UNCHANGED <<st, mm, pgdir, newmm, current, cur_pgdir, tlb, algo>>
  BY DEF LoadPage
<1>2. MemOK(mem) /\ d \in DOMAIN mem.dir /\ Present(d) \subseteq Image
  BY <1>1 DEF VmInv, TypeOK, MemOK, Holders, Held, Spaces
<1>3. todo \in SUBSET Nat /\ todo # {}
  BY <1>1, <1>2, VmAssumption
<1>4. va \in todo
  <2>1. \E v \in todo : \A w \in todo : v <= w
    BY <1>3, Least
  <2> HIDE DEF todo
  <2> QED BY <2>1
<1>5. va \in VA /\ va \in Image /\ mem.dir[d].pte[va].page = NULL
  BY <1>4, VmAssumption DEF Present
<1> HIDE DEF va
<1>6. /\ MemOK(mem') /\ DOMAIN mem'.dir = DOMAIN mem.dir
      /\ \A e \in DOMAIN mem.dir \ {d} : mem'.dir[e] = mem.dir[e]
      /\ \A w \in VA \ {va} : mem'.dir[d].pte[w].page = mem.dir[d].pte[w].page
  BY SMTT(30), <1>1, <1>2, <1>5, PgdirAllocPage DEF Frames
<1>7. TypeOK'
  BY <1>1, <1>6 DEF VmInv, TypeOK, MemOK
<1>8. Holders' /\ Switched'
  BY <1>1, <1>6 DEF VmInv, Holders, Held, Switched, Runs
<1>9. Spaces'
  <2>1. \A x \in Proc \ {p} : newmm[x] # NULL => newmm[x] \in DOMAIN mem.dir \ {d}
    BY <1>1 DEF VmInv, Holders, Held
  <2>2. \A x \in Proc \ {p} : newmm[x] # NULL => Present(newmm[x])' = Present(newmm[x])
    BY <2>1, <1>1, <1>6 DEF Present
  <2>3. Present(d)' \subseteq Image
    BY <1>1, <1>2, <1>5, <1>6 DEF Present
  <2> QED BY <1>1, <2>2, <2>3 DEF VmInv, Spaces
<1>10. TlbCoherent'
  <2>1. tlb' = [i \in Slot |-> Invalid]
    BY <1>1, LoadingTlb
  <2> QED BY <2>1, VaFacts DEF TlbCoherent, Invalid
<1> QED BY <1>6, <1>7, <1>8, <1>9, <1>10 DEF VmInv, MemOK

LEMMA LoadEndStep ==
    ASSUME VmInv, NEW p \in Proc, LoadEnd(p) PROVE VmInv'
<1> DEFINE d == newmm[p]
<1>1. /\ Runs(p, {"exec"}) /\ d # NULL
      /\ mm' = [mm EXCEPT ![p] = d] /\ pgdir' = [pgdir EXCEPT ![p] = d]
      /\ newmm' = [newmm EXCEPT ![p] = NULL] /\ st' = [st EXCEPT ![p] = "kernel"]
      /\ load_pgdir(d) /\ mem' = mem /\ current' = current
  BY DEF LoadEnd
<1>2. d \in Frame
  BY <1>1 DEF VmInv, TypeOK
<1>3. /\ cur_pgdir' = d
      /\ tlb' \in [Slot -> [hi : Int, lo : [{0, 1} -> Frame \cup {NULL}]]]
      /\ algo' \in [empty : Seq(Slot), hi : [Slot -> Int], ptr : Slot]
      /\ TlbCoherent'
  BY <1>1, LoadPgdir DEF VmInv
<1>4. MemType(mem)' /\ Separate(mem)'
  BY <1>1 DEF VmInv, TypeOK, MemType, Separate
<1>5. TypeOK'
  BY <1>1, <1>2, <1>3, <1>4 DEF VmInv, TypeOK, UserModes
<1>6. /\ mm'[p] = d /\ newmm'[p] = NULL /\ st'[p] = "kernel" /\ pgdir'[p] = d
      /\ \A x \in Proc \ {p} : /\ mm'[x] = mm[x] /\ newmm'[x] = newmm[x]
                                /\ st'[x] = st[x] /\ pgdir'[x] = pgdir[x]
  BY <1>1 DEF VmInv, TypeOK
<1>7. mm[p] = NULL /\ current = p
  BY <1>1 DEF VmInv, Spaces, Runs, UserModes
<1>8. Holders'
  <2>1. \A f : f \in Held' <=> f \in Held
    BY <1>6, <1>7 DEF Held
  <2>2. DOMAIN mem'.dir = Held'
    BY <2>1, <1>1 DEF VmInv, Holders
  <2>3. \A x, y \in Proc : mm'[x] # NULL => mm'[x] # newmm'[y] /\ (x # y => mm'[x] # mm'[y])
    BY <1>1, <1>6 DEF VmInv, Holders
  <2>4. \A x, y \in Proc : newmm'[x] # NULL /\ x # y => newmm'[x] # newmm'[y]
    BY <1>6 DEF VmInv, Holders
  <2> QED BY <2>2, <2>3, <2>4 DEF Holders
<1>9. Spaces'
  <2>1. \A x \in Proc \ {p} : Present(newmm[x])' = Present(newmm[x])
    BY <1>1, <1>6 DEF Present
  <2> QED BY <1>1, <1>6, <2>1 DEF VmInv, Spaces, UserModes
<1>10. Switched'
  BY <1>1, <1>3, <1>6, <1>7 DEF Switched, Runs, UserModes
<1> QED BY <1>3, <1>4, <1>5, <1>8, <1>9, <1>10 DEF VmInv

LEMMA VmStep == VmInv /\ [Next]_vars => VmInv'
<1> SUFFICES ASSUME VmInv, [Next]_vars PROVE VmInv'
  OBVIOUS
<1>1. CASE UNCHANGED vars
  BY <1>1, ModeStep DEF vars, VmInv, TypeOK
<1>2. ASSUME NEW p \in Proc, Step(p) PROVE VmInv'
  BY <1>2, MissStep, RetireStep, ForkStep, DropStep, LoadStartStep, LoadPageStep,
     LoadEndStep, ExitEndsStep DEF Step
<1>3. ASSUME NEW p \in Proc, Spawn(p) \/ Reap(p) PROVE VmInv'
  BY <1>3, SpawnStep, ExitEndsStep
<1>4. ASSUME NEW p \in Proc \cup {idle}, proc_run(p) PROVE VmInv'
  BY <1>4, ProcRunStep
<1> QED BY <1>1, <1>2, <1>3, <1>4 DEF Next

-----------------------------------------------------------------------------
\* The inductive invariant holds: types, one use and one holder of every frame, the
\* directory in use and the contents of the TLB.
THEOREM VmInvariant == Spec => []VmInv
BY InitVm, VmStep, PTL DEF Spec

\* No refill and no switch of address spaces leaves a translation in the TLB that
\* the page table in use does not have.
THEOREM TlbIsCoherent == Spec => []TlbCoherent
<1>1. VmInv => TlbCoherent
  BY DEF VmInv
<1> QED BY <1>1, VmInvariant, PTL

\* fork, exec, exit, page faults and load_icode neither share, lose nor free a frame
\* that is in use.
THEOREM FramesAreExact == Spec => []FramesExact
<1>1. ASSUME VmInv PROVE FramesExact
  <2> USE <1>1
  <2>1. MemOK(mem) /\ DOMAIN mem.dir = Held
    BY DEF VmInv, TypeOK, MemOK, Holders
  <2>2. \A d \in Held : framesOf(d) = own(d, mem.dir[d])
    BY DEF framesOf, own
  <2>3. ASSUME NEW d \in Held
        PROVE  /\ framesOf(d) \cap mem.free = {}
               /\ \A e \in Held \ {d} : framesOf(d) \cap framesOf(e) = {}
               /\ Cardinality(framesOf(d)) =
                      1 + (IF mem.dir[d].table = NULL THEN 0 ELSE 1) + Cardinality(Present(d))
    <3>1. framesOf(d) \cap mem.free = {}
      BY <2>1, <2>2, <2>3 DEF MemOK, Separate
    <3>2. \A e \in Held \ {d} : framesOf(d) \cap framesOf(e) = {}
      BY <2>1, <2>2, <2>3 DEF MemOK, Separate
    <3>3. d \in DOMAIN mem.dir
      BY <2>1, <2>3
    <3> QED BY <2>1, <3>1, <3>2, <3>3, Mapped
  <2>4. \A f \in Frame : f \in mem.free \/ \E d \in Held : f \in framesOf(d)
    BY <2>1, <2>2 DEF MemOK, Separate
  <2>5. \A d \in Held : framesOf(d) \subseteq Frame
    BY <2>1, <2>2, OwnFrames DEF MemOK, MemType
  <2>6. (UNION {framesOf(d) : d \in Held}) \cup mem.free = Frame
    BY <2>1, <2>4, <2>5 DEF MemOK, MemType
  <2> QED BY <2>1, <2>3, <2>6 DEF FramesExact, VmInv, Holders
<1> QED BY <1>1, VmInvariant, PTL

\* A process that may touch user memory runs on its own living page directory.
THEOREM OwnAddressSpace == Spec => []OwnSpace
<1>1. ASSUME VmInv PROVE OwnSpace
  <2> SUFFICES ASSUME NEW p \in Proc, Runs(p, UserModes)
               PROVE  cur_pgdir = mm[p] /\ pgdir[p] = mm[p] /\ mm[p] \in DOMAIN mem.dir
    BY DEF OwnSpace, UserModes
  <2> QED BY <1>1, RunsInSpace DEF VmInv, Spaces, Runs
<1> QED BY <1>1, VmInvariant, PTL
=============================================================================
