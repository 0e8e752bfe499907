--------------------------------- MODULE Vm ---------------------------------
(***************************************************************************)
(* Address spaces and the software-managed TLB: fork, exec, exit, context  *)
(* switches, page faults and TLB misses (proc.c, vmm.c, pmm.c, tlb.c) over *)
(* the matching of mmu.vhd.                                                *)
(*                                                                         *)
(* An mm_struct is named by the frame of its page directory.  mm_count is  *)
(* always one: sys_fork never passes CLONE_VM, and the kernel threads that *)
(* do have no mm.  The user area is one vma with one page table; swap_out  *)
(* never runs once the kernel is up, so a mapping is only ever added or    *)
(* dropped with its mm.  A page allocation needs a free frame: without one *)
(* the kernel stops (Heap).                                                *)
(***************************************************************************)
EXTENDS Integers, Sequences, FiniteSets

CONSTANTS Proc,       \* user process slots
          Code, Data, \* virtual pages instructions are fetched from, and work on
          Buffer,     \* virtual pages only the kernel's copies touch
          Image,      \* the pages load_icode fills
          NFrames,    \* physical pages
          TLBN        \* TLB entries (16 in the code)

VA == Code \cup Data \cup Buffer
idle == "idle"

ASSUME VmAssumption ==
    /\ idle \notin Proc
    /\ VA \subseteq Nat /\ Image \subseteq VA /\ Image # {} /\ Code # {} /\ Data # {}
    /\ NFrames \in Nat /\ TLBN \in Nat \ {0}

VARIABLES
    st,       \* "none", "user", "kernel": in a system call, "exec", "exit", "zombie"
    mm,       \* proc->mm
    pgdir,    \* proc->pgdir, which do_exit and do_execve leave behind
    newmm,    \* load_icode's mm
    mem,      \* the page directories and the free frames
    current,
    cur_pgdir,
    tlb,      \* the hardware entries: hi, and the frame of either half
    algo,     \* tlb_algo_empty[0 .. tlb_algo_n - 1], tlb_algo_hi, tlb_algo_ptr
    instr     \* in user mode, the pages the instruction at EPC needs

vars == <<st, mm, pgdir, newmm, mem, current, cur_pgdir, tlb, algo, instr>>

Frame == 1 .. NFrames
NULL  == 0
boot_pgdir == -1
NoInstr == <<>>
Slot == 0 .. TLBN - 1
hi(va)      == va \div 2
TLBLO(va)   == va % 2
TLBPAIR(va) == IF va % 2 = 0 THEN va + 1 ELSE va - 1

-----------------------------------------------------------------------------
\* Physical memory.  alloc_page takes the lowest free frame (FirstFit).
lowest(free, k) == CHOOSE f \in free : Cardinality({g \in free : g < f}) = k - 1
lowestSet(free, n) == {lowest(free, k) : k \in 1 .. n}

NoPte == [page |-> NULL, TLB_P |-> FALSE, idx |-> 0]
Pte(page) == [NoPte EXCEPT !.page = page]
Empty == [table |-> NULL, pte |-> [va \in VA |-> NoPte]]
Present(d) == {va \in VA : mem.dir[d].pte[va].page # NULL}

\* The directories with the new one d.
newdir(dir, d, contents) == [e \in DOMAIN dir \cup {d} |-> IF e = d THEN contents ELSE dir[e]]

\* setup_pgdir: the frame of the new directory is lowest(mem.free, 1).
setup_pgdir(m) ==
    LET d == lowest(m.free, 1)
    IN  [dir |-> newdir(m.dir, d, Empty), free |-> m.free \ {d}]

\* get_pte with create, then pgdir_alloc_page and page_insert on an empty entry:
\* what it needs, and what it leaves.
tables(m, d) == IF m.dir[d].table = NULL THEN 1 ELSE 0
pgdir_alloc_page(m, d, va) ==
    LET n == tables(m, d)
    IN  [dir  |-> [m.dir EXCEPT ![d] =
                      [table |-> IF n = 1 THEN lowest(m.free, 1) ELSE @.table,
                       pte   |-> [@.pte EXCEPT ![va] = Pte(lowest(m.free, n + 1))]]],
         free |-> m.free \ lowestSet(m.free, n + 1)]

\* setup_pgdir, dup_mmap and copy_range: new frames in address order.
dup_mmap(m, from) ==
    LET here == Present(from)
        n    == IF here = {} THEN 1 ELSE 2
        rank(va) == Cardinality({w \in here : w < va}) + 1
    IN  [dir  |-> newdir(m.dir, lowest(m.free, 1),
                      [table |-> IF here = {} THEN NULL ELSE lowest(m.free, 2),
                       pte   |-> [va \in VA |-> IF va \in here
                                                THEN Pte(lowest(m.free, n + rank(va))) ELSE NoPte]]),
         free |-> m.free \ lowestSet(m.free, n + Cardinality(here))]

\* exit_mmap and put_pgdir: unmap_range, exit_range, the directory.
framesOf(d) == ({d, mem.dir[d].table} \cup {mem.dir[d].pte[va].page : va \in VA}) \ {NULL}
exit_mmap_KeepTable(m, d) ==
    [dir |-> [e \in DOMAIN m.dir \ {d} |-> m.dir[e]],
     free |-> m.free \cup (framesOf(d) \ {m.dir[d].table})]
exit_mmap(m, d) ==
    [dir |-> [e \in DOMAIN m.dir \ {d} |-> m.dir[e]], free |-> m.free \cup framesOf(d)]

-----------------------------------------------------------------------------
\* The TLB.  mmu.vhd: an entry translates va if its hi and the half's valid bit match.
hit(va) == \E i \in Slot : tlb[i].hi = hi(va) /\ tlb[i].lo[TLBLO(va)] # NULL
Invalid == [hi |-> -1, lo |-> [h \in {0, 1} |-> NULL]]

\* load_pgdir: tlb_init and tlb_init_callback.  The tlb_algo_hi of a free slot stays
\* as it was in the code, and is written before it is read: 0 stands for it.
load_pgdir_KeepTlb(d) == cur_pgdir' = d /\ UNCHANGED <<tlb, algo>>
load_pgdir(d) ==
    /\ cur_pgdir' = d
    /\ tlb' = [i \in Slot |-> Invalid]
    /\ algo' = [algo EXCEPT !.empty = [k \in 1 .. TLBN |-> k - 1], !.hi = [i \in Slot |-> 0]]

\* tlb_get_empty: the last free slot, or the next one in turn, whose pair of PTEs
\* loses TLB_P.
tlb_get_empty(d, h) ==
    LET n   == Len(algo.empty)
        idx == IF n > 0 THEN algo.empty[n] ELSE algo.ptr
    IN  [idx  |-> idx,
         algo |-> IF n > 0
                  THEN [algo EXCEPT !.empty = SubSeq(@, 1, n - 1), !.hi[idx] = h]
                  ELSE [algo EXCEPT !.ptr = (@ + 1) % TLBN, !.hi[idx] = h],
         pte  |-> IF n > 0 THEN d.pte
                  ELSE [va \in VA |-> IF hi(va) = algo.hi[idx] THEN Pte(d.pte[va].page)
                                      ELSE d.pte[va]]]

\* do_pgfault of tlb_miss_handler: a page for an empty PTE.
faulted(va) ==
    IF mem.dir[cur_pgdir].pte[va].page # NULL THEN mem
    ELSE pgdir_alloc_page(mem, cur_pgdir, va)

\* tlb_miss_handler.  A pair whose PTE says TLB_P shares its slot.
paired(d, va) == TLBPAIR(va) \in VA /\ d.pte[TLBPAIR(va)].TLB_P

tlb_miss_handler(va) ==
    LET m    == faulted(va)
        d    == m.dir[cur_pgdir]
        with == paired(d, va)
        e    == IF with THEN [idx |-> d.pte[TLBPAIR(va)].idx, algo |-> algo, pte |-> d.pte]
                ELSE tlb_get_empty(d, hi(va))
        lo   == [h \in {0, 1} |-> IF h = TLBLO(va) THEN d.pte[va].page
                                  ELSE IF with THEN d.pte[TLBPAIR(va)].page ELSE NULL]
    IN  /\ tlb' = [tlb EXCEPT ![e.idx] = [hi |-> hi(va), lo |-> lo]]
        /\ algo' = e.algo
        /\ mem' = [m EXCEPT !.dir[cur_pgdir].pte =
                       [e.pte EXCEPT ![va] = [page |-> d.pte[va].page, TLB_P |-> TRUE, idx |-> e.idx]]]

-----------------------------------------------------------------------------
Runs(p, s) == current = p /\ st[p] \in s
Frames(n) == Cardinality(mem.free) >= n

\* A miss of the fetch or, once the fetch hits, of the data access; and the kernel's
\* own accesses to user memory inside a system call (copy_to_user, copy_from_user).
Miss(p, va) ==
    /\ Runs(p, {"user", "kernel"}) /\ ~hit(va)
    /\ \/ st[p] = "kernel"
       \/ st[p] = "user" /\ va = instr[p][1]
       \/ st[p] = "user" /\ hit(instr[p][1]) /\ va = instr[p][2]
    /\ Frames(IF mem.dir[cur_pgdir].pte[va].page # NULL THEN 0 ELSE 1 + tables(mem, cur_pgdir))
    /\ tlb_miss_handler(va)
    /\ UNCHANGED <<st, mm, pgdir, newmm, current, cur_pgdir, instr>>

\* The instruction has both translations; the next one may be any other.
Translated(p) == hit(instr[p][1]) /\ hit(instr[p][2])
Retire(p) ==
    /\ Runs(p, {"user"}) /\ Translated(p)
    /\ \E i \in Code \X Data : instr' = [instr EXCEPT ![p] = i]
    /\ UNCHANGED <<st, mm, pgdir, newmm, mem, current, cur_pgdir, tlb, algo>>

\* A syscall instruction, and the return from it.
Syscall(p) ==
    /\ Runs(p, {"user"}) /\ hit(instr[p][1])
    /\ st' = [st EXCEPT ![p] = "kernel"]
    /\ instr' = [instr EXCEPT ![p] = NoInstr]
    /\ UNCHANGED <<mm, pgdir, newmm, mem, current, cur_pgdir, tlb, algo>>

Sysret(p) ==
    /\ Runs(p, {"kernel"})
    /\ st' = [st EXCEPT ![p] = "user"]
    /\ \E i \in Code \X Data : instr' = [instr EXCEPT ![p] = i]
    /\ UNCHANGED <<mm, pgdir, newmm, mem, current, cur_pgdir, tlb, algo>>

\* proc_run: at a timer interrupt in user mode, or from a sleep inside the kernel.
proc_run(p) ==
    /\ p # current /\ p \in {idle} \cup {q \in Proc : st[q] \notin {"none", "zombie"}}
    /\ current' = p
    /\ load_pgdir(IF p = idle THEN boot_pgdir ELSE pgdir[p])
    /\ UNCHANGED <<st, mm, pgdir, newmm, mem, instr>>

\* do_fork's copy_mm for sys_fork.
Fork(p, q) ==
    /\ Runs(p, {"kernel"}) /\ st[q] = "none"
    /\ Frames(2 + Cardinality(Present(mm[p])))
    /\ LET d == lowest(mem.free, 1)
       IN  /\ mem' = dup_mmap(mem, mm[p])
           /\ mm' = [mm EXCEPT ![q] = d]
           /\ pgdir' = [pgdir EXCEPT ![q] = d]
    /\ st' = [st EXCEPT ![q] = "user"]
    /\ \E i \in Code \X Data : instr' = [instr EXCEPT ![q] = i]
    /\ UNCHANGED <<newmm, current, cur_pgdir, tlb, algo>>

\* kernel_thread and do_execve of the first program: a process without an mm.
Spawn(q) ==
    /\ current = idle /\ \A p \in Proc : st[p] = "none"
    /\ st' = [st EXCEPT ![q] = "exec"]
    /\ pgdir' = [pgdir EXCEPT ![q] = boot_pgdir]
    /\ UNCHANGED <<mm, newmm, mem, current, cur_pgdir, tlb, algo, instr>>

\* do_execve and do_exit give up the mm, on boot_pgdir.  A failed exec, a kill and
\* a fault outside the vma end in do_exit.
drop_mm(p, to) ==
    /\ load_pgdir(boot_pgdir)
    /\ mem' = exit_mmap(mem, mm[p])
    /\ mm' = [mm EXCEPT ![p] = NULL]
    /\ st' = [st EXCEPT ![p] = to]
    /\ instr' = [instr EXCEPT ![p] = NoInstr]
    /\ UNCHANGED <<pgdir, newmm, current>>

Exec(p) == Runs(p, {"kernel"}) /\ drop_mm(p, "exec")
Exit(p) == Runs(p, {"user", "kernel"}) /\ drop_mm(p, "exit")

\* load_icode: the new mm, its pages one by one with a read (and perhaps a sleep)
\* after each, the switch to it.
LoadStart(p) ==
    /\ Runs(p, {"exec"}) /\ newmm[p] = NULL /\ Frames(1)
    /\ newmm' = [newmm EXCEPT ![p] = lowest(mem.free, 1)]
    /\ mem' = setup_pgdir(mem)
    /\ UNCHANGED <<st, mm, pgdir, current, cur_pgdir, tlb, algo, instr>>

LoadPage(p) ==
    /\ Runs(p, {"exec"}) /\ newmm[p] # NULL /\ Image # Present(newmm[p])
    /\ Frames(1 + tables(mem, newmm[p]))
    /\ mem' = pgdir_alloc_page(mem, newmm[p],
                  CHOOSE va \in Image \ Present(newmm[p]) :
                      \A w \in Image \ Present(newmm[p]) : va <= w)
    /\ UNCHANGED <<st, mm, pgdir, newmm, current, cur_pgdir, tlb, algo, instr>>

LoadEnd_StalePgdir(p) ==
    /\ Runs(p, {"exec"}) /\ newmm[p] # NULL /\ Image = Present(newmm[p])
    /\ mm' = [mm EXCEPT ![p] = newmm[p]]
    /\ newmm' = [newmm EXCEPT ![p] = NULL]
    /\ st' = [st EXCEPT ![p] = "kernel"]
    /\ load_pgdir(newmm[p])
    /\ UNCHANGED <<pgdir, mem, current, instr>>
LoadEnd(p) ==
    /\ Runs(p, {"exec"}) /\ newmm[p] # NULL /\ Image = Present(newmm[p])
    /\ mm' = [mm EXCEPT ![p] = newmm[p]]
    /\ pgdir' = [pgdir EXCEPT ![p] = newmm[p]]
    /\ newmm' = [newmm EXCEPT ![p] = NULL]
    /\ st' = [st EXCEPT ![p] = "kernel"]
    /\ load_pgdir(newmm[p])
    /\ UNCHANGED <<mem, current, instr>>

\* The rest of do_exit: after put_files, which may sleep, a zombie that only
\* schedule() leaves, whose pgdir nobody reads again; and do_wait by its parent.
ExitEnds(p) ==
    /\ Runs(p, {"exit"})
    /\ st' = [st EXCEPT ![p] = "zombie"]
    /\ pgdir' = [pgdir EXCEPT ![p] = NULL]
    /\ UNCHANGED <<mm, newmm, mem, current, cur_pgdir, tlb, algo, instr>>

Reap(p) ==
    /\ st[p] = "zombie" /\ current # p
    /\ st' = [st EXCEPT ![p] = "none"]
    /\ UNCHANGED <<mm, pgdir, newmm, mem, current, cur_pgdir, tlb, algo, instr>>

-----------------------------------------------------------------------------
Init ==
    /\ st = [p \in Proc |-> "none"]
    /\ mm = [p \in Proc |-> NULL] /\ pgdir = [p \in Proc |-> NULL] /\ newmm = [p \in Proc |-> NULL]
    /\ mem = [dir |-> <<>>, free |-> Frame]
    /\ current = idle /\ cur_pgdir = boot_pgdir
    /\ tlb = [i \in Slot |-> Invalid]
    /\ algo = [empty |-> [k \in 1 .. TLBN |-> k - 1], hi |-> [i \in Slot |-> 0], ptr |-> 0]
    /\ instr = [p \in Proc |-> NoInstr]

Step(p) ==
    \/ \E va \in VA : Miss(p, va)
    \/ Retire(p) \/ Syscall(p) \/ Sysret(p)
    \/ \E q \in Proc : Fork(p, q)
    \/ Exec(p) \/ LoadStart(p) \/ LoadPage(p) \/ LoadEnd(p)
    \/ Exit(p) \/ ExitEnds(p)

Next ==
    \/ \E p \in Proc : Step(p) \/ Spawn(p) \/ Reap(p)
    \/ \E p \in Proc \cup {idle} : proc_run(p)

Spec == Init /\ [][Next]_vars

\* The processor goes on executing: a faulting instruction traps, and one with both
\* translations retires.
FairSpec == Spec /\ \A p \in Proc :
                /\ WF_vars(Retire(p))
                /\ WF_vars(\E va \in VA : st[p] = "user" /\ Miss(p, va))

-----------------------------------------------------------------------------
\* Whatever the TLB translates is what the page table in use says now: no entry of
\* another address space survives a switch (load_pgdir), and no refill, through a
\* stale TLB_P bit or slot number either, loads a frame of anything else.
TlbCoherent ==
    \A i \in Slot : \A va \in VA :
        tlb[i].hi = hi(va) /\ tlb[i].lo[TLBLO(va)] # NULL =>
            /\ cur_pgdir \in DOMAIN mem.dir
            /\ mem.dir[cur_pgdir].pte[va].page = tlb[i].lo[TLBLO(va)]

\* Every frame is free, or is a directory, a page table or a page of exactly one
\* address space that a process still holds: no page is shared between processes,
\* freed while mapped, or lost by fork, exec or exit.
Held == ({mm[p] : p \in Proc} \cup {newmm[p] : p \in Proc}) \ {NULL}
FramesExact ==
    /\ DOMAIN mem.dir = Held
    /\ \A p, q \in Proc : mm[p] # NULL => mm[p] # newmm[q] /\ (p # q => mm[p] # mm[q])
    /\ \A d \in Held :
           /\ framesOf(d) \cap mem.free = {}
           /\ \A e \in Held \ {d} : framesOf(d) \cap framesOf(e) = {}
           /\ Cardinality(framesOf(d)) =
                  1 + (IF mem.dir[d].table = NULL THEN 0 ELSE 1) + Cardinality(Present(d))
    /\ (UNION {framesOf(d) : d \in Held}) \cup mem.free = Frame

\* Whoever may touch user memory runs on its own living page directory, though
\* do_exit and do_execve leave proc->pgdir pointing to a freed frame and the
\* process may be switched out and in again before it has another.
OwnSpace ==
    \A p \in Proc : Runs(p, {"user", "kernel"}) =>
        cur_pgdir = mm[p] /\ pgdir[p] = mm[p] /\ mm[p] \in DOMAIN mem.dir

\* A process in user mode gets both translations of its instruction again and again:
\* the refill of one page does not undo the refill of the other for ever.
InstructionRetires ==
    \A p \in Proc : []<>(Runs(p, {"user"}) => Translated(p))
=============================================================================
