-------------------------------- MODULE Heap --------------------------------
(***************************************************************************)
(* Kernel memory: kmalloc and kfree (the SLOB allocator of kmalloc.c) over *)
(* the page allocator, next to the kernel's other users of whole pages     *)
(* (kernel stacks, page tables, user pages).                               *)
(*                                                                         *)
(* Addresses and sizes count SLOB_UNITs; page p starts at p * PageUnits.   *)
(* The kernel is not preempted inside kmalloc, so a call runs to its end   *)
(* before the next one starts; its steps are cut where it calls            *)
(* alloc_pages.                                                            *)
(***************************************************************************)
EXTENDS FirstFit, FiniteSets

CONSTANTS PageUnits,  \* SLOB_UNITs in a page (512 in the code)
          Small,      \* sizes asked for below a page
          Big,        \* sizes asked for of a page or more (4096: files_struct, iobufs)
          MaxHeld,    \* bound: objects and blocks held at a time
          MaxBlock    \* the longest block the other users ask for: KSTACKPAGE

\* slob_alloc asserts that a request with its header stays below a page.
ASSUME HeapAssumption ==
    /\ PageUnits \in Nat \ {0} /\ MaxBlock \in Nat \ {0}
    /\ \A s \in Small : s \in Nat \ {0} /\ s + 2 < PageUnits
    /\ \A s \in Big : s \in Nat /\ s >= PageUnits

VARIABLES
    pm,        \* the page allocator (FirstFit)
    slob,      \* units of free blocks and headers, next of free blocks, slobfree
    bigblocks, \* descriptors of the objects of a page or more
    objs,      \* the objects callers of kmalloc hold
    owned,     \* the blocks other callers of alloc_pages hold
    call,      \* the kmalloc call under way, NoCall when none
    refused,   \* the pages asked for, when the last alloc_pages returned NULL, else 0
    swap_init_ok,
    halted     \* alloc_page found no memory after swap_init: swap_out(NULL)

vars == <<pm, slob, bigblocks, objs, owned, call, refused, swap_init_ok, halted>>

\* The static slob_t, which lies below every page and is never handed out.
arena == -2
Unit  == {arena} \cup (0 .. NPages * PageUnits - 1)
NoCall == [size |-> 0]
BigUnits == 2                     \* SLOB_UNITS(sizeof(bigblock_t))
Header   == 1

-----------------------------------------------------------------------------
\* slob_alloc, first part: the ring from slobfree->next back to slobfree.
ring(s) ==
    LET nth[k \in 0 .. Cardinality(Unit)] == IF k = 0 THEN s.slobfree ELSE s.next[nth[k - 1]]
        len == CHOOSE k \in 1 .. Cardinality(Unit) :
                   nth[k] = s.slobfree /\ \A j \in 1 .. k - 1 : nth[j] # s.slobfree
    IN  [k \in 0 .. len |-> nth[k]]

\* The places in the ring with room for n units.
room(s, n) == {k \in DOMAIN ring(s) \ {0} : s.units[ring(s)[k]] >= n}

\* slob_alloc, second part: cut n units off the first block with room.
slob_alloc_NoFragment(s, n) ==
    LET k    == CHOOSE i \in room(s, n) : \A j \in room(s, n) : i <= j
        prev == ring(s)[k - 1]
        cur  == ring(s)[k]
    IN  [block |-> cur,
         slob  |-> [s EXCEPT !.next = drop([@ EXCEPT ![prev] = s.next[cur]], {cur}),
                             !.units[cur] = n,
                             !.slobfree = prev]]
slob_alloc(s, n) ==
    LET k    == CHOOSE i \in room(s, n) : \A j \in room(s, n) : i <= j
        prev == ring(s)[k - 1]
        cur  == ring(s)[k]
        rest == cur + n
    IN  [block |-> cur,
         slob  |-> IF s.units[cur] = n
                   THEN [s EXCEPT !.next = drop([@ EXCEPT ![prev] = s.next[cur]], {cur}),
                                  !.slobfree = prev]
                   ELSE [s EXCEPT !.next = drop(put(put(@, prev, rest), rest, s.next[cur]), {cur}),
                                  !.units = put(put(@, rest, @[cur] - n), cur, n),
                                  !.slobfree = prev]]

\* slob_free of a block whose units are set: the place is searched from slobfree.
between(b, cur, nxt) ==
    (b > cur /\ b < nxt) \/ (cur >= nxt /\ (b > cur \/ b < nxt))

place_Slobfree(s, b) == s.slobfree
place(s, b) ==
    LET at == {k \in DOMAIN ring(s) : between(b, ring(s)[k], s.next[ring(s)[k]])}
    IN  ring(s)[CHOOSE k \in at : \A j \in at : k <= j]

slob_free(s, b) ==
    LET cur  == place(s, b)
        nxt  == s.next[cur]
        up   == b + s.units[b] = nxt
        gone == IF up THEN {nxt} ELSE {}
        bu   == s.units[b] + IF up THEN s.units[nxt] ELSE 0
        bn   == IF up THEN s.next[nxt] ELSE nxt
    IN  IF cur + s.units[cur] = b
        THEN [s EXCEPT !.units = drop([s.units EXCEPT ![cur] = @ + bu], {b} \cup gone),
                       !.next = drop([@ EXCEPT ![cur] = bn], gone),
                       !.slobfree = cur]
        ELSE [s EXCEPT !.units = drop([@ EXCEPT ![b] = bu], gone),
                       !.next = drop(put(put(@, cur, b), b, bn), gone),
                       !.slobfree = cur]

set_units(s, b, n) == [s EXCEPT !.units = put(@, b, n)]

\* find_order, and the 1 << order that alloc_pages is asked for.
find_order(size) ==
    LET half[k \in 0 .. size] == IF k = 0 THEN size ELSE half[k - 1] \div 2
    IN  CHOOSE k \in 0 .. size : half[k] <= PageUnits /\ \A j \in 0 .. k - 1 : half[j] > PageUnits
Pages(order) ==
    LET double[k \in 0 .. order] == IF k = 0 THEN 1 ELSE 2 * double[k - 1]
    IN  double[order]

\* alloc_pages: with no page left after swap_init it calls swap_out with the mm of
\* check_swap, which is NULL by then.
alloc_pages(n) ==
    LET r == default_alloc_pages(pm, n)
    IN  /\ pm' = r.pm
        /\ refused' = IF r.page = NULL THEN n ELSE 0
        /\ halted' = (r.page = NULL /\ n = 1 /\ swap_init_ok)

-----------------------------------------------------------------------------
\* The units slob_alloc is asked for: an object with its header, or a bigblock_t.
Need == IF call.size < PageUnits - Header THEN call.size + Header ELSE BigUnits

Held == Cardinality(objs) + Cardinality(owned)

Kmalloc(size) ==
    /\ call = NoCall /\ Held < MaxHeld
    /\ call' = [size |-> size, bb |-> NULL]
    /\ UNCHANGED <<pm, slob, bigblocks, objs, owned, refused, swap_init_ok, halted>>

\* slob_alloc finds room.  A small request is done; a big one holds its bigblock_t.
SlobTakes ==
    /\ call # NoCall /\ call.bb = NULL /\ room(slob, Need) # {}
    /\ LET r == slob_alloc(slob, Need)
       IN  /\ slob' = r.slob
           /\ \/ /\ call.size < PageUnits - Header
                 /\ objs' = objs \cup {[addr |-> r.block + Header, size |-> call.size]}
                 /\ call' = NoCall
              \/ /\ call.size >= PageUnits - Header
                 /\ call' = [call EXCEPT !.bb = r.block]
                 /\ UNCHANGED objs
    /\ UNCHANGED <<pm, bigblocks, owned, refused, swap_init_ok, halted>>

\* No room: one more page for the ring, or kmalloc returns 0.
SlobGrows ==
    /\ call # NoCall /\ call.bb = NULL /\ room(slob, Need) = {}
    /\ alloc_pages(1)
    /\ LET page == default_alloc_pages(pm, 1).page
           b    == page * PageUnits
       IN  IF page = NULL THEN call' = NoCall /\ UNCHANGED slob
           ELSE slob' = slob_free(set_units(slob, b, PageUnits), b) /\ UNCHANGED call
    /\ UNCHANGED <<bigblocks, objs, owned, swap_init_ok>>

\* __kmalloc of a page or more: the pages, or the bigblock_t is given back.
BigPages ==
    /\ call # NoCall /\ call.bb # NULL
    /\ LET order == find_order(call.size)
           page  == default_alloc_pages(pm, Pages(order)).page
       IN  /\ alloc_pages(Pages(order))
           /\ IF page = NULL
              THEN /\ slob' = slob_free(set_units(slob, call.bb, BigUnits), call.bb)
                   /\ UNCHANGED <<bigblocks, objs>>
              ELSE /\ bigblocks' = bigblocks \cup {[bb |-> call.bb, order |-> order, page |-> page]}
                   /\ objs' = objs \cup {[addr |-> page * PageUnits, size |-> call.size]}
                   /\ UNCHANGED slob
    /\ call' = NoCall
    /\ UNCHANGED <<owned, swap_init_ok>>

\* The descriptors kfree finds for a page-aligned address.
descriptor(addr) == {d \in bigblocks : addr % PageUnits = 0 /\ d.page * PageUnits = addr}

Kfree(o) ==
    /\ call = NoCall /\ o \in objs
    /\ objs' = objs \ {o}
    /\ IF descriptor(o.addr) = {}
       THEN /\ slob' = slob_free(slob, o.addr - Header)
            /\ UNCHANGED <<pm, bigblocks, refused>>
       ELSE LET d == CHOOSE d \in descriptor(o.addr) : TRUE
            IN  /\ pm' = default_free_pages(pm, d.page, Pages(d.order))
                /\ bigblocks' = bigblocks \ {d}
                /\ slob' = slob_free(set_units(slob, d.bb, BigUnits), d.bb)
                /\ refused' = 0
    /\ UNCHANGED <<owned, call, swap_init_ok, halted>>

\* alloc_pages and free_pages by the other users.
AllocBlock(n) ==
    /\ call = NoCall /\ Held < MaxHeld
    /\ alloc_pages(n)
    /\ LET page == default_alloc_pages(pm, n).page
       IN  owned' = IF page = NULL THEN owned ELSE owned \cup {[page |-> page, n |-> n]}
    /\ UNCHANGED <<slob, bigblocks, objs, call, swap_init_ok>>

FreeBlockOf(w) ==
    /\ call = NoCall /\ w \in owned
    /\ pm' = default_free_pages(pm, w.page, w.n)
    /\ owned' = owned \ {w}
    /\ refused' = 0
    /\ UNCHANGED <<slob, bigblocks, objs, call, swap_init_ok, halted>>

\* swap_init, after which memory running out stops the kernel.
SwapInit ==
    /\ call = NoCall /\ ~swap_init_ok
    /\ swap_init_ok' = TRUE
    /\ UNCHANGED <<pm, slob, bigblocks, objs, owned, call, refused, halted>>

Init ==
    /\ pm = default_init_memmap
    /\ slob = [units |-> [b \in {arena} |-> 1], next |-> [b \in {arena} |-> arena], slobfree |-> arena]
    /\ bigblocks = {} /\ objs = {} /\ owned = {}
    /\ call = NoCall /\ refused = 0 /\ swap_init_ok = FALSE /\ halted = FALSE

Next ==
    /\ ~halted
    /\ \/ \E s \in Small \cup Big : Kmalloc(s)
       \/ SlobTakes
       \/ SlobGrows
       \/ BigPages
       \/ \E o \in objs : Kfree(o)
       \/ \E n \in 1 .. MaxBlock : AllocBlock(n)
       \/ \E w \in owned : FreeBlockOf(w)
       \/ SwapInit

Spec == Init /\ [][Next]_vars

-----------------------------------------------------------------------------
\* The free list is sorted, its blocks are apart from each other (adjacent blocks
\* have been merged), PG_property marks exactly their heads, and nr_free is their
\* size: what default_alloc_pages' early return and default_list_add rely on.  The
\* assertion of default_free_pages holds for every block that may be freed.
FreeListExact ==
    /\ \A i \in 1 .. Len(pm.free_list) - 1 :
           pm.free_list[i] + pm.property[pm.free_list[i]] < pm.free_list[i + 1]
    /\ pm.flag = {pm.free_list[i] : i \in 1 .. Len(pm.free_list)}
    /\ pm.nr_free = Cardinality(FreePages(pm))
    /\ \A w \in owned : FreeAsserts(pm, w.page, w.n)
    /\ \A d \in bigblocks : FreeAsserts(pm, d.page, Pages(d.order))

\* The page allocator keeps the promise of PageSpec through every use kmalloc and
\* the other callers make of it: first fit refuses only when nothing fits.
Pages_ == INSTANCE PageSpec WITH
    free <- FreePages(pm),
    Request <- {1} \cup (1 .. MaxBlock) \cup {Pages(find_order(size)) : size \in Big}
PagesSafety == Pages_!PageSafety

\* The free units of the heap, block by block.
Free == {ring(slob)[k] : k \in DOMAIN ring(slob)}
span(b, n) == b .. b + n - 1
\* Every stretch of memory somebody believes to own.
Stretches ==
    {<<"free", p * PageUnits, PageUnits>> : p \in FreePages(pm)}
    \cup {<<"owned", w.page * PageUnits, w.n * PageUnits>> : w \in owned}
    \cup {<<"ring", b, slob.units[b]>> : b \in Free \ {arena}}
    \cup {<<"object", o.addr - Header, slob.units[o.addr - Header]>> :
              o \in {x \in objs : descriptor(x.addr) = {}}}
    \cup {<<"pages", d.page * PageUnits, Pages(d.order) * PageUnits>> : d \in bigblocks}
    \cup {<<"bb", d.bb, BigUnits>> : d \in bigblocks}
    \cup (IF call # NoCall /\ call.bb # NULL THEN {<<"bb", call.bb, BigUnits>>} ELSE {})

\* All of memory, each unit once: no two owners share a unit, none is lost, and an
\* object has the room its caller asked for, whether kfree finds it in bigblocks
\* or by the header in front of it.
MemoryPartition ==
    /\ \A x, y \in Stretches : x # y => span(x[2], x[3]) \cap span(y[2], y[3]) = {}
    /\ UNION {span(x[2], x[3]) : x \in Stretches} = Unit \ {arena}
    /\ \A o \in objs :
           \/ descriptor(o.addr) # {}
              /\ \A d \in descriptor(o.addr) : o.size <= Pages(d.order) * PageUnits
           \/ slob.units[o.addr - Header] >= o.size + Header

\* The ring visits its blocks in address order, wraps once, and no two of them
\* touch: what slob_free's search and slob_alloc's first fit rely on.
RingExact ==
    LET r == ring(slob)
        wraps == {k \in DOMAIN r \ {0} : r[k] <= r[k - 1]}
    IN  /\ Cardinality(wraps) = 1
        /\ \A k \in DOMAIN r \ ({0} \cup wraps) : r[k - 1] + slob.units[r[k - 1]] < r[k]
=============================================================================
