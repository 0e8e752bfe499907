------------------------------ MODULE FirstFit ------------------------------
(***************************************************************************)
(* The physical page allocator of default_pmm.c, as operators from a state *)
(* of the allocator to the next one: Heap composes them with kmalloc.c.    *)
(* Page structures are numbered from the first page of init_memmap.  Every *)
(* call runs with interrupts off (local_intr_save in alloc_pages and       *)
(* free_pages), so it is one step.                                         *)
(***************************************************************************)
EXTENDS Integers, Sequences

CONSTANT NPages

ASSUME NPagesAssumption == NPages \in Nat \ {0}

NULL == -1

\* A field is set; fields that nobody reads again are dropped from the state.
put(f, p, v) == [x \in DOMAIN f \cup {p} |-> IF x = p THEN v ELSE f[x]]
drop(f, S) == [x \in DOMAIN f \ S |-> f[x]]

\* list_add_before(le, elm), le the entry at position i, the head at Len + 1; list_del.
list_add_before(l, i, p) ==
    [k \in 1 .. Len(l) + 1 |-> IF k < i THEN l[k] ELSE IF k = i THEN p ELSE l[k - 1]]
list_del(l, i) == [k \in 1 .. Len(l) - 1 |-> IF k < i THEN l[k] ELSE l[k + 1]]

\* default_list_add: in front of the first block above base, else at the end.
default_list_add_Front(list, base) == <<base>> \o list
default_list_add(list, base) ==
    LET above == {i \in 1 .. Len(list) : base < list[i]}
        at    == CHOOSE i \in above \cup {Len(list) + 1} : \A j \in above : i <= j
    IN  list_add_before(list, at, base)

\* default_init and the one call of default_init_memmap, by page_init.
default_init_memmap ==
    [free_list |-> <<0>>,
     property  |-> [p \in {0} |-> NPages],   \* of the heads of free blocks
     flag      |-> {0},     \* the pages with PG_property
     nr_free   |-> NPages]

\* default_alloc_pages: the new state and the page, or NULL.
default_alloc_pages(pm, n) ==
    LET fit  == {i \in 1 .. Len(pm.free_list) : pm.property[pm.free_list[i]] >= n}
        at   == CHOOSE i \in fit : \A j \in fit : i <= j
        page == pm.free_list[at]
        rest == list_del(pm.free_list, at)
    IN  IF n > pm.nr_free \/ fit = {} THEN [pm |-> pm, page |-> NULL]
        ELSE [page |-> page,
              pm |-> IF pm.property[page] = n
                     THEN [pm EXCEPT !.free_list = rest,
                                     !.property = drop(@, {page}),
                                     !.nr_free = @ - n,
                                     !.flag = @ \ {page}]
                     ELSE [pm EXCEPT !.free_list = list_add_before(rest, at, page + n),
                                     !.property = drop(put(@, page + n, @[page] - n), {page}),
                                     !.nr_free = @ - n,
                                     !.flag = (@ \cup {page + n}) \ {page}]]

\* One round of default_free_pages' loop over the list: merge base with the block
\* p behind it or in front of it, or keep p.  list collects what stays linked.
merge_HighOnly(a, p) ==
    IF a.base + a.property[a.base] = p
    THEN [a EXCEPT !.property = drop(put(@, a.base, @[a.base] + @[p]), {p}),
                   !.flag = @ \ {p}]
    ELSE [a EXCEPT !.list = Append(@, p)]
merge(a, p) ==
    IF a.base + a.property[a.base] = p
    THEN [a EXCEPT !.property = drop(put(@, a.base, @[a.base] + @[p]), {p}),
                   !.flag = @ \ {p}]
    ELSE IF p + a.property[p] = a.base
         THEN [a EXCEPT !.property = drop(put(@, p, @[p] + @[a.base]), {a.base}),
                        !.flag = @ \ {a.base},
                        !.base = p]
         ELSE [a EXCEPT !.list = Append(@, p)]

\* default_free_pages, whose assertion on each page is FreeAsserts.
FreeAsserts(pm, base, n) == pm.flag \cap (base .. base + n - 1) = {}

default_free_pages(pm, base, n) ==
    LET round[i \in 0 .. Len(pm.free_list)] ==
            IF i = 0
            THEN [base |-> base, property |-> put(pm.property, base, n),
                  flag |-> pm.flag \cup {base}, list |-> <<>>]
            ELSE merge(round[i - 1], pm.free_list[i])
        end == round[Len(pm.free_list)]
    IN  [free_list |-> default_list_add(end.list, end.base),
         property  |-> end.property,
         flag      |-> end.flag,
         nr_free   |-> pm.nr_free + n]

-----------------------------------------------------------------------------
\* The pages of the blocks on the list, each from its head for property pages.
FreeBlock(pm, i) == pm.free_list[i] .. pm.free_list[i] + pm.property[pm.free_list[i]] - 1
FreePages(pm) == UNION {FreeBlock(pm, i) : i \in 1 .. Len(pm.free_list)}
=============================================================================
