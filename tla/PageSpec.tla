------------------------------ MODULE PageSpec ------------------------------
(***************************************************************************)
(* What alloc_pages and free_pages promise: a block is n consecutive pages *)
(* that were all free, a free page is never lost, and a request is refused *)
(* only when no n consecutive pages are free.  FirstFit implements this.   *)
(***************************************************************************)
EXTENDS Integers

CONSTANTS NPages,    \* the pages handed to init_memmap
          Request    \* the lengths of blocks asked for

VARIABLES free,      \* the free pages
          refused    \* the length of the last request, if it was answered with NULL

pageVars == <<free, refused>>

PageInit == free = 0 .. NPages - 1 /\ refused = 0

Run(b, n) == b .. b + n - 1

Grant(b, n) ==
    /\ Run(b, n) \subseteq free
    /\ free' = free \ Run(b, n)
    /\ refused' = 0

Refuse(n) ==
    /\ \A b \in free : ~(Run(b, n) \subseteq free)
    /\ refused' = n
    /\ UNCHANGED free

GiveBack(b, n) ==
    /\ Run(b, n) \cap free = {}
    /\ free' = free \cup Run(b, n)
    /\ refused' = 0

PageNext ==
    \E n \in Request :
        \/ Refuse(n)
        \/ \E b \in 0 .. NPages - n : Grant(b, n) \/ GiveBack(b, n)

PageSafety == PageInit /\ [][PageNext]_pageVars
=============================================================================
