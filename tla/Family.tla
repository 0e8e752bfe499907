------------------------------- MODULE Family -------------------------------
(***************************************************************************)
(* The family pointers of proc.c: a process's youngest child is cptr, and  *)
(* the children of one parent form a list, linked by optr to the next      *)
(* older and by yptr to the next younger sibling.  set_links, remove_links *)
(* and do_exit change them; do_wait searches them for a zombie.            *)
(*                                                                         *)
(* do_exit's loop over the children and do_wait's scan take a step per     *)
(* child.  No other process runs meanwhile: do_exit has interrupts off,    *)
(* do_wait gives the CPU up only after its scan.  The wakeups the two do   *)
(* are in module Proc; ProcTable joins these pointers and the pids.        *)
(***************************************************************************)
EXTENDS Naturals, FiniteSets

CONSTANTS
    Users,      \* proc_struct slots a user process can occupy
    Idle, InitP,
    Null

Proc == Users \cup {Idle, InitP}

ASSUME FamilyAssumption ==
    /\ IsFiniteSet(Users)
    /\ Idle \notin Users /\ InitP \notin Users /\ Idle # InitP
    /\ Null \notin Proc

VARIABLES
    state,      \* "FREE": no proc_struct, "LIVE", "ZOMBIE"
    parent,
    cptr, optr, yptr,
    walk,       \* "exit": in do_exit's loop, "scan": in do_wait's loop, or "none"
    who,        \* the process that is
    proc        \* the loop variable of do_wait's scan

links == <<parent, cptr, optr, yptr>>
familyVars == <<state, links, walk, who, proc>>

Exists(x) == state[x] # "FREE"
Kids(p) == {c \in Proc : Exists(c) /\ parent[c] = p}

-----------------------------------------------------------------------------
\* set_links(c), after proc->parent = p.
set_links(c, p) ==
    /\ parent' = [parent EXCEPT ![c] = p]
    /\ optr' = [optr EXCEPT ![c] = cptr[p]]
    /\ yptr' = [x \in Proc |-> IF x = c THEN Null ELSE IF x = cptr[p] THEN c ELSE yptr[x]]
    /\ cptr' = [cptr EXCEPT ![p] = c]

\* remove_links(c), and kfree: nobody reads the slot's pointers before alloc_proc
\* clears them, so they are cleared here.
AfterRemoval_KeepsHead(c) == cptr
AfterRemoval(c) ==
    [x \in Proc |-> IF x = parent[c] /\ yptr[c] = Null THEN optr[c] ELSE cptr[x]]

remove_links(c) ==
    /\ optr' = [x \in Proc |-> IF x = c THEN Null ELSE IF x = yptr[c] THEN optr[c] ELSE optr[x]]
    /\ yptr' = [x \in Proc |-> IF x = c THEN Null ELSE IF x = optr[c] THEN yptr[c] ELSE yptr[x]]
    /\ cptr' = AfterRemoval(c)
    /\ parent' = [parent EXCEPT ![c] = Null]

-----------------------------------------------------------------------------
Fork(p, c) ==
    /\ walk = "none" /\ p # Idle
    /\ state[p] = "LIVE" /\ state[c] = "FREE"
    /\ state' = [state EXCEPT ![c] = "LIVE"]
    /\ set_links(c, p)
    /\ UNCHANGED <<walk, who, proc>>

\* do_exit up to the loop (exit of idle and init panics).
ExitBegins(p) ==
    /\ walk = "none" /\ p \in Users /\ state[p] = "LIVE"
    /\ state' = [state EXCEPT ![p] = "ZOMBIE"]
    /\ walk' = "exit" /\ who' = p
    /\ UNCHANGED <<links, proc>>

\* One round of do_exit's loop: the youngest child becomes init's youngest.
YptrToInit(c) ==
    [x \in Proc |-> IF x = c THEN Null ELSE IF x = cptr[InitP] THEN c ELSE yptr[x]]

MoveToInit_LateRead(c) ==
    /\ cptr' = [cptr EXCEPT ![who] = cptr[InitP], ![InitP] = c]
    /\ yptr' = YptrToInit(c)
    /\ optr' = [optr EXCEPT ![c] = cptr[InitP]]
    /\ parent' = [parent EXCEPT ![c] = InitP]
MoveToInit(c) ==
    /\ cptr' = [cptr EXCEPT ![who] = optr[c], ![InitP] = c]
    /\ yptr' = YptrToInit(c)
    /\ optr' = [optr EXCEPT ![c] = cptr[InitP]]
    /\ parent' = [parent EXCEPT ![c] = InitP]

ExitMoves ==
    /\ walk = "exit" /\ cptr[who] # Null
    /\ MoveToInit(cptr[who])
    /\ UNCHANGED <<state, walk, who, proc>>

ExitEnds ==
    /\ walk = "exit" /\ cptr[who] = Null
    /\ walk' = "none" /\ who' = Idle
    /\ UNCHANGED <<state, links, proc>>

\* do_wait(0) at repeat: the scan starts at the youngest child.
WaitBegins(p) ==
    /\ walk = "none" /\ p # Idle /\ state[p] = "LIVE"
    /\ walk' = "scan" /\ who' = p /\ proc' = cptr[p]
    /\ UNCHANGED <<state, links>>

\* A child that is no zombie: on to the next older one.
Older(c) == optr[c]

ScanPasses ==
    /\ walk = "scan" /\ proc # Null /\ state[proc] # "ZOMBIE"
    /\ proc' = Older(proc)
    /\ UNCHANGED <<state, links, walk, who>>

\* found: the zombie c is unlinked and freed.
Frees(c) ==
    /\ state' = [state EXCEPT ![c] = "FREE"]
    /\ remove_links(c)
    /\ walk' = "none" /\ who' = Idle /\ proc' = Null

ScanFinds ==
    /\ walk = "scan" /\ proc # Null /\ state[proc] = "ZOMBIE"
    /\ Frees(proc)

\* No zombie: do_wait sleeps or fails.
KidScanEnds ==
    /\ walk = "scan" /\ proc = Null
    /\ walk' = "none" /\ who' = Idle
    /\ UNCHANGED <<state, links, proc>>

\* do_wait(pid): find_proc gives the process, and current is its parent.
WaitForPid(p, c) ==
    /\ walk = "none" /\ state[p] = "LIVE"
    /\ state[c] = "ZOMBIE" /\ parent[c] = p
    /\ Frees(c)

-----------------------------------------------------------------------------
\* proc_init: idle, and init, its child.
FamilyInit ==
    /\ state = [x \in Proc |-> IF x \in Users THEN "FREE" ELSE "LIVE"]
    /\ parent = [x \in Proc |-> IF x = InitP THEN Idle ELSE Null]
    /\ cptr = [x \in Proc |-> IF x = Idle THEN InitP ELSE Null]
    /\ optr = [x \in Proc |-> Null]
    /\ yptr = [x \in Proc |-> Null]
    /\ walk = "none" /\ who = Idle /\ proc = Null

FamilyLoop == ExitMoves \/ ExitEnds \/ ScanPasses \/ KidScanEnds

-----------------------------------------------------------------------------
\* No process points to a freed proc_struct, not even in the middle of do_exit,
\* where the children's yptr are out of date.
NoDangling ==
    \A x \in Proc : Exists(x) =>
        \A y \in {parent[x], cptr[x], optr[x], yptr[x]} \ {Null} : Exists(y)

\* The n-th child from the youngest on, Null past the end.
Nth(p) ==
    LET f[n \in 0..Cardinality(Proc)] ==
            IF n = 0 THEN cptr[p] ELSE IF f[n - 1] = Null THEN Null ELSE optr[f[n - 1]]
    IN f

\* The list of each process holds exactly its children and ends; a move of
\* orphans to init, or the removal of the first, last or a middle child, loses none.
ChildListExact ==
    \A p \in Proc :
        LET f == Nth(p)
        IN /\ f[Cardinality(Proc)] = Null
           /\ Kids(p) = {f[n] : n \in DOMAIN f} \ {Null}
=============================================================================
