------------------------------ MODULE ProcTable -----------------------------
(***************************************************************************)
(* The process table of proc.c: do_fork gives a new process a pid, a place *)
(* in proc_list and hash_list and its family pointers, do_wait takes all   *)
(* of them back.  Module Pid is the list and get_pid, module Family the    *)
(* pointers.  A fork, an exit and a scan each run to their end before the  *)
(* next one starts.                                                        *)
(***************************************************************************)
EXTENDS Pid, Family

VARIABLE pid    \* proc->pid: a process is in hash_list under this number

tableVars == <<vars, familyVars, pid>>

\* find_proc(n): the processes in n's chain of hash_list whose pid is n.
find_proc(n) == {x \in Proc \ {Idle} : Exists(x) /\ pid[x] = n}

-----------------------------------------------------------------------------
\* do_fork: get_pid, then hash_proc and set_links.
ForkBegins ==
    /\ walk = "none"
    /\ GetPid
    /\ UNCHANGED <<familyVars, pid>>

ForkScans ==
    /\ ScanTaken \/ ScanOther \/ ScanEnds
    /\ UNCHANGED <<familyVars, pid>>

ForkEnds(p, c) ==
    /\ SetLinks /\ Fork(p, c)
    /\ pid' = [pid EXCEPT ![c] = last_pid]

\* do_wait at found: unhash_proc and remove_links.
Reap(c) ==
    /\ op = "none"
    /\ \E i \in DOMAIN pids : pids[i] = pid[c] /\ RemoveLinks(i)
    /\ pid' = [pid EXCEPT ![c] = 0]

WaitAny == \E c \in Users : proc = c /\ ScanFinds /\ Reap(c)

\* do_wait(n) takes the process find_proc gives, if it is a child of p.
WaitFor(p, n) == \E c \in find_proc(n) : WaitForPid(p, c) /\ Reap(c)

\* The steps that change the family pointers only.
FamilyOnly ==
    /\ op = "none"
    /\ FamilyLoop \/ \E p \in Proc : ExitBegins(p) \/ WaitBegins(p)
    /\ UNCHANGED <<vars, pid>>

-----------------------------------------------------------------------------
\* proc_init: idle has pid 0 and is on no list, init got pid 1 from get_pid.
TableInit ==
    /\ FamilyInit
    /\ pid = [x \in Proc |-> IF x = InitP THEN 1 ELSE 0]
    /\ pids = <<1>>
    /\ last_pid = 1 /\ next_safe = MAX_PID
    /\ le = 1 /\ op = "none"

TableNext ==
    \/ ForkBegins \/ ForkScans \/ WaitAny \/ FamilyOnly
    \/ \E p \in Proc, c \in Users : ForkEnds(p, c)
    \/ \E p \in Proc, n \in 1..(MAX_PID - 1) : WaitFor(p, n)

\* The loops of get_pid, do_exit and do_wait run to their end: nobody else gets
\* the CPU before.
TableLoop ==
    \/ ForkScans \/ WaitAny
    \/ FamilyLoop /\ UNCHANGED <<vars, pid>>
    \/ \E p \in Proc, c \in Users : ForkEnds(p, c)

TableSpec == TableInit /\ [][TableNext]_tableVars /\ WF_tableVars(TableLoop)

-----------------------------------------------------------------------------
\* The number fork returned names that process, and no other, until do_wait has
\* freed it, zombies and orphans moved to init included; and proc_list holds every
\* process once and nothing else.  What do_kill and do_wait(pid) rely on.
PidNamesOne ==
    /\ \A x \in Proc \ {Idle} : Exists(x) => find_proc(pid[x]) = {x} /\ InUse(pid[x])
    /\ \A i \in DOMAIN pids :
         find_proc(pids[i]) # {} /\ \A j \in DOMAIN pids : pids[i] = pids[j] => i = j

\* Every walk ends: do_exit's loop and do_wait's scan, as no list is a cycle, and
\* get_pid's scan, which starts over only a bounded number of times, as
\* MAX_PID > MAX_PROCESS leaves a free pid.
WalksEnd ==
    /\ (walk # "none") ~> (walk = "none")
    /\ (op = "scan") ~> (op = "got")
=============================================================================
