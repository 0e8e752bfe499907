--------------------------------- MODULE Pid --------------------------------
(***************************************************************************)
(* get_pid of proc.c: the smallest free pid after the last one given out,  *)
(* without a search as long as it is below next_safe.  The scan of the     *)
(* process list takes a step per entry.  No other process runs meanwhile.  *)
(***************************************************************************)
EXTENDS Naturals, Sequences

CONSTANTS MAX_PID, MAX_PROCESS

\* get_pid's static_assert, and room for idle and init.
ASSUME PidAssumption ==
    /\ MAX_PID \in Nat /\ MAX_PROCESS \in Nat
    /\ MAX_PID > MAX_PROCESS /\ MAX_PROCESS > 1

VARIABLES
    pids,       \* proc_list: the pids in use, newest first (idle, 0, is not on it)
    last_pid, next_safe,
    le,         \* the cursor of the scan
    op          \* "none", "scan": in get_pid's loop, "got": pid is last_pid

vars == <<pids, last_pid, next_safe, le, op>>

InUse(x) == \E i \in DOMAIN pids : pids[i] = x

-----------------------------------------------------------------------------
\* do_fork up to get_pid's loop: the next pid, at once or after a scan.
GetPid ==
    /\ op = "none"
    /\ Len(pids) + 1 < MAX_PROCESS
    /\ le' = 1
    /\ UNCHANGED pids
    /\ \/ /\ last_pid + 1 >= MAX_PID
          /\ last_pid' = 1 /\ next_safe' = MAX_PID /\ op' = "scan"
       \/ /\ last_pid + 1 < MAX_PID /\ last_pid + 1 >= next_safe
          /\ last_pid' = last_pid + 1 /\ next_safe' = MAX_PID /\ op' = "scan"
       \/ /\ last_pid + 1 < MAX_PID /\ last_pid + 1 < next_safe
          /\ last_pid' = last_pid + 1 /\ op' = "got" /\ UNCHANGED next_safe

\* The entry has the candidate: try the next one; past next_safe start over.
StartsOver_Not(l) == l >= MAX_PID
StartsOver(l) == l >= next_safe

Wrapped_ToOne(l) == 1
Wrapped(l) == IF l >= MAX_PID THEN 1 ELSE l

ScanTaken ==
    /\ op = "scan" /\ le \in DOMAIN pids
    /\ pids[le] = last_pid
    /\ UNCHANGED <<pids, op>>
    /\ \/ /\ StartsOver(last_pid + 1)
          /\ last_pid' = Wrapped(last_pid + 1)
          /\ next_safe' = MAX_PID /\ le' = 1
       \/ /\ ~StartsOver(last_pid + 1)
          /\ last_pid' = last_pid + 1 /\ le' = le + 1 /\ UNCHANGED next_safe

\* Another entry: the candidates are safe up to it.
SafeUpTo_SkipsNext(x) == IF x > last_pid + 1 /\ next_safe > x THEN x ELSE next_safe
SafeUpTo(x) == IF x > last_pid /\ next_safe > x THEN x ELSE next_safe

ScanOther ==
    /\ op = "scan" /\ le \in DOMAIN pids
    /\ pids[le] # last_pid
    /\ next_safe' = SafeUpTo(pids[le])
    /\ le' = le + 1
    /\ UNCHANGED <<pids, last_pid, op>>

ScanEnds ==
    /\ op = "scan" /\ le = Len(pids) + 1
    /\ op' = "got"
    /\ UNCHANGED <<pids, last_pid, next_safe, le>>

\* set_links: list_add puts the new process first.
SetLinks ==
    /\ op = "got"
    /\ pids' = <<last_pid>> \o pids
    /\ op' = "none"
    /\ UNCHANGED <<last_pid, next_safe, le>>

\* remove_links of the i-th process of the list (never init, the first forked).
RemoveLinks(i) ==
    /\ op = "none" /\ pids[i] # 1
    /\ pids' = [k \in 1..(Len(pids) - 1) |-> IF k < i THEN pids[k] ELSE pids[k + 1]]
    /\ UNCHANGED <<last_pid, next_safe, le, op>>

-----------------------------------------------------------------------------
Init ==
    /\ pids = <<>>
    /\ last_pid = MAX_PID /\ next_safe = MAX_PID
    /\ le = 1 /\ op = "none"

Loop == ScanTaken \/ ScanOther \/ ScanEnds \/ SetLinks

Next == GetPid \/ Loop \/ \E i \in DOMAIN pids : RemoveLinks(i)

Spec == Init /\ [][Next]_vars

\* get_pid runs to its end: nothing interrupts it.
FairSpec == Spec /\ WF_vars(Loop)

-----------------------------------------------------------------------------
TypeOK ==
    /\ pids \in Seq(1..(MAX_PID - 1))
    /\ last_pid \in 1..MAX_PID
    /\ next_safe \in 1..MAX_PID
    /\ le \in Nat \ {0}
    /\ op \in {"none", "scan", "got"}

\* get_pid returns a pid nobody has, also after the numbers have wrapped around.
PidUnique == op = "got" => ~InUse(last_pid)

\* Between calls no pid in use lies between last_pid and next_safe: the numbers
\* get_pid gives out without looking are free.
SafeRange == op = "none" => \A i \in DOMAIN pids : pids[i] <= last_pid \/ pids[i] >= next_safe
=============================================================================
