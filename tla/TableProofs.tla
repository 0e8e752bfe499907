---------------------------- MODULE TableProofs -----------------------------
(***************************************************************************)
(* Proofs about the process table, for every number of processes and every *)
(* MAX_PID and MAX_PROCESS: get_pid, the table that joins it with the      *)
(* family pointers, and the pointers themselves.                           *)
(***************************************************************************)
EXTENDS ProcTable, FiniteSetTheorems, SequenceTheorems, WellFoundedInduction, TLAPS

-----------------------------------------------------------------------------
(* get_pid *)

\* The entries of index below n are outside the range [lo, next_safe).
ClearBelow(n, lo) ==
    \A i \in DOMAIN pids : i < n => pids[i] < lo \/ pids[i] >= next_safe

\* The inductive invariant: in the scan the entries passed so far are clear of the
\* range from the candidate to next_safe, and at its end all of them are.
PidInv ==
    /\ TypeOK
    /\ op \in {"scan", "got"} => last_pid < next_safe
    /\ op = "scan" => le <= Len(pids) + 1 /\ ClearBelow(le, last_pid)
    /\ op = "got" => ClearBelow(Len(pids) + 1, last_pid)
    /\ SafeRange

\* What the type invariant says of the list, in the form the steps below use.
LEMMA ListFacts ==
    ASSUME TypeOK
    PROVE  /\ pids \in Seq(1..(MAX_PID - 1)) /\ DOMAIN pids = 1..Len(pids) /\ Len(pids) \in Nat
           /\ last_pid \in Nat /\ next_safe \in Nat
           /\ \A i \in DOMAIN pids : pids[i] \in Nat /\ pids[i] >= 1 /\ pids[i] < MAX_PID
<1>1. pids \in Seq(1..(MAX_PID - 1)) /\ last_pid \in 1..MAX_PID /\ next_safe \in 1..MAX_PID
  BY DEF TypeOK
<1>2. DOMAIN pids = 1..Len(pids) /\ Len(pids) \in Nat
  BY <1>1
<1>3. \A i \in DOMAIN pids : pids[i] \in 1..(MAX_PID - 1)
  BY <1>1, <1>2, ElementOfSeq
<1> QED BY <1>1, <1>2, <1>3, PidAssumption

LEMMA GetPidStep ==
    ASSUME PidInv, GetPid
    PROVE  PidInv'
<1> USE PidAssumption
<1>1. /\ op = "none" /\ pids' = pids /\ le' = 1
      /\ op' \in {"scan", "got"}
  BY DEF GetPid
<1>2. /\ pids \in Seq(1..(MAX_PID - 1)) /\ last_pid \in 1..MAX_PID /\ next_safe \in 1..MAX_PID
      /\ DOMAIN pids = 1..Len(pids) /\ Len(pids) \in Nat
      /\ \A i \in DOMAIN pids : pids[i] \in 1..(MAX_PID - 1)
  BY DEF PidInv, TypeOK
<1>3. last_pid' \in 1..MAX_PID /\ next_safe' \in 1..MAX_PID /\ last_pid' < next_safe'
  BY <1>2 DEF GetPid
<1>4. TypeOK'
  BY <1>1, <1>2, <1>3 DEF TypeOK
<1>5. op' = "scan" => le' <= Len(pids') + 1 /\ ClearBelow(le, last_pid)'
  BY <1>1, <1>2 DEF ClearBelow
<1>6. op' = "got" => ClearBelow(Len(pids) + 1, last_pid)'
  <2> SUFFICES ASSUME op' = "got", NEW i \in DOMAIN pids
               PROVE  pids[i] < last_pid' \/ pids[i] >= next_safe'
    BY <1>1 DEF ClearBelow
  <2>1. last_pid' = last_pid + 1 /\ next_safe' = next_safe
    BY <1>1 DEF GetPid
  <2>2. pids[i] <= last_pid \/ pids[i] >= next_safe
    BY <1>1 DEF PidInv, SafeRange
  <2> QED BY <1>2, <2>1, <2>2
<1>7. SafeRange'
  BY <1>1 DEF SafeRange
<1> QED BY <1>3, <1>4, <1>5, <1>6, <1>7 DEF PidInv

LEMMA ScanTakenStep ==
    ASSUME PidInv, ScanTaken
    PROVE  PidInv'
<1> USE PidAssumption
<1>1. /\ op = "scan" /\ op' = "scan" /\ pids' = pids
      /\ le \in DOMAIN pids /\ pids[le] = last_pid
  BY DEF ScanTaken
<1>2. /\ pids \in Seq(1..(MAX_PID - 1)) /\ last_pid \in 1..MAX_PID /\ next_safe \in 1..MAX_PID
      /\ DOMAIN pids = 1..Len(pids) /\ Len(pids) \in Nat
      /\ \A i \in DOMAIN pids : pids[i] \in 1..(MAX_PID - 1)
      /\ last_pid < next_safe
  BY <1>1, ListFacts DEF PidInv, TypeOK
<1>3. \A i \in DOMAIN pids : i < le => pids[i] < last_pid \/ pids[i] >= next_safe
  BY <1>1 DEF PidInv, ClearBelow
<1>4. CASE StartsOver(last_pid + 1)
  <2>1. le' = 1 /\ next_safe' = MAX_PID /\ last_pid' \in 1..(MAX_PID - 1)
    BY <1>2, <1>4 DEF ScanTaken, Wrapped
  <2>2. TypeOK'
    BY <1>1, <1>2, <2>1 DEF TypeOK
  <2>3. ClearBelow(le, last_pid)'
    BY <1>1, <1>2, <2>1 DEF ClearBelow
  <2> QED BY <1>1, <1>2, <2>1, <2>2, <2>3 DEF PidInv, SafeRange
<1>5. CASE ~StartsOver(last_pid + 1)
  <2>1. le' = le + 1 /\ next_safe' = next_safe /\ last_pid' = last_pid + 1
    BY <1>5 DEF ScanTaken
  <2>2. last_pid + 1 < next_safe
    BY <1>2, <1>5 DEF StartsOver
  <2>3. TypeOK'
    BY <1>1, <1>2, <2>1, <2>2 DEF TypeOK
  <2>4. ClearBelow(le, last_pid)'
    <3> SUFFICES ASSUME NEW i \in DOMAIN pids, i < le + 1
                 PROVE  pids[i] < last_pid + 1 \/ pids[i] >= next_safe
      BY <1>1, <2>1 DEF ClearBelow
    <3>1. CASE i = le
      BY <1>1, <1>2, <3>1
    <3>2. CASE i < le
      <4>1. pids[i] < last_pid \/ pids[i] >= next_safe
        BY <1>3, <3>2
      <4>2. pids[i] \in 1..(MAX_PID - 1)
        BY <1>2
      <4> QED BY <1>2, <4>1, <4>2
    <3> QED BY <1>1, <1>2, <3>1, <3>2
  <2>5. le' <= Len(pids') + 1
    BY <1>1, <1>2, <2>1
  <2> QED BY <1>1, <2>1, <2>2, <2>3, <2>4, <2>5 DEF PidInv, SafeRange
<1> QED BY <1>4, <1>5

LEMMA ScanOtherStep ==
    ASSUME PidInv, ScanOther
    PROVE  PidInv'
<1> USE PidAssumption
<1>1. /\ op = "scan" /\ op' = "scan" /\ pids' = pids /\ last_pid' = last_pid
      /\ le \in DOMAIN pids /\ pids[le] # last_pid /\ le' = le + 1
  BY DEF ScanOther
<1>2. /\ pids \in Seq(1..(MAX_PID - 1)) /\ last_pid \in 1..MAX_PID /\ next_safe \in 1..MAX_PID
      /\ DOMAIN pids = 1..Len(pids) /\ Len(pids) \in Nat
      /\ \A i \in DOMAIN pids : pids[i] \in 1..(MAX_PID - 1)
      /\ last_pid < next_safe
  BY <1>1, ListFacts DEF PidInv, TypeOK
<1>3. \A i \in DOMAIN pids : i < le => pids[i] < last_pid \/ pids[i] >= next_safe
  BY <1>1 DEF PidInv, ClearBelow
<1>4. /\ next_safe' \in 1..MAX_PID /\ next_safe' <= next_safe /\ last_pid < next_safe'
      /\ pids[le] < last_pid \/ pids[le] >= next_safe'
  BY <1>1, <1>2 DEF ScanOther, SafeUpTo
<1>5. TypeOK'
  BY <1>1, <1>2, <1>4 DEF TypeOK
<1>6. ClearBelow(le, last_pid)'
  BY SMTT(30), <1>1, <1>2, <1>3, <1>4 DEF ClearBelow
<1>7. le' <= Len(pids') + 1
  BY <1>1, <1>2
<1> QED BY <1>1, <1>4, <1>5, <1>6, <1>7 DEF PidInv, SafeRange

LEMMA SetLinksStep ==
    ASSUME PidInv, SetLinks
    PROVE  PidInv'
<1> USE PidAssumption
<1>1. /\ op = "got" /\ op' = "none" /\ pids' = <<last_pid>> \o pids
      /\ last_pid' = last_pid /\ next_safe' = next_safe /\ le' = le
  BY DEF SetLinks
<1>2. /\ pids \in Seq(1..(MAX_PID - 1)) /\ last_pid \in 1..MAX_PID /\ next_safe \in 1..MAX_PID
      /\ DOMAIN pids = 1..Len(pids) /\ Len(pids) \in Nat
      /\ \A i \in DOMAIN pids : pids[i] \in 1..(MAX_PID - 1)
      /\ last_pid < next_safe
  BY <1>1, ListFacts DEF PidInv, TypeOK
<1>3. \A i \in DOMAIN pids : pids[i] < last_pid \/ pids[i] >= next_safe
  BY <1>1, <1>2 DEF PidInv, ClearBelow
<1>4. <<last_pid>> \in Seq(1..(MAX_PID - 1))
  BY <1>2
<1>5. /\ pids' \in Seq(1..(MAX_PID - 1))
      /\ DOMAIN pids' = 1..(Len(pids) + 1)
      /\ \A k \in DOMAIN pids' : pids'[k] = IF k = 1 THEN last_pid ELSE pids[k - 1]
  BY <1>1, <1>2, <1>4
<1>6. TypeOK'
  BY <1>1, <1>5 DEF PidInv, TypeOK
<1>7. SafeRange'
  <2> SUFFICES ASSUME NEW k \in DOMAIN pids'
               PROVE  pids'[k] <= last_pid \/ pids'[k] >= next_safe
    BY <1>1 DEF SafeRange
  <2>1. CASE k = 1
    <3>1. pids'[k] = last_pid
      BY <1>5, <2>1
    <3> QED BY <1>2, <3>1
  <2>2. CASE k # 1
    <3>1. k - 1 \in DOMAIN pids /\ pids'[k] = pids[k - 1]
      BY SMTT(30), <1>2, <1>5, <2>2
    <3> QED BY <1>2, <1>3, <3>1
  <2> QED BY <2>1, <2>2
<1> QED BY <1>1, <1>6, <1>7 DEF PidInv

LEMMA RemoveLinksStep ==
    ASSUME PidInv, NEW i \in DOMAIN pids, RemoveLinks(i)
    PROVE  PidInv'
<1>1. /\ op = "none" /\ op' = "none"
      /\ last_pid' = last_pid /\ next_safe' = next_safe /\ le' = le
      /\ pids' = [k \in 1..(Len(pids) - 1) |-> IF k < i THEN pids[k] ELSE pids[k + 1]]
  BY DEF RemoveLinks
<1>2. /\ pids \in Seq(1..(MAX_PID - 1))
      /\ DOMAIN pids = 1..Len(pids) /\ Len(pids) \in Nat
      /\ \A k \in DOMAIN pids : pids[k] \in 1..(MAX_PID - 1)
  BY ListFacts, PidAssumption DEF PidInv
<1>3. Len(pids) - 1 \in Nat
  BY <1>2
<1>4. \A k \in 1..(Len(pids) - 1) : \E j \in DOMAIN pids : pids'[k] = pids[j]
  <2> SUFFICES ASSUME NEW k \in 1..(Len(pids) - 1)
               PROVE  \E j \in DOMAIN pids : pids'[k] = pids[j]
    OBVIOUS
  <2>1. k \in DOMAIN pids /\ k + 1 \in DOMAIN pids
    BY <1>2
  <2>2. pids'[k] = pids[k] \/ pids'[k] = pids[k + 1]
    BY <1>1
  <2> QED BY <2>1, <2>2
<1>5. pids' \in Seq(1..(MAX_PID - 1))
  BY <1>1, <1>2, <1>3, <1>4
<1>6. TypeOK'
  BY <1>1, <1>5 DEF PidInv, TypeOK
<1>7. SafeRange'
  BY <1>1, <1>4 DEF PidInv, SafeRange
<1> QED BY <1>1, <1>6, <1>7 DEF PidInv

\* Every step of get_pid, and every fork and exit around it, keeps PidInv.
LEMMA PidStep ==
    ASSUME PidInv, [Next]_vars
    PROVE  PidInv'
<1>1. CASE GetPid
  BY <1>1, GetPidStep
<1>2. CASE ScanTaken
  BY <1>2, ScanTakenStep
<1>3. CASE ScanOther
  BY <1>3, ScanOtherStep
<1>4. CASE ScanEnds
  <2>1. op = "scan" /\ op' = "got" /\ UNCHANGED <<pids, last_pid, next_safe, le>>
        /\ le = Len(pids) + 1
    BY <1>4 DEF ScanEnds
  <2> QED BY <2>1 DEF PidInv, TypeOK, ClearBelow, SafeRange
<1>5. CASE SetLinks
  BY <1>5, SetLinksStep
<1>6. CASE \E i \in DOMAIN pids : RemoveLinks(i)
  BY <1>6, RemoveLinksStep
<1>7. CASE UNCHANGED vars
  BY <1>7 DEF vars, PidInv, TypeOK, ClearBelow, SafeRange
<1> QED BY <1>1, <1>2, <1>3, <1>4, <1>5, <1>6, <1>7 DEF Next, Loop

\* PidInv holds in every reachable state.
THEOREM PidInvariant == Spec => []PidInv
<1>1. Init => PidInv
  <2> SUFFICES ASSUME Init PROVE PidInv
    OBVIOUS
  <2>1. TypeOK
    BY PidAssumption DEF Init, TypeOK
  <2> QED BY <2>1 DEF Init, PidInv, SafeRange
<1>2. PidInv /\ [Next]_vars => PidInv'
  BY PidStep
<1> QED BY <1>1, <1>2, PTL DEF Spec

\* What the invariant says of the pid get_pid is about to return.
LEMMA ScanFindsFree ==
    ASSUME PidInv
    PROVE  PidUnique
<1> SUFFICES ASSUME op = "got", NEW i \in DOMAIN pids
             PROVE  pids[i] # last_pid
  BY DEF PidUnique, InUse
<1>1. pids[i] < last_pid \/ pids[i] >= next_safe
  BY DEF PidInv, TypeOK, ClearBelow
<1>2. last_pid \in Nat /\ next_safe \in Nat /\ last_pid < next_safe /\ pids[i] \in Nat
  BY ListFacts DEF PidInv
<1> QED BY <1>1, <1>2

\* get_pid never returns a pid that is in use, for any limits and any history of
\* forks and exits, wrap-around included.
THEOREM PidUniqueCorrect == Spec => []PidUnique
<1>1. PidInv => PidUnique
  BY ScanFindsFree
<1> QED BY <1>1, PidInvariant, PTL

\* The pids get_pid gives out without a scan are free.
THEOREM SafeRangeCorrect == Spec => []SafeRange
<1>1. PidInv => SafeRange
  BY DEF PidInv
<1> QED BY <1>1, PidInvariant, PTL

-----------------------------------------------------------------------------
(* The table *)

\* The inductive invariant: the pid list is right by itself, and pid maps the
\* processes one to one onto it.
TableInv ==
    /\ PidInv
    /\ state \in [Proc -> {"FREE", "LIVE", "ZOMBIE"}]
    /\ pid \in [Proc -> Nat]
    /\ \A x \in Proc \ {Idle} : Exists(x) => \E i \in DOMAIN pids : pids[i] = pid[x]
    /\ \A x, y \in Proc \ {Idle} : Exists(x) /\ Exists(y) /\ pid[x] = pid[y] => x = y
    /\ \A i \in DOMAIN pids : \E x \in Proc \ {Idle} : Exists(x) /\ pid[x] = pids[i]
    /\ \A i, j \in DOMAIN pids : pids[i] = pids[j] => i = j

\* Each step of the table is a step of the pid list, or leaves it alone.
LEMMA TableStepsPid ==
    ASSUME TableNext
    PROVE  [Next]_vars
<1>1. CASE ForkBegins
  BY <1>1 DEF ForkBegins, Next
<1>2. CASE ForkScans
  BY <1>2 DEF ForkScans, Next, Loop
<1>3. CASE WaitAny
  BY <1>3 DEF WaitAny, Reap, Next
<1>4. CASE FamilyOnly
  BY <1>4 DEF FamilyOnly
<1>5. CASE \E p \in Proc, c \in Users : ForkEnds(p, c)
  BY <1>5 DEF ForkEnds, Next, Loop
<1>6. CASE \E p \in Proc, n \in 1..(MAX_PID - 1) : WaitFor(p, n)
  BY <1>6 DEF WaitFor, Reap, Next
<1> QED BY <1>1, <1>2, <1>3, <1>4, <1>5, <1>6 DEF TableNext

\* do_fork's end: the new process gets a pid that nobody has.
LEMMA ForkEndsStep ==
    ASSUME TableInv, NEW p \in Proc, NEW c \in Users, ForkEnds(p, c), PidInv'
    PROVE  TableInv'
<1>1. /\ pids' = <<last_pid>> \o pids
      /\ op = "got" /\ state[c] = "FREE"
      /\ state' = [state EXCEPT ![c] = "LIVE"]
      /\ pid' = [pid EXCEPT ![c] = last_pid]
  BY DEF ForkEnds, SetLinks, Fork
<1>2. /\ pids \in Seq(1..(MAX_PID - 1)) /\ DOMAIN pids = 1..Len(pids) /\ Len(pids) \in Nat
      /\ last_pid \in Nat
  BY ListFacts DEF TableInv, PidInv
<1>3. \A i \in DOMAIN pids : pids[i] # last_pid
  BY <1>1, ScanFindsFree DEF TableInv, PidUnique, InUse
<1>4. /\ DOMAIN pids' = 1..(Len(pids) + 1)
      /\ pids'[1] = last_pid
      /\ \A i \in DOMAIN pids : pids'[i + 1] = pids[i]
      /\ \A i \in DOMAIN pids' \ {1} : i - 1 \in DOMAIN pids /\ pids'[i] = pids[i - 1]
  BY <1>1, <1>2
<1>5. c \in Proc \ {Idle} /\ Exists(c)' /\ pid'[c] = last_pid
  BY <1>1, FamilyAssumption DEF Proc, Exists, TableInv
<1>6. \A x \in Proc \ {c} : Exists(x)' = Exists(x) /\ pid'[x] = pid[x]
  BY <1>1 DEF Exists, TableInv
<1>7. ~Exists(c)
  BY <1>1 DEF Exists
<1>8. state' \in [Proc -> {"FREE", "LIVE", "ZOMBIE"}] /\ pid' \in [Proc -> Nat]
  BY <1>1, <1>2 DEF TableInv
<1>9. \A x \in Proc \ {Idle} : Exists(x)' => \E i \in DOMAIN pids' : pids'[i] = pid'[x]
  <2> SUFFICES ASSUME NEW x \in Proc \ {Idle}, Exists(x)'
               PROVE  \E i \in DOMAIN pids' : pids'[i] = pid'[x]
    OBVIOUS
  <2>1. CASE x = c
    <3>1. 1 \in DOMAIN pids'
      BY <1>2, <1>4
    <3> QED BY <2>1, <3>1, <1>4, <1>5
  <2>2. CASE x # c
    <3>1. PICK i \in DOMAIN pids : pids[i] = pid[x]
      BY <2>2, <1>6 DEF TableInv
    <3>2. i + 1 \in DOMAIN pids' /\ pids'[i + 1] = pid'[x]
      BY <2>2, <3>1, <1>2, <1>4, <1>6
    <3> QED BY <3>2
  <2> QED BY <2>1, <2>2
<1>10. \A x \in Proc \ {Idle} : Exists(x) => pid[x] # last_pid
  BY <1>3 DEF TableInv
<1>11. \A x, y \in Proc \ {Idle} : Exists(x)' /\ Exists(y)' /\ pid'[x] = pid'[y] => x = y
  BY <1>5, <1>6, <1>10 DEF TableInv
<1>12. \A i \in DOMAIN pids' : \E x \in Proc \ {Idle} : Exists(x)' /\ pid'[x] = pids'[i]
  <2> SUFFICES ASSUME NEW i \in DOMAIN pids'
               PROVE  \E x \in Proc \ {Idle} : Exists(x)' /\ pid'[x] = pids'[i]
    OBVIOUS
  <2>1. CASE i = 1
    BY <2>1, <1>4, <1>5
  <2>2. CASE i # 1
    <3>1. i - 1 \in DOMAIN pids /\ pids'[i] = pids[i - 1]
      BY <2>2, <1>4
    <3>2. PICK x \in Proc \ {Idle} : Exists(x) /\ pid[x] = pids[i - 1]
      BY <3>1 DEF TableInv
    <3> QED BY <3>1, <3>2, <1>6, <1>7
  <2> QED BY <2>1, <2>2
<1>13. \A i, j \in DOMAIN pids' : pids'[i] = pids'[j] => i = j
  <2> SUFFICES ASSUME NEW i \in DOMAIN pids', NEW j \in DOMAIN pids', pids'[i] = pids'[j]
               PROVE  i = j
    OBVIOUS
  <2>1. CASE i = 1 \/ j = 1
    BY <2>1, <1>3, <1>4
  <2>2. CASE i # 1 /\ j # 1
    <3>1. i - 1 = j - 1
      BY <2>2, <1>4 DEF TableInv
    <3> QED BY <3>1, <1>2, <1>4
  <2> QED BY <2>1, <2>2
<1> QED BY <1>8, <1>9, <1>11, <1>12, <1>13 DEF TableInv

\* do_wait's end: the zombie leaves the table, and its pid the list.
LEMMA ReapStep ==
    ASSUME TableInv, NEW c \in Proc \ {Idle}, Frees(c), state[c] = "ZOMBIE", Reap(c), PidInv'
    PROVE  TableInv'
<1>1. PICK k \in DOMAIN pids : pids[k] = pid[c] /\ RemoveLinks(k)
  BY DEF Reap
<1>2. /\ pids' = [i \in 1..(Len(pids) - 1) |-> IF i < k THEN pids[i] ELSE pids[i + 1]]
      /\ state' = [state EXCEPT ![c] = "FREE"]
      /\ pid' = [pid EXCEPT ![c] = 0]
  BY <1>1 DEF RemoveLinks, Frees, Reap
<1>3. DOMAIN pids = 1..Len(pids) /\ Len(pids) \in Nat
  BY ListFacts DEF TableInv, PidInv
<1>4. Exists(c) /\ ~Exists(c)'
  BY <1>2 DEF Exists, TableInv
<1>5. \A x \in Proc \ {c} : Exists(x)' = Exists(x) /\ pid'[x] = pid[x]
  BY <1>2 DEF Exists, TableInv
<1> DEFINE old(i) == IF i < k THEN i ELSE i + 1
<1>6. \A i \in DOMAIN pids' : old(i) \in DOMAIN pids \ {k} /\ pids'[i] = pids[old(i)]
  BY <1>1, <1>2, <1>3
<1>7. \A j \in DOMAIN pids \ {k} : \E i \in DOMAIN pids' : pids'[i] = pids[j]
  <2> SUFFICES ASSUME NEW j \in DOMAIN pids \ {k}
               PROVE  \E i \in DOMAIN pids' : pids'[i] = pids[j]
    OBVIOUS
  <2>1. CASE j < k
    <3>1. j \in DOMAIN pids' /\ pids'[j] = pids[j]
      BY <2>1, <1>1, <1>2, <1>3
    <3> QED BY <3>1
  <2>2. CASE j > k
    <3>1. j - 1 \in DOMAIN pids' /\ pids'[j - 1] = pids[j]
      BY <2>2, <1>1, <1>2, <1>3
    <3> QED BY <3>1
  <2> QED BY <2>1, <2>2, <1>1, <1>3
<1>8. state' \in [Proc -> {"FREE", "LIVE", "ZOMBIE"}] /\ pid' \in [Proc -> Nat]
  BY <1>2 DEF TableInv
<1>9. \A x \in Proc \ {Idle} : Exists(x)' => \E i \in DOMAIN pids' : pids'[i] = pid'[x]
  <2> SUFFICES ASSUME NEW x \in Proc \ {Idle}, Exists(x)'
               PROVE  \E i \in DOMAIN pids' : pids'[i] = pid'[x]
    OBVIOUS
  <2>1. x # c /\ Exists(x) /\ pid'[x] = pid[x]
    BY <1>4, <1>5
  <2>2. PICK j \in DOMAIN pids : pids[j] = pid[x]
    BY <2>1 DEF TableInv
  <2>3. j # k
    BY <2>1, <2>2, <1>1, <1>4 DEF TableInv
  <2> QED BY <2>1, <2>2, <2>3, <1>7
<1>10. \A x, y \in Proc \ {Idle} : Exists(x)' /\ Exists(y)' /\ pid'[x] = pid'[y] => x = y
  BY <1>4, <1>5 DEF TableInv
<1>11. \A i \in DOMAIN pids' : \E x \in Proc \ {Idle} : Exists(x)' /\ pid'[x] = pids'[i]
  <2> SUFFICES ASSUME NEW i \in DOMAIN pids'
               PROVE  \E x \in Proc \ {Idle} : Exists(x)' /\ pid'[x] = pids'[i]
    OBVIOUS
  <2>1. old(i) \in DOMAIN pids /\ old(i) # k /\ pids'[i] = pids[old(i)]
    BY <1>6
  <2> HIDE DEF old
  <2>2. PICK x \in Proc \ {Idle} : Exists(x) /\ pid[x] = pids[old(i)]
    BY <2>1 DEF TableInv
  <2>3. x # c
    BY <2>1, <2>2, <1>1 DEF TableInv
  <2> QED BY <2>1, <2>2, <2>3, <1>5
<1>12. \A i, j \in DOMAIN pids' : pids'[i] = pids'[j] => i = j
  <2> SUFFICES ASSUME NEW i \in DOMAIN pids', NEW j \in DOMAIN pids', pids'[i] = pids'[j]
               PROVE  i = j
    OBVIOUS
  <2>1. old(i) = old(j)
    <3> HIDE DEF old
    <3> QED BY <1>6 DEF TableInv
  <2>2. i \in Nat /\ j \in Nat /\ k \in Nat
    BY <1>1, <1>2, <1>3
  <2> QED BY <2>1, <2>2
<1> QED BY <1>8, <1>9, <1>10, <1>11, <1>12 DEF TableInv

\* The steps that change neither the list nor who exists.
LEMMA QuietStep ==
    ASSUME TableInv, PidInv', UNCHANGED <<pids, pid>>,
           state' \in [Proc -> {"FREE", "LIVE", "ZOMBIE"}],
           \A x \in Proc : Exists(x)' = Exists(x)
    PROVE  TableInv'
BY DEF TableInv

\* The invariant holds in every state of the table.
THEOREM TableInvariant == TableSpec => []TableInv
<1>1. TableInit => TableInv
  <2> SUFFICES ASSUME TableInit PROVE TableInv
    OBVIOUS
  <2>1. pids = <<1>> /\ last_pid = 1 /\ next_safe = MAX_PID /\ le = 1 /\ op = "none"
    BY DEF TableInit
  <2>2. PidInv
    BY <2>1, PidAssumption DEF PidInv, TypeOK, SafeRange
  <2>3. /\ state = [x \in Proc |-> IF x \in Users THEN "FREE" ELSE "LIVE"]
        /\ pid = [x \in Proc |-> IF x = InitP THEN 1 ELSE 0]
    BY DEF TableInit, FamilyInit
  <2>4. \A x \in Proc \ {Idle} : Exists(x) <=> x = InitP
    BY <2>3, FamilyAssumption DEF Exists, Proc
  <2>5. InitP \in Proc \ {Idle}
    BY FamilyAssumption DEF Proc
  <2>6. pid[InitP] = 1 /\ DOMAIN pids = {1} /\ pids[1] = 1
    BY <2>1, <2>3, <2>5
  <2> QED BY <2>2, <2>3, <2>4, <2>5, <2>6 DEF TableInv
<1>2. TableInv /\ [TableNext]_tableVars => TableInv'
  <2> SUFFICES ASSUME TableInv, [TableNext]_tableVars PROVE TableInv'
    OBVIOUS
  <2>1. PidInv'
    <3>1. [Next]_vars
      BY TableStepsPid DEF tableVars
    <3> QED BY <3>1, PidStep DEF TableInv
  <2>2. CASE ForkBegins \/ ForkScans \/ UNCHANGED tableVars
    <3>1. UNCHANGED <<pids, pid, state>>
      BY <2>2 DEF ForkBegins, ForkScans, GetPid, ScanTaken, ScanOther, ScanEnds,
                  tableVars, vars, familyVars
    <3> QED BY <2>1, <3>1, QuietStep DEF TableInv, Exists
  <2>3. CASE FamilyOnly
    <3>1. UNCHANGED <<pids, pid>>
      BY <2>3 DEF FamilyOnly, vars
    <3>2. UNCHANGED state \/ \E p \in Proc : ExitBegins(p)
      BY <2>3 DEF FamilyOnly, FamilyLoop, ExitMoves, ExitEnds, ScanPasses, KidScanEnds, WaitBegins
    <3>3. /\ state' \in [Proc -> {"FREE", "LIVE", "ZOMBIE"}]
          /\ \A x \in Proc : Exists(x)' = Exists(x)
      BY <3>2 DEF ExitBegins, TableInv, Exists
    <3> QED BY <2>1, <3>1, <3>3, QuietStep
  <2>4. CASE \E p \in Proc, c \in Users : ForkEnds(p, c)
    BY <2>1, <2>4, ForkEndsStep
  <2>5. CASE WaitAny
    <3>1. PICK c \in Users : ScanFinds /\ Reap(c) /\ proc = c
      BY <2>5 DEF WaitAny
    <3>2. c \in Proc \ {Idle} /\ Frees(c) /\ state[c] = "ZOMBIE"
      BY <3>1, FamilyAssumption DEF ScanFinds, Proc
    <3> QED BY <2>1, <3>1, <3>2, ReapStep
  <2>6. CASE \E p \in Proc, n \in 1..(MAX_PID - 1) : WaitFor(p, n)
    <3>1. PICK c \in Proc \ {Idle} : Frees(c) /\ state[c] = "ZOMBIE" /\ Reap(c)
      BY <2>6 DEF WaitFor, WaitForPid, find_proc
    <3> QED BY <2>1, <3>1, ReapStep
  <2> QED BY <2>2, <2>3, <2>4, <2>5, <2>6 DEF TableNext
<1> QED BY <1>1, <1>2, PTL DEF TableSpec

\* A pid names one process from fork to do_wait, and proc_list is exact, for any
\* number of processes and any history of forks, exits and waits.
THEOREM PidNamesOneCorrect == TableSpec => []PidNamesOne
<1>1. TableInv => PidNamesOne
  <2> SUFFICES ASSUME TableInv PROVE PidNamesOne
    OBVIOUS
  <2>1. \A x \in Proc \ {Idle} : Exists(x) => find_proc(pid[x]) = {x} /\ InUse(pid[x])
    BY DEF TableInv, find_proc, InUse
  <2>2. \A i \in DOMAIN pids : find_proc(pids[i]) # {}
    BY DEF TableInv, find_proc
  <2> QED BY <2>1, <2>2 DEF TableInv, PidNamesOne
<1> QED BY <1>1, TableInvariant, PTL

\* In the table too get_pid returns a pid nobody has, and gives out only free ones
\* without a scan.
THEOREM TablePidsCorrect == TableSpec => [](PidUnique /\ SafeRange)
<1>1. TableInv => PidUnique /\ SafeRange
  BY ScanFindsFree DEF TableInv, PidInv
<1> QED BY <1>1, TableInvariant, PTL

-----------------------------------------------------------------------------
(* The family pointers.  What a list of children is cannot be said pointer by   *)
(* pointer alone: the local conditions Heads, Olders and Youngers also hold of  *)
(* a ring beside the list, which NoRing excludes.                               *)

\* do_exit has moved the head of who's list away, and c, the new one, still has the
\* yptr of a sibling that is init's by now.
Stale(c) == walk = "exit" /\ parent[c] = who /\ cptr[who] = c

FamilyType ==
    /\ state \in [Proc -> {"FREE", "LIVE", "ZOMBIE"}]
    /\ parent \in [Proc -> Proc \cup {Null}]
    /\ cptr \in [Proc -> Proc \cup {Null}]
    /\ optr \in [Proc -> Proc \cup {Null}]
    /\ yptr \in [Proc -> Proc \cup {Null}]
    /\ walk \in {"none", "exit", "scan"} /\ who \in Proc /\ proc \in Proc \cup {Null}
    /\ state[Idle] = "LIVE" /\ state[InitP] = "LIVE"
    /\ walk = "exit" => who \in Users /\ state[who] = "ZOMBIE"
    /\ walk = "scan" /\ proc # Null => Exists(proc) /\ parent[proc] = who

\* A slot without a process has no pointers, and a process that has left do_exit no
\* children.
Cleared ==
    /\ \A x \in Proc : ~Exists(x) =>
         parent[x] = Null /\ cptr[x] = Null /\ optr[x] = Null /\ yptr[x] = Null
    /\ \A x \in Proc : state[x] = "ZOMBIE" /\ cptr[x] # Null => walk = "exit" /\ who = x

Parents ==
    /\ parent[Idle] = Null /\ optr[Idle] = Null /\ yptr[Idle] = Null /\ parent[InitP] = Idle
    /\ \A x \in Proc \ {Idle} : Exists(x) =>
         parent[x] \in Proc \ {x} /\ Exists(parent[x])

\* cptr, optr and yptr agree: a list that starts at cptr, optr one way, yptr the other.
Heads ==
    \A p \in Proc : cptr[p] # Null => Exists(cptr[p]) /\ parent[cptr[p]] = p

Olders ==
    \A x \in Proc : optr[x] # Null =>
        /\ Exists(optr[x]) /\ parent[optr[x]] = parent[x] /\ yptr[optr[x]] = x
        /\ \A p \in Proc : cptr[p] # optr[x]

Youngers ==
    \A x \in Proc : Exists(x) /\ x # Idle =>
        /\ yptr[x] # Null => Exists(yptr[x]) /\ (Stale(x) \/ optr[yptr[x]] = x)
        /\ yptr[x] = Null => cptr[parent[x]] = x

\* No cycle: some process of each set is younger than its siblings there.
NoRing ==
    \A S \in SUBSET Proc : S # {} => \E c \in S : \A x \in S : optr[x] # c

\* The inductive invariant of the pointers.
LinksInv ==
    /\ FamilyType /\ Cleared /\ Parents
    /\ Heads /\ Olders /\ Youngers /\ NoRing

\* What the provers need of the constants.
LEMMA SlotFacts ==
    /\ Idle \in Proc /\ InitP \in Proc /\ Idle # InitP /\ Null \notin Proc
    /\ \A u \in Users : u \in Proc /\ u # Idle /\ u # InitP
BY FamilyAssumption DEF Proc

\* An empty list means no children, also in the middle of do_exit.
LEMMA NoKids ==
    ASSUME LinksInv, NEW p \in Proc, cptr[p] = Null, NEW k \in Proc, Exists(k)
    PROVE  parent[k] # p
<1> DEFINE S == {x \in Proc : Exists(x) /\ parent[x] = p}
<1> SUFFICES ASSUME parent[k] = p PROVE FALSE
  OBVIOUS
<1>1. PICK e \in S : \A x \in S : optr[x] # e
  <2>1. S \in SUBSET Proc /\ S # {}
    OBVIOUS
  <2> QED BY <2>1 DEF LinksInv, NoRing
<1>2. e \in Proc /\ Exists(e) /\ parent[e] = p /\ e # Idle
  BY <1>1, SlotFacts DEF LinksInv, Parents
<1>3. yptr[e] # Null
  BY <1>2, SlotFacts DEF LinksInv, Youngers
<1>4. ~Stale(e)
  BY <1>2, SlotFacts DEF Stale
<1>5. yptr[e] \in Proc /\ Exists(yptr[e]) /\ optr[yptr[e]] = e
  BY <1>2, <1>3, <1>4 DEF LinksInv, Youngers, FamilyType
<1>6. parent[yptr[e]] = p
  BY <1>2, <1>5, SlotFacts DEF LinksInv, Olders
<1> QED BY <1>1, <1>5, <1>6

\* do_fork: set_links puts the child at the head of its parent's list.
LEMMA ForkLinks ==
    ASSUME LinksInv, NEW p \in Proc, NEW c \in Users, Fork(p, c)
    PROVE  LinksInv'
<1> USE SlotFacts
<1>1. /\ c \in Proc /\ c # Idle /\ c # InitP /\ p # Idle /\ p # c
      /\ walk = "none" /\ state[p] = "LIVE" /\ state[c] = "FREE"
      /\ UNCHANGED <<walk, who, proc>>
  BY DEF Fork
<1>2. FamilyType /\ Cleared /\ Parents /\ Heads /\ Olders /\ Youngers /\ NoRing
  BY DEF LinksInv
<1>3. /\ state' = [state EXCEPT ![c] = "LIVE"]
      /\ parent' = [parent EXCEPT ![c] = p]
      /\ optr' = [optr EXCEPT ![c] = cptr[p]]
      /\ yptr' = [x \in Proc |-> IF x = c THEN Null ELSE IF x = cptr[p] THEN c ELSE yptr[x]]
      /\ cptr' = [cptr EXCEPT ![p] = c]
  BY DEF Fork, set_links
<1>4. /\ state'[c] = "LIVE" /\ \A x \in Proc \ {c} : state'[x] = state[x]
      /\ parent'[c] = p /\ \A x \in Proc \ {c} : parent'[x] = parent[x]
      /\ optr'[c] = cptr[p] /\ \A x \in Proc \ {c} : optr'[x] = optr[x]
      /\ cptr'[p] = c /\ \A x \in Proc \ {p} : cptr'[x] = cptr[x]
      /\ yptr'[c] = Null
      /\ \A x \in Proc \ {c} : yptr'[x] = IF x = cptr[p] THEN c ELSE yptr[x]
  BY <1>1, <1>2, <1>3 DEF FamilyType
<1>5. parent[c] = Null /\ cptr[c] = Null /\ optr[c] = Null /\ yptr[c] = Null
  BY <1>1, <1>2 DEF Cleared, Exists
<1>6. \A x \in Proc : cptr[x] # c /\ optr[x] # c
  BY <1>1, <1>2 DEF Heads, Olders, Exists
<1>7. Exists(c)' /\ ~Exists(c) /\ \A x \in Proc \ {c} : Exists(x)' = Exists(x)
  BY <1>1, <1>4 DEF Exists
<1>8. FamilyType'
  BY <1>1, <1>2, <1>3 DEF FamilyType
<1>9. Cleared'
  <2>1. cptr[p] \in Proc => Exists(cptr[p])
    BY <1>2 DEF Heads
  <2>2. ASSUME NEW x \in Proc, ~Exists(x)'
        PROVE  parent'[x] = Null /\ cptr'[x] = Null /\ optr'[x] = Null /\ yptr'[x] = Null
    BY <1>1, <1>2, <1>4, <1>7, <2>1, <2>2 DEF Cleared, Exists
  <2>3. \A x \in Proc : state'[x] = "ZOMBIE" /\ cptr'[x] # Null => walk' = "exit" /\ who' = x
    BY <1>1, <1>2, <1>4 DEF Cleared
  <2> QED BY <2>2, <2>3 DEF Cleared
<1>10. Parents'
  <2>1. cptr[p] # Idle
    BY <1>2 DEF Heads, Parents
  <2> QED BY <1>1, <1>2, <1>4, <1>7, <2>1 DEF Parents, Exists
<1>11. Heads'
  BY <1>1, <1>2, <1>4, <1>5, <1>6, <1>7 DEF Heads, FamilyType, Exists
<1>12. Olders'
  <2> SUFFICES ASSUME NEW x \in Proc, optr'[x] # Null
               PROVE  /\ Exists(optr[x])' /\ parent'[optr'[x]] = parent'[x]
                      /\ yptr'[optr'[x]] = x
                      /\ \A q \in Proc : cptr'[q] # optr'[x]
    BY DEF Olders
  <2>1. CASE x = c
    BY <2>1, <1>1, <1>2, <1>4, <1>6, <1>7 DEF Heads, FamilyType, Exists
  <2>2. CASE x # c
    <3>1. optr'[x] = optr[x] /\ optr[x] \in Proc \ {c}
      BY <2>2, <1>2, <1>4, <1>6 DEF FamilyType
    <3> QED BY <2>2, <3>1, <1>2, <1>4, <1>6, <1>7 DEF Olders, Exists
  <2> QED BY <2>1, <2>2
<1>13. Youngers'
  <2> SUFFICES ASSUME NEW x \in Proc, Exists(x)', x # Idle
               PROVE  /\ yptr'[x] # Null => Exists(yptr[x])' /\ optr'[yptr'[x]] = x
                      /\ yptr'[x] = Null => cptr'[parent'[x]] = x
    BY DEF Youngers
  <2>1. CASE x = c
    BY <2>1, <1>4
  <2>2. CASE x # c /\ x = cptr[p]
    BY <2>2, <1>1, <1>4, <1>7 DEF Exists
  <2>3. CASE x # c /\ x # cptr[p]
    <3>1. yptr'[x] = yptr[x] /\ Exists(x) /\ parent'[x] = parent[x]
      BY <2>3, <1>4, <1>7
    <3>2. CASE yptr[x] # Null
      <4>1. Exists(yptr[x]) /\ optr[yptr[x]] = x /\ yptr[x] \in Proc
        BY <3>1, <3>2, <1>1, <1>2 DEF Youngers, Stale, FamilyType
      <4> QED BY <3>1, <3>2, <4>1, <1>4, <1>7 DEF Exists
    <3>3. CASE yptr[x] = Null
      <4>1. cptr[parent[x]] = x /\ parent[x] \in Proc
        BY <3>1, <3>3, <1>2 DEF Youngers, Parents
      <4> QED BY <2>3, <3>1, <3>3, <4>1, <1>4
    <3> QED BY <3>2, <3>3
  <2> QED BY <2>1, <2>2, <2>3
<1>14. NoRing'
  <2> SUFFICES ASSUME NEW S \in SUBSET Proc, S # {}
               PROVE  \E e \in S : \A x \in S : optr'[x] # e
    BY DEF NoRing
  <2>1. \A x \in Proc : optr'[x] # c
    BY <1>4, <1>6
  <2>2. CASE c \in S
    BY <2>1, <2>2
  <2>3. CASE c \notin S
    BY <2>3, <1>2, <1>4 DEF NoRing
  <2> QED BY <2>2, <2>3
<1> QED BY <1>8, <1>9, <1>10, <1>11, <1>12, <1>13, <1>14 DEF LinksInv

\* The head of who's list, which do_exit moves: not init, and nobody's older sibling.
LEMMA MovedChild ==
    ASSUME LinksInv, walk = "exit", cptr[who] # Null, NEW c, c = cptr[who]
    PROVE  /\ who \in Users /\ who # Idle /\ who # InitP /\ state[who] = "ZOMBIE"
           /\ c \in Proc /\ c # Idle /\ c # InitP /\ c # who
           /\ Exists(c) /\ parent[c] = who
           /\ \A x \in Proc : optr[x] # c
           /\ \A p \in Proc \ {who} : cptr[p] # c
           /\ optr[c] # Null => /\ optr[c] \in Proc \ {c} /\ Exists(optr[c])
                                /\ parent[optr[c]] = who /\ yptr[optr[c]] = c
<1> USE SlotFacts
<1>1. who \in Users /\ state[who] = "ZOMBIE" /\ who \in Proc /\ c \in Proc
  BY DEF LinksInv, FamilyType
<1>2. Exists(c) /\ parent[c] = who
  BY <1>1 DEF LinksInv, Heads
<1>3. c # Idle /\ c # InitP /\ c # who
  BY <1>1, <1>2 DEF LinksInv, Parents
<1>4. \A x \in Proc : optr[x] # c
  BY <1>1 DEF LinksInv, Olders
<1>5. \A p \in Proc \ {who} : cptr[p] # c
  BY <1>1, <1>2 DEF LinksInv, Heads
<1>6. optr[c] # Null => /\ optr[c] \in Proc /\ Exists(optr[c])
                        /\ parent[optr[c]] = who /\ yptr[optr[c]] = c
  BY <1>1, <1>2 DEF LinksInv, Olders, FamilyType
<1> QED BY <1>1, <1>2, <1>3, <1>4, <1>5, <1>6

\* A round of do_exit's loop: the child leaves who's list for the head of init's.
LEMMA MoveLinks ==
    ASSUME LinksInv, ExitMoves
    PROVE  LinksInv'
<1> USE SlotFacts
<1> DEFINE c == cptr[who]
           h == cptr[InitP]
<1>1. /\ walk = "exit" /\ c # Null
      /\ UNCHANGED <<state, walk, who, proc>>
      /\ cptr' = [cptr EXCEPT ![who] = optr[c], ![InitP] = c]
      /\ yptr' = [x \in Proc |-> IF x = c THEN Null ELSE IF x = h THEN c ELSE yptr[x]]
      /\ optr' = [optr EXCEPT ![c] = h]
      /\ parent' = [parent EXCEPT ![c] = InitP]
  BY DEF ExitMoves, MoveToInit, YptrToInit
<1>2. FamilyType /\ Cleared /\ Parents /\ Heads /\ Olders /\ Youngers /\ NoRing
  BY DEF LinksInv
<1>3. /\ who \in Users /\ who \in Proc /\ who # Idle /\ who # InitP /\ state[who] = "ZOMBIE"
      /\ c \in Proc /\ c # Idle /\ c # InitP /\ c # who /\ Exists(c) /\ parent[c] = who
      /\ \A x \in Proc : optr[x] # c
      /\ \A p \in Proc \ {who} : cptr[p] # c
      /\ optr[c] # Null => /\ optr[c] \in Proc \ {c} /\ Exists(optr[c])
                           /\ parent[optr[c]] = who /\ yptr[optr[c]] = c
  BY <1>1, MovedChild
<1>4. h # Null => h \in Proc /\ h # c /\ Exists(h) /\ parent[h] = InitP /\ h # Idle
  BY <1>2, <1>3 DEF Heads, FamilyType, Parents
<1>5. /\ parent'[c] = InitP /\ \A x \in Proc \ {c} : parent'[x] = parent[x]
      /\ optr'[c] = h /\ \A x \in Proc \ {c} : optr'[x] = optr[x]
      /\ cptr'[who] = optr[c] /\ cptr'[InitP] = c
      /\ \A x \in Proc \ {who, InitP} : cptr'[x] = cptr[x]
      /\ yptr'[c] = Null
      /\ \A x \in Proc \ {c} : yptr'[x] = IF x = h THEN c ELSE yptr[x]
      /\ \A x \in Proc : Exists(x)' = Exists(x)
  BY <1>1, <1>2, <1>3 DEF FamilyType, Exists
<1>6. FamilyType'
  BY <1>1, <1>2, <1>3, <1>4 DEF FamilyType
<1> HIDE DEF c, h
<1>7. Cleared'
  <2>1. ASSUME NEW x \in Proc, ~Exists(x)'
        PROVE  parent'[x] = Null /\ cptr'[x] = Null /\ optr'[x] = Null /\ yptr'[x] = Null
    <3>1. ~Exists(x) /\ x # c /\ x # h /\ x # InitP /\ x # who
      BY <2>1, <1>2, <1>3, <1>4, <1>5 DEF FamilyType, Exists
    <3> QED BY <3>1, <1>2, <1>5 DEF Cleared
  <2>2. \A x \in Proc : state'[x] = "ZOMBIE" /\ cptr'[x] # Null => walk' = "exit" /\ who' = x
    BY <1>1, <1>2, <1>3, <1>5 DEF Cleared, FamilyType
  <2> QED BY <2>1, <2>2 DEF Cleared
<1>8. Parents'
  BY <1>1, <1>2, <1>3, <1>4, <1>5 DEF Parents, FamilyType, Exists
<1>9. Heads'
  <2> SUFFICES ASSUME NEW p \in Proc, cptr'[p] # Null
               PROVE  Exists(cptr[p])' /\ parent'[cptr'[p]] = p
    BY DEF Heads
  <2>1. CASE p = who
    BY <2>1, <1>3, <1>5 DEF Exists
  <2>2. CASE p = InitP
    BY <2>2, <1>3, <1>5 DEF Exists
  <2>3. CASE p # who /\ p # InitP
    <3>1. cptr'[p] = cptr[p] /\ cptr[p] \in Proc \ {c}
      BY <2>3, <1>2, <1>3, <1>5 DEF FamilyType
    <3> QED BY <3>1, <1>2, <1>5 DEF Heads, Exists
  <2> QED BY <2>1, <2>2, <2>3
<1>10. Olders'
  <2> SUFFICES ASSUME NEW x \in Proc, optr'[x] # Null
               PROVE  /\ Exists(optr[x])' /\ parent'[optr'[x]] = parent'[x]
                      /\ yptr'[optr'[x]] = x
                      /\ \A q \in Proc : cptr'[q] # optr'[x]
    BY DEF Olders
  <2>1. CASE x = c
    <3>1. optr'[x] = h /\ h # Null /\ parent'[x] = InitP
      BY <2>1, <1>5
    <3>2. \A q \in Proc : cptr'[q] # h
      BY <3>1, <1>2, <1>3, <1>4, <1>5 DEF Heads
    <3> QED BY <2>1, <3>1, <3>2, <1>4, <1>5 DEF Exists
  <2>2. CASE x # c
    <3>1. optr'[x] = optr[x] /\ optr[x] \in Proc \ {c} /\ parent'[x] = parent[x]
      BY <2>2, <1>2, <1>3, <1>5 DEF FamilyType
    <3>2. /\ Exists(optr[x]) /\ parent[optr[x]] = parent[x] /\ yptr[optr[x]] = x
          /\ \A q \in Proc : cptr[q] # optr[x]
      BY <3>1, <1>2 DEF Olders
    <3>3. optr[x] # h
      BY <3>2 DEF h
    <3>4. \A q \in Proc : cptr'[q] # optr[x]
      BY <2>2, <3>1, <3>2, <1>3, <1>5
    <3> QED BY <3>1, <3>2, <3>3, <3>4, <1>5 DEF Exists
  <2> QED BY <2>1, <2>2
<1>11. Youngers'
  <2> SUFFICES ASSUME NEW x \in Proc, Exists(x)', x # Idle
               PROVE  /\ yptr'[x] # Null =>
                           /\ Exists(yptr[x])'
                           /\ (parent'[x] = who /\ cptr'[who] = x) \/ optr'[yptr'[x]] = x
                      /\ yptr'[x] = Null => cptr'[parent'[x]] = x
    BY <1>1 DEF Youngers, Stale
  <2>1. CASE x = c
    BY <2>1, <1>5
  <2>2. CASE x # c /\ x = h
    BY <2>2, <1>3, <1>5 DEF Exists
  <2>3. CASE x # c /\ x # h
    <3>1. yptr'[x] = yptr[x] /\ Exists(x) /\ parent'[x] = parent[x] /\ ~Stale(x)
      BY <2>3, <1>5 DEF Stale, c
    <3>2. CASE yptr[x] # Null
      <4>1. Exists(yptr[x]) /\ optr[yptr[x]] = x /\ yptr[x] \in Proc
        BY <3>1, <3>2, <1>2 DEF Youngers, FamilyType
      <4>2. CASE yptr[x] = c
        <5>1. x = optr[c]
          BY <4>1, <4>2
        <5>2. parent[x] = who
          BY <5>1, <1>3
        <5> QED BY <3>1, <4>1, <4>2, <5>1, <5>2, <1>3, <1>5 DEF Exists
      <4>3. CASE yptr[x] # c
        BY <3>1, <3>2, <4>1, <4>3, <1>5 DEF Exists
      <4> QED BY <4>2, <4>3
    <3>3. CASE yptr[x] = Null
      <4>1. cptr[parent[x]] = x /\ parent[x] \in Proc
        BY <3>1, <3>3, <1>2 DEF Youngers, Parents
      <4>2. parent[x] # who /\ parent[x] # InitP
        BY <2>3, <4>1 DEF c, h
      <4> QED BY <3>1, <3>3, <4>1, <4>2, <1>5
    <3> QED BY <3>2, <3>3
  <2> QED BY <2>1, <2>2, <2>3
<1>12. NoRing'
  <2> SUFFICES ASSUME NEW S \in SUBSET Proc, S # {}
               PROVE  \E e \in S : \A x \in S : optr'[x] # e
    BY DEF NoRing
  <2>1. \A x \in Proc : optr'[x] # c
    BY <1>3, <1>4, <1>5
  <2>2. CASE c \in S
    BY <2>1, <2>2
  <2>3. CASE c \notin S
    BY <2>3, <1>2, <1>5 DEF NoRing
  <2> QED BY <2>2, <2>3
<1> QED BY <1>6, <1>7, <1>8, <1>9, <1>10, <1>11, <1>12 DEF LinksInv

\* do_wait frees a zombie: its neighbours close the gap.
LEMMA FreesLinks ==
    ASSUME LinksInv, NEW c \in Proc, walk # "exit", state[c] = "ZOMBIE", Frees(c)
    PROVE  LinksInv'
<1> USE SlotFacts
<1> DEFINE p == parent[c]
           o == optr[c]
           y == yptr[c]
<1>1. /\ state' = [state EXCEPT ![c] = "FREE"]
      /\ optr' = [x \in Proc |-> IF x = c THEN Null ELSE IF x = y THEN o ELSE optr[x]]
      /\ yptr' = [x \in Proc |-> IF x = c THEN Null ELSE IF x = o THEN y ELSE yptr[x]]
      /\ cptr' = [x \in Proc |-> IF x = p /\ y = Null THEN o ELSE cptr[x]]
      /\ parent' = [parent EXCEPT ![c] = Null]
      /\ walk' = "none" /\ who' = Idle /\ proc' = Null
  BY DEF Frees, remove_links, AfterRemoval
<1>2. FamilyType /\ Cleared /\ Parents /\ Heads /\ Olders /\ Youngers /\ NoRing
  BY DEF LinksInv
<1>3. Exists(c) /\ c # Idle /\ c # InitP /\ cptr[c] = Null /\ ~Stale(c)
  BY <1>2 DEF Exists, FamilyType, Cleared, Stale
<1>4. p \in Proc \ {c} /\ Exists(p)
  BY <1>2, <1>3 DEF Parents
<1>5. y # Null => /\ y \in Proc /\ Exists(y) /\ optr[y] = c /\ parent[y] = p
                  /\ \A q \in Proc : cptr[q] # c
  BY <1>2, <1>3 DEF Youngers, Olders, FamilyType
<1>6. y = Null => cptr[p] = c
  BY <1>2, <1>3 DEF Youngers
<1>7. o # Null => /\ o \in Proc /\ Exists(o) /\ parent[o] = p /\ yptr[o] = c
                  /\ \A q \in Proc : cptr[q] # o
  BY <1>2, <1>3 DEF Olders, FamilyType
<1>8. \A x \in Proc : optr[x] = c => x = y
  BY <1>2, <1>3 DEF Olders
<1>9. \A x \in Proc : yptr[x] = c => x = o
  BY <1>2, <1>3 DEF Youngers, Cleared, Parents, Stale
<1>10. \A x \in Proc : Exists(x) => parent[x] # c
  BY <1>3, NoKids
<1>11. o # c /\ y # c
  <2>1. {c} \in SUBSET Proc /\ {c} # {}
    OBVIOUS
  <2>2. \E e \in {c} : \A x \in {c} : optr[x] # e
    BY <2>1, <1>2 DEF NoRing
  <2> QED BY <2>2, <1>5
<1>12. /\ ~Exists(c)' /\ \A x \in Proc \ {c} : Exists(x)' = Exists(x) /\ state'[x] = state[x]
       /\ parent'[c] = Null /\ \A x \in Proc \ {c} : parent'[x] = parent[x]
       /\ optr'[c] = Null
       /\ \A x \in Proc \ {c} : optr'[x] = IF x = y THEN o ELSE optr[x]
       /\ yptr'[c] = Null
       /\ \A x \in Proc \ {c} : yptr'[x] = IF x = o THEN y ELSE yptr[x]
       /\ \A x \in Proc : cptr'[x] = IF x = p /\ y = Null THEN o ELSE cptr[x]
  BY <1>1, <1>2, <1>3 DEF FamilyType, Exists
<1>13. FamilyType'
  BY <1>1, <1>2, <1>3 DEF FamilyType
<1> HIDE DEF p, o, y
<1>14. Cleared'
  <2>1. ASSUME NEW x \in Proc, ~Exists(x)'
        PROVE  parent'[x] = Null /\ cptr'[x] = Null /\ optr'[x] = Null /\ yptr'[x] = Null
    <3>1. CASE x = c
      BY <3>1, <1>3, <1>4, <1>12
    <3>2. CASE x # c
      <4>1. ~Exists(x) /\ x # p /\ x # o /\ x # y
        BY <2>1, <3>2, <1>4, <1>5, <1>7, <1>12
      <4> QED BY <3>2, <4>1, <1>2, <1>12 DEF Cleared
    <3> QED BY <3>1, <3>2
  <2>2. ASSUME NEW x \in Proc, state'[x] = "ZOMBIE"
        PROVE  cptr'[x] = Null
    <3>1. x # c /\ state[x] = "ZOMBIE"
      BY <2>2, <1>12 DEF Exists
    <3>2. cptr[x] = Null
      BY <3>1, <1>2 DEF Cleared
    <3> QED BY <3>1, <3>2, <1>6, <1>12
  <2> QED BY <2>1, <2>2 DEF Cleared
<1>15. Parents'
  <2>1. Idle # o /\ Idle # y
    BY <1>2, <1>4, <1>5, <1>7 DEF Parents
  <2> QED BY <2>1, <1>2, <1>3, <1>10, <1>12 DEF Parents, Exists
<1>16. Heads'
  <2> SUFFICES ASSUME NEW q \in Proc, cptr'[q] # Null
               PROVE  Exists(cptr[q])' /\ parent'[cptr'[q]] = q
    BY DEF Heads
  <2>1. CASE q = p /\ y = Null
    BY <2>1, <1>7, <1>11, <1>12 DEF Exists
  <2>2. CASE ~(q = p /\ y = Null)
    <3>1. cptr'[q] = cptr[q] /\ cptr[q] \in Proc
      BY <2>2, <1>2, <1>12 DEF FamilyType
    <3>2. Exists(cptr[q]) /\ parent[cptr[q]] = q
      BY <3>1, <1>2 DEF Heads
    <3>3. cptr[q] # c
      BY <2>2, <3>2, <1>5 DEF p
    <3> QED BY <3>1, <3>2, <3>3, <1>12 DEF Exists
  <2> QED BY <2>1, <2>2
<1>17. Olders'
  <2> SUFFICES ASSUME NEW x \in Proc, optr'[x] # Null
               PROVE  /\ Exists(optr[x])' /\ parent'[optr'[x]] = parent'[x]
                      /\ yptr'[optr'[x]] = x
                      /\ \A q \in Proc : cptr'[q] # optr'[x]
    BY DEF Olders
  <2>0. x # c
    BY <1>12
  <2>1. CASE x = y
    <3>1. optr'[x] = o /\ o # Null /\ y # Null /\ parent'[x] = p
      BY <2>0, <2>1, <1>5, <1>12
    <3>2. \A q \in Proc : cptr'[q] # o
      BY <3>1, <1>7, <1>12
    <3> QED BY <2>1, <3>1, <3>2, <1>7, <1>11, <1>12 DEF Exists
  <2>2. CASE x # y
    <3>1. optr'[x] = optr[x] /\ optr[x] \in Proc \ {c} /\ parent'[x] = parent[x]
      BY <2>0, <2>2, <1>2, <1>8, <1>12 DEF FamilyType
    <3>2. /\ Exists(optr[x]) /\ parent[optr[x]] = parent[x] /\ yptr[optr[x]] = x
          /\ \A q \in Proc : cptr[q] # optr[x]
      BY <3>1, <1>2 DEF Olders
    <3>3. optr[x] # o
      BY <2>0, <3>1, <3>2, <1>7
    <3>4. \A q \in Proc : cptr'[q] # optr[x]
      BY <3>2, <3>3, <1>12
    <3> QED BY <3>1, <3>2, <3>3, <3>4, <1>12 DEF Exists
  <2> QED BY <2>1, <2>2
<1>18. Youngers'
  <2> SUFFICES ASSUME NEW x \in Proc, Exists(x)', x # Idle
               PROVE  /\ yptr'[x] # Null => Exists(yptr[x])' /\ optr'[yptr'[x]] = x
                      /\ yptr'[x] = Null => cptr'[parent'[x]] = x
    BY DEF Youngers
  <2>0. x # c /\ Exists(x) /\ parent'[x] = parent[x]
    BY <1>12
  <2>1. CASE x = o
    <3>1. yptr'[x] = y /\ parent'[x] = p
      BY <2>0, <2>1, <1>7, <1>12
    <3>2. y # Null => state'[y] # "FREE" /\ optr'[y] = x
      BY <2>1, <1>5, <1>11, <1>12 DEF Exists
    <3>3. y = Null => cptr'[p] = x
      BY <2>1, <1>4, <1>12
    <3> QED BY <3>1, <3>2, <3>3 DEF Exists
  <2>2. CASE x # o
    <3>1. yptr'[x] = yptr[x] /\ yptr[x] # c
      BY <2>0, <2>2, <1>9, <1>12
    <3>2. CASE yptr[x] # Null
      <4>1. Exists(yptr[x]) /\ optr[yptr[x]] = x /\ yptr[x] \in Proc
        BY <2>0, <3>2, <1>2 DEF Youngers, Stale, FamilyType
      <4>2. yptr[x] # y
        BY <2>0, <4>1, <1>5
      <4> QED BY <3>1, <4>1, <4>2, <1>12 DEF Exists
    <3>3. CASE yptr[x] = Null
      <4>1. cptr[parent[x]] = x /\ parent[x] \in Proc
        BY <2>0, <3>3, <1>2 DEF Youngers, Parents
      <4>2. ~(parent[x] = p /\ y = Null)
        BY <2>0, <4>1, <1>6
      <4> QED BY <2>0, <3>1, <3>3, <4>1, <4>2, <1>12
    <3> QED BY <3>2, <3>3
  <2> QED BY <2>1, <2>2
<1>19. NoRing'
  <2> SUFFICES ASSUME NEW S \in SUBSET Proc, S # {}
               PROVE  \E e \in S : \A x \in S : optr'[x] # e
    BY DEF NoRing
  <2>1. CASE y \in S
    <3>1. y \in Proc /\ optr[y] = c
      BY <2>1, <1>5
    <3>2. PICK e \in S \cup {c} : \A x \in S \cup {c} : optr[x] # e
      BY <1>2 DEF NoRing
    <3>3. e # c /\ o # e
      BY <2>1, <3>1, <3>2 DEF o
    <3> QED BY <3>2, <3>3, <1>12
  <2>2. CASE y \notin S /\ S \ {c} # {}
    <3>1. PICK e \in S \ {c} : \A x \in S \ {c} : optr[x] # e
      <4>1. S \ {c} \in SUBSET Proc /\ S \ {c} # {}
        BY <2>2
      <4> QED BY <4>1, <1>2 DEF NoRing
    <3> QED BY <2>2, <3>1, <1>12
  <2>3. CASE S = {c}
    BY <2>3, <1>12
  <2> QED BY <2>1, <2>2, <2>3
<1> QED BY <1>13, <1>14, <1>15, <1>16, <1>17, <1>18, <1>19 DEF LinksInv

\* The steps of do_exit and do_wait that leave the pointers alone.
LEMMA WalkLinks ==
    ASSUME LinksInv, UNCHANGED links, FamilyType',
           \A x \in Proc : Exists(x)' = Exists(x),
           \A x \in Proc : state'[x] = "ZOMBIE" /\ cptr[x] # Null => walk' = "exit" /\ who' = x,
           \A x \in Proc : Stale(x) => Stale(x)'
    PROVE  LinksInv'
<1>1. UNCHANGED <<parent, cptr, optr, yptr>>
  BY DEF links
<1>2. Cleared' /\ Parents' /\ Heads' /\ NoRing'
  BY <1>1, SlotFacts DEF LinksInv, Cleared, Parents, Heads, NoRing, FamilyType, Exists
<1>3. Olders'
  BY <1>1, SlotFacts DEF LinksInv, Olders, FamilyType, Exists
<1>4. Youngers'
  <2> SUFFICES ASSUME NEW x \in Proc, Exists(x), x # Idle
               PROVE  /\ yptr[x] # Null => /\ state'[yptr[x]] # "FREE"
                                           /\ Stale(x)' \/ optr[yptr[x]] = x
                      /\ yptr[x] = Null => cptr[parent[x]] = x
    BY <1>1 DEF Youngers, Exists
  <2>1. yptr[x] # Null => /\ Exists(yptr[x]) /\ yptr[x] \in Proc
                          /\ Stale(x) \/ optr[yptr[x]] = x
    BY DEF LinksInv, Youngers, FamilyType
  <2> QED BY <2>1 DEF LinksInv, Youngers, Exists
<1> QED BY <1>2, <1>3, <1>4 DEF LinksInv

LEMMA ExitBeginsLinks ==
    ASSUME LinksInv, NEW p \in Proc, ExitBegins(p)
    PROVE  LinksInv'
<1>1. /\ p \in Users /\ state[p] = "LIVE" /\ walk = "none" /\ walk' = "exit" /\ who' = p
      /\ state' = [state EXCEPT ![p] = "ZOMBIE"] /\ UNCHANGED links
      /\ UNCHANGED <<parent, cptr, optr, yptr, proc>>
  BY DEF ExitBegins, links
<1>2. FamilyType'
  BY <1>1, SlotFacts DEF LinksInv, FamilyType
<1>3. \A x \in Proc : Exists(x)' = Exists(x)
  BY <1>1 DEF LinksInv, FamilyType, Exists
<1>4. \A x \in Proc : state'[x] = "ZOMBIE" /\ cptr[x] # Null => walk' = "exit" /\ who' = x
  BY <1>1 DEF LinksInv, FamilyType, Cleared
<1>5. \A x \in Proc : ~Stale(x)
  BY <1>1 DEF Stale
<1> QED BY <1>1, <1>2, <1>3, <1>4, <1>5, WalkLinks

LEMMA LoopLinks ==
    ASSUME LinksInv, ExitEnds \/ ScanPasses \/ KidScanEnds \/ (\E p \in Proc : WaitBegins(p))
    PROVE  LinksInv'
<1> USE SlotFacts
<1>1. UNCHANGED <<state, parent, cptr, optr, yptr>> /\ UNCHANGED links
  BY DEF ExitEnds, ScanPasses, KidScanEnds, WaitBegins, links
<1>2. \/ walk' \in {"none", "scan"} /\ walk # "exit"
      \/ walk' = "none" /\ walk = "exit" /\ cptr[who] = Null
  BY DEF ExitEnds, ScanPasses, KidScanEnds, WaitBegins
<1>3. FamilyType'
  <2>1. CASE ExitEnds \/ KidScanEnds
    BY <1>1, <2>1 DEF ExitEnds, KidScanEnds, LinksInv, FamilyType
  <2>2. CASE ScanPasses
    <3>1. /\ walk = "scan" /\ proc # Null /\ proc' = optr[proc] /\ UNCHANGED <<walk, who>>
          /\ proc \in Proc
      BY <2>2 DEF ScanPasses, Older, LinksInv, FamilyType
    <3>2. parent[proc] = who
      BY <3>1 DEF LinksInv, FamilyType
    <3>3. optr[proc] # Null => Exists(optr[proc]) /\ parent[optr[proc]] = who
      BY <3>1, <3>2 DEF LinksInv, Olders
    <3> QED BY <1>1, <3>1, <3>3 DEF LinksInv, FamilyType, Exists
  <2>3. CASE \E p \in Proc : WaitBegins(p)
    <3>1. PICK p \in Proc : walk' = "scan" /\ who' = p /\ proc' = cptr[p]
      BY <2>3 DEF WaitBegins
    <3>2. cptr[p] # Null => Exists(cptr[p]) /\ parent[cptr[p]] = p
      BY DEF LinksInv, Heads
    <3> QED BY <1>1, <3>1, <3>2 DEF LinksInv, FamilyType, Exists
  <2> QED BY <2>1, <2>2, <2>3
<1>4. \A x \in Proc : Exists(x)' = Exists(x)
  BY <1>1 DEF Exists
<1>5. \A x \in Proc : state'[x] = "ZOMBIE" => cptr[x] = Null
  BY <1>1, <1>2 DEF LinksInv, Cleared
<1>6. \A x \in Proc : ~Stale(x)
  BY <1>2 DEF Stale
<1> QED BY <1>1, <1>3, <1>4, <1>5, <1>6, WalkLinks

\* proc_init: one list, idle's, with init in it.
LEMMA FamilyInitLinks ==
    ASSUME FamilyInit
    PROVE  LinksInv
<1> USE SlotFacts
<1>1. /\ \A x \in Proc : state[x] = IF x \in Users THEN "FREE" ELSE "LIVE"
      /\ \A x \in Proc : parent[x] = IF x = InitP THEN Idle ELSE Null
      /\ \A x \in Proc : cptr[x] = IF x = Idle THEN InitP ELSE Null
      /\ \A x \in Proc : optr[x] = Null /\ yptr[x] = Null
      /\ walk = "none" /\ who = Idle /\ proc = Null
  BY DEF FamilyInit
<1>2. \A x \in Proc : Exists(x) <=> x \in {Idle, InitP}
  BY <1>1 DEF Exists, Proc
<1>3. FamilyType
  BY <1>1 DEF FamilyInit, FamilyType
<1>4. Cleared /\ Parents /\ Heads /\ Olders
  BY <1>1, <1>2 DEF Cleared, Parents, Heads, Olders
<1>5. Youngers
  BY <1>1, <1>2 DEF Youngers
<1>6. NoRing
  BY <1>1 DEF NoRing
<1> QED BY <1>3, <1>4, <1>5, <1>6 DEF LinksInv

\* The invariant implies NoDangling.
LEMMA LinksNoDangling ==
    ASSUME LinksInv
    PROVE  NoDangling
<1> USE SlotFacts
<1> SUFFICES ASSUME NEW x \in Proc, Exists(x),
                    NEW z \in {parent[x], cptr[x], optr[x], yptr[x]}, z # Null
             PROVE  Exists(z)
  BY DEF NoDangling
<1>1. CASE z = parent[x]
  BY <1>1 DEF LinksInv, Parents
<1>2. CASE z = cptr[x]
  BY <1>2 DEF LinksInv, Heads
<1>3. CASE z = optr[x]
  BY <1>3 DEF LinksInv, Olders
<1>4. CASE z = yptr[x]
  BY <1>4 DEF LinksInv, Youngers, Parents
<1> QED BY <1>1, <1>2, <1>3, <1>4

LEMMA LeastNumber ==
    ASSUME NEW S \in SUBSET Nat, S # {}
    PROVE  \E k \in S : \A j \in S : k <= j
<1>1. PICK k \in S : \A j \in S : ~(<<j, k>> \in OpToRel(<, Nat))
  BY NatLessThanWellFounded, WFMin
<1>2. \A j \in S : ~(j < k)
  BY <1>1 DEF OpToRel
<1> QED BY <1>2

\* The number of slots, and the first k + 1 entries of p's list.
Slots == Cardinality(Proc)
Prefix(g, p, k) ==
    \A n \in 0..k : g[n] = IF n = 0 THEN cptr[p]
                           ELSE IF g[n - 1] = Null THEN Null ELSE optr[g[n - 1]]

LEMMA SlotsFinite == IsFiniteSet(Proc) /\ Slots \in Nat
<1>1. IsFiniteSet(Users \cup {Idle}) /\ IsFiniteSet((Users \cup {Idle}) \cup {InitP})
  BY FamilyAssumption, FS_AddElement
<1>2. Proc = (Users \cup {Idle}) \cup {InitP}
  BY DEF Proc
<1>3. IsFiniteSet(Proc)
  BY <1>1, <1>2
<1> QED BY <1>3, FS_CardinalityType DEF Slots

\* Every length of the walk along optr is defined, so the recursive function Nth is.
LEMMA PrefixExists ==
    ASSUME FamilyType, NEW p \in Proc, NEW k \in Nat
    PROVE  \E g \in [0..k -> Proc \cup {Null}] : Prefix(g, p, k)
<1> DEFINE Lacks == {j \in Nat : ~\E g \in [0..j -> Proc \cup {Null}] : Prefix(g, p, j)}
<1> SUFFICES ASSUME k \in Lacks PROVE FALSE
  OBVIOUS
<1>1. PICK m \in Lacks : \A j \in Lacks : m <= j
  <2>1. Lacks \in SUBSET Nat /\ Lacks # {}
    OBVIOUS
  <2> HIDE DEF Lacks
  <2> QED BY <2>1, LeastNumber
<1>2. m \in Nat /\ ~\E g \in [0..m -> Proc \cup {Null}] : Prefix(g, p, m)
  BY <1>1
<1>3. CASE m = 0
  <2> DEFINE g == [n \in 0..0 |-> cptr[p]]
  <2>1. g \in [0..0 -> Proc \cup {Null}]
    BY DEF FamilyType
  <2>2. Prefix(g, p, 0)
    BY DEF Prefix
  <2> QED BY <2>1, <2>2, <1>2, <1>3
<1>4. CASE m # 0
  <2>1. m - 1 \in Nat /\ m - 1 \notin Lacks
    BY <1>1, <1>2, <1>4
  <2>2. PICK g \in [0..(m - 1) -> Proc \cup {Null}] : Prefix(g, p, m - 1)
    BY <2>1
  <2> DEFINE v == IF g[m - 1] = Null THEN Null ELSE optr[g[m - 1]]
             h == [n \in 0..m |-> IF n = m THEN v ELSE g[n]]
  <2>3. v \in Proc \cup {Null}
    <3>1. g[m - 1] \in Proc \cup {Null}
      BY <2>1, <2>2
    <3> QED BY <3>1 DEF FamilyType
  <2>4. h \in [0..m -> Proc \cup {Null}]
    <3> HIDE DEF v
    <3> QED BY <2>2, <2>3, <1>2
  <2>5. Prefix(h, p, m)
    <3> SUFFICES ASSUME NEW n \in 0..m
                 PROVE  h[n] = IF n = 0 THEN cptr[p]
                               ELSE IF h[n - 1] = Null THEN Null ELSE optr[h[n - 1]]
      BY DEF Prefix
    <3>1. CASE n = m
      <4>1. h[n] = v /\ h[n - 1] = g[m - 1]
        BY <3>1, <2>1, <1>2, <1>4
      <4> QED BY <3>1, <4>1, <1>4
    <3>2. CASE n # m
      <4>1. n \in 0..(m - 1) /\ h[n] = g[n]
        BY <3>2, <1>2
      <4>2. n # 0 => h[n - 1] = g[n - 1]
        BY <4>1, <1>2
      <4>3. g[n] = IF n = 0 THEN cptr[p]
                   ELSE IF g[n - 1] = Null THEN Null ELSE optr[g[n - 1]]
        BY <4>1, <2>2 DEF Prefix
      <4> HIDE DEF h
      <4> QED BY <4>1, <4>2, <4>3
    <3> QED BY <3>1, <3>2
  <2> HIDE DEF h, v
  <2> QED BY <2>4, <2>5, <1>2
<1> QED BY <1>3, <1>4

LEMMA NthFacts ==
    ASSUME FamilyType, NEW p \in Proc
    PROVE  /\ Nth(p) = [n \in 0..Slots |-> Nth(p)[n]]
           /\ Prefix(Nth(p), p, Slots)
           /\ \A n \in 0..Slots : Nth(p)[n] \in Proc \cup {Null}
<1> DEFINE Is(f) == f = [n \in 0..Cardinality(Proc) |->
                            IF n = 0 THEN cptr[p]
                            ELSE IF f[n - 1] = Null THEN Null ELSE optr[f[n - 1]]]
<1>1. PICK g \in [0..Slots -> Proc \cup {Null}] : Prefix(g, p, Slots)
  BY SlotsFinite, PrefixExists
<1>2. Is(g)
  BY <1>1 DEF Prefix, Slots
<1>3. Nth(p) = CHOOSE f : Is(f)
  BY DEF Nth
<1>4. Is(CHOOSE f : Is(f))
  <2> HIDE DEF Is
  <2> QED BY <1>2
<1>5. Is(Nth(p))
  <2> HIDE DEF Is
  <2> QED BY <1>3, <1>4
<1> DEFINE f == Nth(p)
<1>6. f = [n \in 0..Slots |-> f[n]] /\ Prefix(f, p, Slots)
  <2> SUFFICES ASSUME NEW h, Is(h)
               PROVE  h = [n \in 0..Slots |-> h[n]] /\ Prefix(h, p, Slots)
    BY <1>5
  <2> QED BY DEF Prefix, Slots
<1> HIDE DEF f, Is
<1>7. \A n \in 0..Slots : f[n] \in Proc \cup {Null}
  <2> DEFINE Off == {n \in 0..Slots : f[n] \notin Proc \cup {Null}}
  <2> SUFFICES ASSUME Off # {} PROVE FALSE
    OBVIOUS
  <2>1. PICK n \in Off : \A j \in Off : n <= j
    <3>1. Off \in SUBSET Nat
      BY SlotsFinite
    <3> HIDE DEF Off
    <3> QED BY <3>1, LeastNumber
  <2>2. n \in 0..Slots /\ f[n] \notin Proc \cup {Null}
    BY <2>1
  <2>3. n # 0
    BY <2>2, <1>6 DEF Prefix, FamilyType
  <2>4. n - 1 \in 0..Slots /\ n - 1 \notin Off
    BY <2>1, <2>2, <2>3, SlotsFinite
  <2>5. f[n - 1] \in Proc \cup {Null}
    BY <2>4
  <2> QED BY <2>2, <2>3, <2>5, <1>6 DEF Prefix, FamilyType
<1> QED BY <1>6, <1>7 DEF f

\* The list of each process ends, as there is no ring, and holds all the children,
\* as the youngest one outside it would be its head.
LEMMA LinksChildList ==
    ASSUME LinksInv
    PROVE  ChildListExact
<1> USE SlotFacts
<1>1. FamilyType /\ Parents /\ Heads /\ Olders /\ Youngers /\ NoRing
  BY DEF LinksInv
<1> SUFFICES ASSUME NEW p \in Proc, NEW f, f = Nth(p)
             PROVE  /\ f[Slots] = Null
                    /\ Kids(p) = {f[n] : n \in DOMAIN f} \ {Null}
  BY DEF ChildListExact, Slots
<1>2. /\ DOMAIN f = 0..Slots /\ Slots \in Nat
      /\ \A n \in 0..Slots : f[n] \in Proc \cup {Null}
  BY <1>1, NthFacts, SlotsFinite
<1>3. /\ f[0] = cptr[p]
      /\ \A n \in 1..Slots : f[n] = IF f[n - 1] = Null THEN Null ELSE optr[f[n - 1]]
  <2>1. Prefix(f, p, Slots)
    BY <1>1, NthFacts
  <2> QED BY <2>1, <1>2 DEF Prefix
<1>4. \A n \in 0..Slots : f[n] # Null => Exists(f[n]) /\ parent[f[n]] = p
  <2> DEFINE Off == {n \in 0..Slots : f[n] # Null /\ ~(Exists(f[n]) /\ parent[f[n]] = p)}
  <2> SUFFICES ASSUME Off # {} PROVE FALSE
    OBVIOUS
  <2>1. PICK n \in Off : \A j \in Off : n <= j
    <3>1. Off \in SUBSET Nat
      BY <1>2
    <3> HIDE DEF Off
    <3> QED BY <3>1, LeastNumber
  <2>2. n \in 0..Slots /\ f[n] # Null /\ ~(Exists(f[n]) /\ parent[f[n]] = p)
    BY <2>1
  <2>3. n # 0
    BY <2>2, <1>1, <1>3 DEF Heads
  <2>4. n - 1 \in 0..Slots /\ n \in 1..Slots /\ n - 1 \notin Off
    BY <2>1, <2>2, <2>3, <1>2
  <2>5. f[n - 1] # Null /\ f[n - 1] \in Proc /\ f[n] = optr[f[n - 1]]
    BY <2>2, <2>4, <1>2, <1>3
  <2>6. parent[f[n - 1]] = p
    BY <2>4, <2>5
  <2> QED BY <2>2, <2>5, <2>6, <1>1 DEF Olders
<1>5. f[Slots] = Null
  <2> SUFFICES ASSUME f[Slots] # Null PROVE FALSE
    OBVIOUS
  <2>1. \A n \in 0..Slots : f[n] # Null
    <3> DEFINE Ends == {n \in 0..Slots : f[Slots - n] = Null}
    <3> SUFFICES ASSUME Ends # {} PROVE FALSE
      <4>1. ASSUME NEW n \in 0..Slots, f[n] = Null PROVE Ends # {}
        <5>1. Slots - n \in 0..Slots /\ Slots - (Slots - n) = n
          BY <1>2
        <5>2. Slots - n \in Ends
          BY <4>1, <5>1
        <5> QED BY <5>2
      <4> QED BY <4>1
    <3>1. PICK n \in Ends : \A j \in Ends : n <= j
      <4>1. Ends \in SUBSET Nat
        BY <1>2
      <4> HIDE DEF Ends
      <4> QED BY <4>1, LeastNumber
    <3>2. n \in 0..Slots /\ f[Slots - n] = Null
      BY <3>1
    <3>3. n # 0
      BY <3>2, <1>2
    <3>4. n - 1 \in 0..Slots /\ Slots - (n - 1) \in 1..Slots /\ n - 1 \notin Ends
      BY <3>1, <3>2, <3>3, <1>2
    <3>5. (Slots - (n - 1)) - 1 = Slots - n
      BY <3>2, <1>2
    <3>6. f[Slots - (n - 1)] # Null
      BY <3>4
    <3> QED BY <3>2, <3>4, <3>5, <3>6, <1>3
  <2>2. f \in [0..Slots -> Proc]
    <3>1. \A n \in 0..Slots : f[n] \in Proc
      BY <2>1, <1>2
    <3>2. f = [n \in 0..Slots |-> f[n]]
      BY <1>1, NthFacts
    <3> QED BY <3>1, <3>2
  <2>3. PICK i, j \in 0..Slots : i # j /\ f[i] = f[j]
    <3>1. IsFiniteSet(0..Slots) /\ Cardinality(0..Slots) = Slots + 1
      BY <1>2, FS_Interval
    <3>2. IsFiniteSet(Proc) /\ Cardinality(Proc) < Cardinality(0..Slots)
      BY <3>1, <1>2, SlotsFinite DEF Slots
    <3> DEFINE D == 0..Slots
    <3>3. IsFiniteSet(D) /\ Cardinality(Proc) < Cardinality(D) /\ f \in [D -> Proc]
      BY <2>2, <3>1, <3>2
    <3>4. \E x, y \in D : x # y /\ f[x] = f[y]
      <4> HIDE DEF D
      <4> QED BY <3>2, <3>3, FS_PigeonHole
    <3> QED BY <3>4
  <2>4. ASSUME NEW a \in 0..Slots, NEW b \in 0..Slots, a < b, f[a] = f[b]
        PROVE  FALSE
    <3> DEFINE S == {f[n] : n \in (a + 1)..b}
    <3>1. S \in SUBSET Proc /\ S # {}
      BY <2>2, <2>4, <1>2
    <3>2. PICK e \in S : \A x \in S : optr[x] # e
      <4> HIDE DEF S
      <4> QED BY <3>1, <1>1 DEF NoRing
    <3>3. PICK n \in (a + 1)..b : e = f[n]
      BY <3>2
    <3>4. n \in 1..Slots /\ f[n] = optr[f[n - 1]]
      BY <2>1, <2>4, <3>3, <1>2, <1>3
    <3>5. f[n - 1] \in S
      <4>1. CASE n = a + 1
        BY <4>1, <2>4, <1>2
      <4>2. CASE n # a + 1
        <5>1. n - 1 \in (a + 1)..b
          BY <4>2, <3>3, <1>2
        <5> QED BY <5>1
      <4> QED BY <4>1, <4>2
    <3>6. optr[f[n - 1]] # e
      <4> HIDE DEF S
      <4> QED BY <3>2, <3>5
    <3> QED BY <3>3, <3>4, <3>6
  <2>5. i < j \/ j < i
    BY <2>3, <1>2
  <2> QED BY <2>3, <2>4, <2>5
<1>6. Kids(p) = {f[n] : n \in DOMAIN f} \ {Null}
  <2>1. ASSUME NEW n \in 0..Slots, f[n] # Null PROVE f[n] \in Kids(p)
    BY <2>1, <1>2, <1>4 DEF Kids
  <2> DEFINE S == {c \in Proc : Exists(c) /\ parent[c] = p /\ \A n \in 0..Slots : f[n] # c}
  <2>2. S = {}
    <3> SUFFICES ASSUME S # {} PROVE FALSE
      OBVIOUS
    <3>1. PICK e \in S : \A x \in S : optr[x] # e
      <4>1. S \in SUBSET Proc
        OBVIOUS
      <4> HIDE DEF S
      <4> QED BY <4>1, <1>1 DEF NoRing
    <3>2. e \in Proc /\ Exists(e) /\ parent[e] = p /\ \A n \in 0..Slots : f[n] # e
      BY <3>1
    <3>3. e # Idle /\ cptr[p] # e /\ ~Stale(e)
      BY <3>2, <1>1, <1>2, <1>3 DEF Parents, Stale
    <3>4. yptr[e] \in Proc /\ Exists(yptr[e]) /\ optr[yptr[e]] = e
      BY <3>2, <3>3, <1>1 DEF Youngers, FamilyType
    <3>5. parent[yptr[e]] = p
      BY <3>2, <3>4, <1>1 DEF Olders
    <3>6. PICK n \in 0..Slots : f[n] = yptr[e]
      BY <3>1, <3>4, <3>5
    <3>7. n # Slots
      BY <3>4, <3>6, <1>5
    <3>8. n + 1 \in 1..Slots /\ (n + 1) - 1 = n
      BY <3>7, <1>2
    <3>9. f[n + 1] = e
      BY <3>4, <3>6, <3>8, <1>3
    <3> QED BY <3>2, <3>8, <3>9, <1>2
  <2>3. ASSUME NEW c \in Kids(p) PROVE c \in {f[n] : n \in DOMAIN f} \ {Null}
    <3>1. c \in Proc /\ Exists(c) /\ parent[c] = p
      BY <2>3 DEF Kids
    <3>2. \E n \in 0..Slots : f[n] = c
      BY <2>2, <3>1
    <3> QED BY <3>1, <3>2, <1>2
  <2> QED BY <2>1, <2>3, <1>2
<1> QED BY <1>5, <1>6
-----------------------------------------------------------------------------
(* The family pointers in the table *)

\* The pointers' invariant holds in every state of the table.
LEMMA LinksInvariant == TableSpec => []LinksInv
<1>1. TableInit => LinksInv
  BY FamilyInitLinks DEF TableInit
<1>2. LinksInv /\ [TableNext]_tableVars => LinksInv'
  <2> SUFFICES ASSUME LinksInv, [TableNext]_tableVars PROVE LinksInv'
    OBVIOUS
  <2>1. CASE UNCHANGED familyVars
    <3>1. UNCHANGED <<state, parent, cptr, optr, yptr, walk, who, proc>>
      BY <2>1 DEF familyVars, links
    <3>2. FamilyType' /\ \A x \in Proc : Exists(x)' = Exists(x) /\ (Stale(x) => Stale(x)')
      BY <3>1 DEF LinksInv, FamilyType, Exists, Stale
    <3>3. \A x \in Proc : state'[x] = "ZOMBIE" /\ cptr[x] # Null => walk' = "exit" /\ who' = x
      BY <3>1 DEF LinksInv, Cleared
    <3> QED BY <3>1, <3>2, <3>3, WalkLinks DEF links
  <2>2. CASE ForkBegins \/ ForkScans \/ UNCHANGED tableVars
    BY <2>1, <2>2 DEF ForkBegins, ForkScans, tableVars
  <2>3. CASE FamilyOnly
    <3>1. CASE ExitMoves
      BY <3>1, MoveLinks
    <3>2. CASE \E p \in Proc : ExitBegins(p)
      BY <3>2, ExitBeginsLinks
    <3>3. CASE ExitEnds \/ ScanPasses \/ KidScanEnds \/ \E p \in Proc : WaitBegins(p)
      BY <3>3, LoopLinks
    <3> QED BY <2>3, <3>1, <3>2, <3>3 DEF FamilyOnly, FamilyLoop
  <2>4. CASE \E p \in Proc, c \in Users : ForkEnds(p, c)
    BY <2>4, ForkLinks DEF ForkEnds
  <2>5. CASE WaitAny
    <3>1. PICK c \in Proc : walk # "exit" /\ state[c] = "ZOMBIE" /\ Frees(c)
      BY <2>5 DEF WaitAny, ScanFinds, Proc
    <3> QED BY <3>1, FreesLinks
  <2>6. CASE \E p \in Proc, n \in 1..(MAX_PID - 1) : WaitFor(p, n)
    <3>1. PICK c \in Proc : walk # "exit" /\ state[c] = "ZOMBIE" /\ Frees(c)
      BY <2>6 DEF WaitFor, WaitForPid, find_proc
    <3> QED BY <3>1, FreesLinks
  <2> QED BY <2>2, <2>3, <2>4, <2>5, <2>6 DEF TableNext
<1> QED BY <1>1, <1>2, PTL DEF TableSpec

\* No process points to a freed proc_struct, for any number of processes and any
\* interleaving of do_fork, do_exit's loop and do_wait.
THEOREM NoDanglingPointers == TableSpec => []NoDangling
<1>1. LinksInv => NoDangling
  BY LinksNoDangling
<1> QED BY <1>1, LinksInvariant, PTL

\* From cptr along optr every process finds its children, all of them and nobody
\* else, and comes to an end, in the middle of do_exit's loop too.
THEOREM ChildListsExact == TableSpec => []ChildListExact
<1>1. LinksInv => ChildListExact
  BY LinksChildList
<1> QED BY <1>1, LinksInvariant, PTL
=============================================================================
