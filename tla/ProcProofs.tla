----------------------------- MODULE ProcProofs -----------------------------
(***************************************************************************)
(* Theorems about Proc, for every number of processes and every value of   *)
(* the limits.                                                             *)
(***************************************************************************)
EXTENDS Proc, SequenceTheorems, FiniteSetTheorems, TLAPS

\* What alloc_proc, RR_enqueue and the refill of a slice return.
LEMMA RefillSliceType ==
    ASSUME NEW ts \in [Proc -> 0..MaxTimeSlice], NEW S
    PROVE  RefillSlice(ts, S) \in [Proc -> 0..MaxTimeSlice]
BY ProcAssumption DEF RefillSlice

LEMMA EnqueueType ==
    ASSUME NEW q \in Seq(Proc), NEW p \in Proc
    PROVE  RR_enqueue(q, p) \in Seq(Proc)
BY DEF RR_enqueue

LEMMA ConstantsInProc ==
    Idle \in Proc /\ InitP \in Proc /\ Users \subseteq Proc
BY DEF Proc

\* schedule() keeps the types of what it changes.
LEMMA ScheduleType ==
    ASSUME TypeOK, NEW q \in Seq(Proc), NEW st, NEW ts \in [Proc -> 0..MaxTimeSlice],
           Schedule(q, st, ts)
    PROVE  /\ need_resched' \in [Proc -> BOOLEAN]
           /\ time_slice' \in [Proc -> 0..MaxTimeSlice]
           /\ rq' \in Seq(Proc)
           /\ current' \in Proc
<1> DEFINE back == st[current] = "RUNNABLE" /\ current # Idle
           full == IF back THEN RR_enqueue(q, current) ELSE q
<1>1. full \in Seq(Proc)
  BY EnqueueType DEF TypeOK
<1>2. need_resched' \in [Proc -> BOOLEAN]
  BY DEF Schedule, TypeOK
<1>3. time_slice' \in [Proc -> 0..MaxTimeSlice]
  BY RefillSliceType DEF Schedule
<1>4. \/ full = <<>> /\ current' = Idle /\ rq' = full
      \/ full # <<>> /\ current' = Head(full) /\ rq' = Tail(full)
  BY DEF Schedule
<1> HIDE DEF full
<1>5. full # <<>> => Head(full) \in Proc /\ Tail(full) \in Seq(Proc)
  BY <1>1, HeadTailProperties
<1>6. rq' \in Seq(Proc) /\ current' \in Proc
  BY <1>1, <1>4, <1>5, ConstantsInProc
<1> QED BY <1>2, <1>3, <1>6

LEMMA WakeupType ==
    ASSUME TypeOK, NEW p \in Proc, WakeupProc(p)
    PROVE  /\ state' \in [Proc -> States]
           /\ wait_state' \in [Proc -> WaitStates]
           /\ rq' \in Seq(Proc)
           /\ time_slice' \in [Proc -> 0..MaxTimeSlice]
<1>1. time_slice' \in [Proc -> 0..MaxTimeSlice]
  BY RefillSliceType DEF WakeupProc, TypeOK
<1>2. rq' \in Seq(Proc)
  BY EnqueueType DEF WakeupProc, TypeOK
<1>3. state' \in [Proc -> States] /\ wait_state' \in [Proc -> WaitStates]
  BY DEF WakeupProc, TypeOK, States, WaitStates
<1> QED BY <1>1, <1>2, <1>3

LEMMA DoForkType ==
    ASSUME TypeOK, NEW c \in Users, DoFork(c)
    PROVE  /\ state' \in [Proc -> States]
           /\ parent' \in [Proc -> Proc]
           /\ nr_process' \in Int
           /\ rq' \in Seq(Proc)
           /\ time_slice' \in [Proc -> 0..MaxTimeSlice]
<1>1. time_slice' \in [Proc -> 0..MaxTimeSlice]
  BY RefillSliceType DEF DoFork, TypeOK
<1>2. rq' \in Seq(Proc)
  BY EnqueueType, ConstantsInProc DEF DoFork, TypeOK
<1>3. state' \in [Proc -> States]
  BY DEF DoFork, TypeOK, States
<1>4. parent' \in [Proc -> Proc]
  BY DEF DoFork, TypeOK
<1>5. nr_process' \in Int
  BY DEF DoFork, TypeOK
<1> QED BY <1>1, <1>2, <1>3, <1>4, <1>5

LEMMA ReapType ==
    ASSUME TypeOK, NEW c \in Users, Reap(c)
    PROVE  /\ state' \in [Proc -> States]
           /\ exiting' \subseteq Proc
           /\ parent' \in [Proc -> Proc]
           /\ time_slice' \in [Proc -> 0..MaxTimeSlice]
           /\ nr_process' \in Int
<1>1. state' \in [Proc -> States] /\ exiting' \subseteq Proc
  BY DEF Reap, TypeOK, States
<1>2. parent' \in [Proc -> Proc]
  BY ConstantsInProc DEF Reap, TypeOK
<1>3. time_slice' \in [Proc -> 0..MaxTimeSlice]
  <2>1. 0 \in 0..MaxTimeSlice
    BY ProcAssumption
  <2> QED BY <2>1 DEF Reap, TypeOK
<1>4. nr_process' \in Int
  BY DEF Reap, TypeOK
<1> QED BY <1>1, <1>2, <1>3, <1>4

LEMMA DoExitType ==
    ASSUME TypeOK, NEW p \in Proc, DoExit(p)
    PROVE  TypeOK'
<1> DEFINE q == parent[p]
           wakeParent == ParentWaits(p)
           wakeInit == /\ wait_state[InitP] = "WT_CHILD" /\ ~(wakeParent /\ q = InitP)
                       /\ OrphanZombie(p)
           woken == {x \in {q} : wakeParent} \cup {x \in {InitP} : wakeInit}
           st == [x \in Proc |-> IF x = p THEN "ZOMBIE"
                                 ELSE IF x \in woken THEN "RUNNABLE" ELSE state[x]]
           rq1 == IF wakeParent /\ Enqueues(q) THEN RR_enqueue(rq, q) ELSE rq
           rq2 == IF wakeInit /\ Enqueues(InitP) THEN RR_enqueue(rq1, InitP) ELSE rq1
<1>1. rq1 \in Seq(Proc)
  BY EnqueueType DEF TypeOK
<1>2. rq2 \in Seq(Proc)
  BY <1>1, EnqueueType, ConstantsInProc
<1>3. RefillSlice(time_slice, woken) \in [Proc -> 0..MaxTimeSlice]
  BY RefillSliceType DEF TypeOK
<1>4. Schedule(rq2, st, RefillSlice(time_slice, woken))
  BY DEF DoExit
<1>5. /\ need_resched' \in [Proc -> BOOLEAN]
      /\ time_slice' \in [Proc -> 0..MaxTimeSlice]
      /\ rq' \in Seq(Proc)
      /\ current' \in Proc
  BY <1>2, <1>3, <1>4, ScheduleType
<1>6. state' \in [Proc -> States] /\ wait_state' \in [Proc -> WaitStates]
  BY DEF DoExit, TypeOK, States, WaitStates
<1>7. parent' \in [Proc -> Proc]
  BY ConstantsInProc DEF DoExit, TypeOK, Inherited
<1> QED BY <1>5, <1>6, <1>7 DEF DoExit, TypeOK, timeVars, ctlVars

\* The type invariant: the state of the process manager stays well formed.
THEOREM TypeCorrect == Spec => []TypeOK
<1>1. Init => TypeOK
  BY ProcAssumption, ConstantsInProc DEF Init, TypeOK, States, WaitStates, PCs
<1>2. TypeOK /\ [Next]_vars => TypeOK'
  <2> SUFFICES ASSUME TypeOK, [Next]_vars
               PROVE  TypeOK'
    OBVIOUS
  <2> USE ConstantsInProc
  <2>1. ASSUME NEW p \in Users, NEW c \in Users, SysFork(p, c) PROVE TypeOK'
    BY <2>1, DoForkType DEF SysFork, TypeOK, PCs, timeVars
  <2>2. ASSUME NEW p \in Users, SysReturns(p) PROVE TypeOK'
    BY <2>2 DEF SysReturns, Trapped, TypeOK, PCs, taskVars, schedVars, timeVars
  <2>3. ASSUME NEW p \in Users, SysExit(p) PROVE TypeOK'
    BY <2>3, DoExitType DEF SysExit
  <2>4. ASSUME NEW p \in Users, NEW q \in Proc, SysKill(p, q) PROVE TypeOK'
    BY <2>4, WakeupType DEF SysKill, Trapped, TypeOK, PCs, timeVars
  <2>5. ASSUME NEW p \in Users, SysYield(p) PROVE TypeOK'
    BY <2>5 DEF SysYield, Trapped, TypeOK, PCs, taskVars, timeVars
  <2>6. ASSUME NEW p \in Users, NEW t \in 1..MaxSleep, SysSleep(p, t) PROVE TypeOK'
    <3>1. /\ need_resched' \in [Proc -> BOOLEAN]
          /\ time_slice' \in [Proc -> 0..MaxTimeSlice]
          /\ rq' \in Seq(Proc)
          /\ current' \in Proc
      BY <2>6, ScheduleType DEF SysSleep, TypeOK
    <3>2. timer' \in [Proc -> 0..MaxSleep]
      BY <2>6, ProcAssumption DEF SysSleep, TypeOK
    <3>3. state' \in [Proc -> States] /\ wait_state' \in [Proc -> WaitStates]
      BY <2>6 DEF SysSleep, TypeOK, States, WaitStates
    <3>4. pc' \in [Proc -> PCs]
      BY <2>6 DEF SysSleep, Trapped, TypeOK, PCs
    <3> QED BY <2>6, <3>1, <3>2, <3>3, <3>4 DEF SysSleep, TypeOK
  <2>7. ASSUME NEW p \in Users, NEW w \in Users \cup {Idle}, SysWait(p, w) PROVE TypeOK'
    BY <2>7 DEF SysWait, Trapped, TypeOK, PCs, taskVars, schedVars, timeVars
  <2>8. ASSUME NEW p \in Users, SleepReturns(p) PROVE TypeOK'
    BY <2>8, ProcAssumption DEF SleepReturns, Trapped, TypeOK, PCs, taskVars, schedVars
  <2>9. ASSUME NEW p \in Users, NEW c \in Users, DoWaitReaps(p, c) PROVE TypeOK'
    <3>1. pc' \in [Proc -> PCs] /\ waitfor' \in [Proc -> Proc]
      BY <2>9 DEF DoWaitReaps, TypeOK, PCs
    <3> QED BY <2>9, <3>1, ReapType DEF DoWaitReaps, WaitFound, Reap, TypeOK, timeVars
  <2>10. ASSUME NEW p \in Users, DoWaitFails(p) PROVE TypeOK'
    BY <2>10 DEF DoWaitFails, Trapped, TypeOK, PCs, taskVars, schedVars, timeVars
  <2>11. ASSUME NEW p \in Users, DoWaitSleeps(p) PROVE TypeOK'
    <3>1. /\ need_resched' \in [Proc -> BOOLEAN]
          /\ time_slice' \in [Proc -> 0..MaxTimeSlice]
          /\ rq' \in Seq(Proc)
          /\ current' \in Proc
      BY <2>11, ScheduleType DEF DoWaitSleeps, TypeOK
    <3> QED BY <2>11, <3>1
            DEF DoWaitSleeps, Trapped, TypeOK, PCs, States, WaitStates, timeVars
  <2>12. ASSUME NEW p \in Users, DoWaitKilled(p) PROVE TypeOK'
    BY <2>12, DoExitType DEF DoWaitKilled
  <2>13. ASSUME NEW p \in Proc, DoWaitRepeats(p) PROVE TypeOK'
    BY <2>13 DEF DoWaitRepeats, Trapped, TypeOK, PCs, taskVars, schedVars, timeVars
  <2>14. ASSUME NEW p \in Users, TailKilled(p) PROVE TypeOK'
    BY <2>14, DoExitType DEF TailKilled
  <2>15. ASSUME NEW p \in Users, TailReschedules(p) PROVE TypeOK'
    <3>1. /\ need_resched' \in [Proc -> BOOLEAN]
          /\ time_slice' \in [Proc -> 0..MaxTimeSlice]
          /\ rq' \in Seq(Proc)
          /\ current' \in Proc
      BY <2>15, ScheduleType DEF TailReschedules, TypeOK
    <3> QED BY <2>15, <3>1 DEF TailReschedules, Trapped, TypeOK, PCs, taskVars, timeVars
  <2>16. ASSUME NEW p \in Users, TailReturns(p) PROVE TypeOK'
    BY <2>16 DEF TailReturns, Trapped, TypeOK, PCs, taskVars, schedVars, timeVars
  <2>17. ASSUME NEW c \in Users, InitMain(c) PROVE TypeOK'
    BY <2>17, DoForkType DEF InitMain, TypeOK, PCs, timeVars
  <2>18. CASE InitMainFails \/ InitFinishes \/ InitKilled
    BY <2>18 DEF InitMainFails, InitFinishes, InitKilled, TypeOK, taskVars, schedVars, timeVars
  <2>19. ASSUME NEW c \in Users, InitReaps(c) PROVE TypeOK'
    <3>1. pc' \in [Proc -> PCs] /\ waitfor' \in [Proc -> Proc]
      BY <2>19 DEF InitReaps, TypeOK, PCs
    <3> QED BY <2>19, <3>1, ReapType DEF InitReaps, WaitFound, Reap, TypeOK, timeVars
  <2>20. CASE InitHasKid \/ InitMarks \/ InitFlags
    <3>1. pc' \in [Proc -> PCs]
      BY <2>20 DEF InitHasKid, InitMarks, InitFlags, Trapped, TypeOK, PCs
    <3>2. state' \in [Proc -> States] /\ wait_state' \in [Proc -> WaitStates]
      BY <2>20 DEF InitHasKid, InitMarks, InitFlags, TypeOK, States, WaitStates, taskVars
    <3> QED BY <2>20, <3>1, <3>2
            DEF InitHasKid, InitMarks, InitFlags, TypeOK, taskVars, schedVars, timeVars
  <2>21. CASE InitBlocks \/ InitYields
    <3>1. /\ need_resched' \in [Proc -> BOOLEAN]
          /\ time_slice' \in [Proc -> 0..MaxTimeSlice]
          /\ rq' \in Seq(Proc)
          /\ current' \in Proc
      BY <2>21, ScheduleType DEF InitBlocks, InitYields, TypeOK
    <3> QED BY <2>21, <3>1 DEF InitBlocks, InitYields, Trapped, TypeOK, PCs, taskVars, timeVars
  <2>22. CASE CpuIdle
    <3>1. /\ need_resched' \in [Proc -> BOOLEAN]
          /\ time_slice' \in [Proc -> 0..MaxTimeSlice]
          /\ rq' \in Seq(Proc)
          /\ current' \in Proc
      BY <2>22, ScheduleType DEF CpuIdle, TypeOK
    <3> QED BY <2>22, <3>1 DEF CpuIdle, TypeOK, taskVars, timeVars, ctlVars
  <2>23. CASE TimerIrq
    <3>1. ticks' \in 0..(TickNum - 1)
      BY <2>23, ProcAssumption DEF TimerIrq, TypeOK
    <3>2. timer' \in [Proc -> 0..MaxSleep]
      BY <2>23, ProcAssumption DEF TimerIrq, TypeOK
    <3> QED BY <2>23, <3>1, <3>2 DEF TimerIrq, Expired, TypeOK, taskVars, ctlVars
  <2>24. ASSUME NEW p \in Proc, RunTimer(p) PROVE TypeOK'
    BY <2>24, WakeupType DEF RunTimer, TypeOK, ctlVars
  <2>25. CASE RunTimerDone
    <3>1. time_slice' \in [Proc -> 0..MaxTimeSlice]
      BY <2>25, ProcAssumption DEF RunTimerDone, TypeOK
    <3> QED BY <2>25, <3>1 DEF RunTimerDone, TypeOK, PCs, taskVars
  <2>26. CASE UNCHANGED vars
    BY <2>26 DEF vars, TypeOK, taskVars, schedVars, timeVars, ctlVars
  <2> QED
    BY <2>1, <2>2, <2>3, <2>4, <2>5, <2>6, <2>7, <2>8, <2>9, <2>10, <2>11, <2>12, <2>13,
       <2>14, <2>15, <2>16, <2>17, <2>18, <2>19, <2>20, <2>21, <2>22, <2>23, <2>24, <2>25,
       <2>26
    DEF Next, SysCall, KernelPath, InitThread, TimerTrap, Halted
<1> QED BY <1>1, <1>2, PTL DEF Spec
-----------------------------------------------------------------------------
(* The run queue.  RunQueueExact is not inductive by itself: a fork could put   *)
(* the running process on the queue if its slot were free, and schedule() could *)
(* give the CPU to a process that is not RUNNABLE.  RunQueueInv adds that idle  *)
(* always is, and that the current process is, except for init between the      *)
(* stores of its do_wait.                                                       *)

CurrentRunnable ==
    \/ state[current] = "RUNNABLE"
    \/ current = InitP /\ pc[InitP] \in {"flag", "block"}

RunQueueInv ==
    /\ TypeOK
    /\ RunQueueExact
    /\ CurrentRunnable
    /\ state[Idle] = "RUNNABLE"

\* list_add_before of an entry that is not on the list.
LEMMA EnqueueLists ==
    ASSUME NEW q \in Seq(Proc), NEW S, NEW p \in Proc, Lists(q, S), p \notin S
    PROVE  Lists(RR_enqueue(q, p), S \cup {p})
<1> DEFINE r == Append(q, p)
<1>1. /\ r \in Seq(Proc) /\ Len(r) = Len(q) + 1
      /\ DOMAIN r = 1..Len(r) /\ DOMAIN q = 1..Len(q)
      /\ \A i \in 1..Len(q) : r[i] = q[i]
      /\ r[Len(q) + 1] = p
  OBVIOUS
<1>2. \A i \in DOMAIN q : q[i] \in S /\ q[i] # p
  BY DEF Lists
<1> HIDE DEF r
<1>3. \A i, j \in DOMAIN r : r[i] = r[j] => i = j
  BY <1>1, <1>2 DEF Lists
<1>4. {r[i] : i \in DOMAIN r} = S \cup {p}
  <2>1. ASSUME NEW i \in DOMAIN r PROVE r[i] \in S \cup {p}
    BY <1>1, <1>2
  <2>2. ASSUME NEW x \in S PROVE \E i \in DOMAIN r : r[i] = x
    <3>1. PICK i \in DOMAIN q : q[i] = x
      BY DEF Lists
    <3> QED BY <1>1, <3>1
  <2>3. \E i \in DOMAIN r : r[i] = p
    BY <1>1
  <2> QED BY <2>1, <2>2, <2>3
<1> QED BY <1>3, <1>4 DEF Lists, RR_enqueue, r

\* RR_pick_next and RR_dequeue of the first entry.
LEMMA DequeueLists ==
    ASSUME NEW q \in Seq(Proc), NEW S, Lists(q, S), q # <<>>
    PROVE  Head(q) \in S /\ Lists(Tail(q), S \ {Head(q)})
<1> DEFINE r == Tail(q)
           h == Head(q)
<1>1. /\ r \in Seq(Proc) /\ Len(q) \in Nat /\ Len(q) > 0 /\ Len(r) = Len(q) - 1
      /\ DOMAIN r = 1..Len(r) /\ DOMAIN q = 1..Len(q)
      /\ \A i \in 1..Len(r) : r[i] = q[i + 1]
      /\ h = q[1]
  BY EmptySeq, HeadTailProperties
<1> HIDE DEF r, h
<1>2. \A i \in DOMAIN r : i + 1 \in DOMAIN q /\ i + 1 # 1
  BY <1>1
<1>3. \A i, j \in DOMAIN r : r[i] = r[j] => i = j
  <2> SUFFICES ASSUME NEW i \in DOMAIN r, NEW j \in DOMAIN r, r[i] = r[j]
               PROVE  i = j
    OBVIOUS
  <2>1. q[i + 1] = q[j + 1]
    BY <1>1
  <2>2. i + 1 = j + 1
    BY <1>2, <2>1 DEF Lists
  <2> QED BY <1>1, <2>2
<1>4. 1 \in DOMAIN q
  BY <1>1
<1>5. h \in S
  BY <1>1, <1>4 DEF Lists
<1>6. ASSUME NEW i \in DOMAIN r PROVE r[i] \in S \ {h}
  <2>1. r[i] = q[i + 1] /\ i + 1 \in DOMAIN q /\ i + 1 # 1
    BY <1>1, <1>2
  <2> QED BY <1>1, <1>4, <2>1 DEF Lists
<1>7. ASSUME NEW x \in S \ {h} PROVE \E i \in DOMAIN r : r[i] = x
  <2>1. PICK k \in DOMAIN q : q[k] = x
    BY DEF Lists
  <2>2. k # 1
    BY <1>1, <2>1
  <2>3. k - 1 \in DOMAIN r /\ r[k - 1] = q[(k - 1) + 1] /\ (k - 1) + 1 = k
    BY <1>1, <2>1, <2>2
  <2> QED BY <2>1, <2>3
<1>8. {r[i] : i \in DOMAIN r} = S \ {h}
  BY <1>6, <1>7
<1> QED BY <1>3, <1>5, <1>8 DEF Lists, r, h

Ready(st, cur) == {p \in Proc \ {Idle} : st[p] = "RUNNABLE" /\ p # cur}

\* schedule() keeps the queue exact and gives the CPU to a RUNNABLE process.
LEMMA ScheduleLists ==
    ASSUME TypeOK, NEW q \in Seq(Proc), NEW st \in [Proc -> States], NEW ts,
           Schedule(q, st, ts), Lists(q, Ready(st, current)), st[Idle] = "RUNNABLE"
    PROVE  Lists(rq', Ready(st, current')) /\ st[current'] = "RUNNABLE"
<1> DEFINE back == st[current] = "RUNNABLE" /\ current # Idle
           full == IF back THEN RR_enqueue(q, current) ELSE q
           all == {p \in Proc \ {Idle} : st[p] = "RUNNABLE"}
<1>1. current \in Proc
  BY DEF TypeOK
<1>2. Lists(full, all) /\ full \in Seq(Proc)
  <2>1. CASE back
    <3>1. all = Ready(st, current) \cup {current} /\ current \notin Ready(st, current)
      BY <1>1, <2>1 DEF Ready
    <3>2. Lists(RR_enqueue(q, current), Ready(st, current) \cup {current})
      BY <1>1, <3>1, EnqueueLists
    <3> QED BY <1>1, <2>1, <3>1, <3>2, EnqueueType
  <2>2. CASE ~back
    <3>1. all = Ready(st, current)
      BY <2>2 DEF Ready
    <3> QED BY <2>2, <3>1
  <2> QED BY <2>1, <2>2
<1>3. \/ full = <<>> /\ current' = Idle /\ rq' = full
      \/ full # <<>> /\ current' = Head(full) /\ rq' = Tail(full)
  BY DEF Schedule
<1> HIDE DEF full
<1>4. CASE full = <<>>
  <2>1. current' = Idle /\ rq' = full
    BY <1>3, <1>4
  <2>2. Ready(st, Idle) = all
    BY DEF Ready
  <2> QED BY <1>2, <2>1, <2>2
<1>5. CASE full # <<>>
  <2>1. Head(full) \in all /\ Lists(Tail(full), all \ {Head(full)})
    BY <1>2, <1>5, DequeueLists
  <2>2. Ready(st, Head(full)) = all \ {Head(full)}
    BY DEF Ready
  <2>3. current' = Head(full) /\ rq' = Tail(full)
    BY <1>3, <1>5
  <2> QED BY <2>1, <2>2, <2>3
<1> QED BY <1>4, <1>5

\* wakeup_proc keeps the queue exact.
LEMMA WakeupLists ==
    ASSUME TypeOK, RunQueueExact, NEW p \in Proc, p = Idle => state[p] = "RUNNABLE",
           WakeupProc(p)
    PROVE  Lists(rq', Ready(state', current))
<1>1. Lists(rq, Ready(state, current)) /\ rq \in Seq(Proc)
  BY DEF RunQueueExact, RunnableWaiting, Ready, TypeOK
<1>2. state' = [state EXCEPT ![p] = "RUNNABLE"] /\ state \in [Proc -> States]
  BY DEF WakeupProc, TypeOK
<1>3. CASE Enqueues(p)
  <2>1. p \notin Ready(state, current) /\ p # Idle /\ p # current
    BY <1>3 DEF Enqueues, Ready
  <2>2. Ready(state', current) = Ready(state, current) \cup {p}
    BY <1>2, <2>1 DEF Ready
  <2>3. rq' = RR_enqueue(rq, p)
    BY <1>3 DEF WakeupProc
  <2> QED BY <1>1, <2>1, <2>2, <2>3, EnqueueLists
<1>4. CASE ~Enqueues(p)
  <2>1. Ready(state', current) = Ready(state, current)
    BY <1>2, <1>4 DEF Ready, Enqueues
  <2>2. rq' = rq
    BY <1>4 DEF WakeupProc
  <2> QED BY <1>1, <2>1, <2>2
<1> QED BY <1>3, <1>4

\* do_fork puts its child on the queue; the running process is not that child.
LEMMA DoForkLists ==
    ASSUME RunQueueInv, NEW c \in Users, DoFork(c), pc[current] \in {"user", "boot"}
    PROVE  /\ Lists(rq', Ready(state', current))
           /\ state'[current] = "RUNNABLE" /\ state'[Idle] = "RUNNABLE"
<1>1. Lists(rq, Ready(state, current)) /\ rq \in Seq(Proc) /\ state \in [Proc -> States]
  BY DEF RunQueueInv, RunQueueExact, RunnableWaiting, Ready, TypeOK
<1>2. /\ state[c] = "FREE" /\ state' = [state EXCEPT ![c] = "RUNNABLE"]
      /\ rq' = RR_enqueue(rq, c)
  BY DEF DoFork
<1>3. state[current] = "RUNNABLE" /\ state[Idle] = "RUNNABLE" /\ current \in Proc
  BY DEF RunQueueInv, CurrentRunnable, TypeOK
<1>4. c # current /\ c # Idle /\ c \in Proc
  BY <1>2, <1>3, ConstantsInProc
<1>5. Ready(state', current) = Ready(state, current) \cup {c} /\ c \notin Ready(state, current)
  BY <1>1, <1>2, <1>4 DEF Ready
<1>6. Lists(rq', Ready(state', current))
  <2>1. Lists(RR_enqueue(rq, c), Ready(state, current) \cup {c})
    BY <1>1, <1>4, <1>5, EnqueueLists
  <2> QED BY <1>2, <1>5, <2>1
<1> QED BY <1>1, <1>2, <1>3, <1>4, <1>6, ConstantsInProc

\* do_exit of the current process: its parent and init, if woken, are on the
\* queue once, and the CPU goes to a RUNNABLE process.
LEMMA DoExitLists ==
    ASSUME RunQueueInv, NEW p \in Users, current = p, DoExit(p)
    PROVE  Lists(rq', Ready(state', current')) /\ state'[current'] = "RUNNABLE"
           /\ state'[Idle] = "RUNNABLE"
<1> DEFINE q == parent[p]
           wakeParent == ParentWaits(p)
           wakeInit == /\ wait_state[InitP] = "WT_CHILD" /\ ~(wakeParent /\ q = InitP)
                       /\ OrphanZombie(p)
           woken == {x \in {q} : wakeParent} \cup {x \in {InitP} : wakeInit}
           st == [x \in Proc |-> IF x = p THEN "ZOMBIE"
                                 ELSE IF x \in woken THEN "RUNNABLE" ELSE state[x]]
           rq1 == IF wakeParent /\ Enqueues(q) THEN RR_enqueue(rq, q) ELSE rq
           rq2 == IF wakeInit /\ Enqueues(InitP) THEN RR_enqueue(rq1, InitP) ELSE rq1
           S0 == Ready(state, p)
           S1 == IF wakeParent /\ Enqueues(q) THEN S0 \cup {q} ELSE S0
           S2 == IF wakeInit /\ Enqueues(InitP) THEN S1 \cup {InitP} ELSE S1
<1>1. /\ Lists(rq, S0) /\ rq \in Seq(Proc) /\ state \in [Proc -> States]
      /\ q \in Proc /\ p # Idle /\ p # InitP /\ p \in Proc
      /\ TypeOK /\ state[Idle] = "RUNNABLE" /\ Idle # InitP
      /\ Idle \in Proc /\ InitP \in Proc
  BY ConstantsInProc, ProcAssumption
     DEF RunQueueInv, RunQueueExact, RunnableWaiting, Ready, TypeOK
<1>2. /\ state' = st
      /\ Schedule(rq2, st, RefillSlice(time_slice, woken))
  BY DEF DoExit
<1>3. Lists(rq1, S1) /\ rq1 \in Seq(Proc)
  <2>1. Enqueues(q) => q \notin S0
    BY DEF Enqueues, Ready
  <2>2. wakeParent /\ Enqueues(q) => Lists(RR_enqueue(rq, q), S0 \cup {q})
    BY <1>1, <2>1, EnqueueLists
  <2> QED BY <1>1, <2>2, EnqueueType
<1>4. Lists(rq2, S2) /\ rq2 \in Seq(Proc)
  <2>1. wakeInit /\ Enqueues(InitP) => InitP \notin S1
    BY DEF Enqueues, Ready
  <2> HIDE DEF rq1, S1
  <2>2. wakeInit /\ Enqueues(InitP) => Lists(RR_enqueue(rq1, InitP), S1 \cup {InitP})
    BY <1>1, <1>3, <2>1, EnqueueLists
  <2> QED BY <1>1, <1>3, <2>2, EnqueueType
<1>5. st \in [Proc -> States] /\ st[Idle] = "RUNNABLE"
  BY <1>1 DEF States
<1>6. Ready(st, p) = S2
  BY <1>1 DEF Ready, Enqueues
<1>7. Lists(rq2, Ready(st, current))
  BY <1>4, <1>6
<1> HIDE DEF rq2, st, woken
<1>8. Lists(rq', Ready(st, current')) /\ st[current'] = "RUNNABLE"
  BY <1>1, <1>2, <1>4, <1>5, <1>7, ScheduleLists
<1> QED BY <1>2, <1>5, <1>8

\* The steps that leave the queue, the states and the CPU alone.
LEMMA QueueUntouched ==
    ASSUME RunQueueInv, UNCHANGED <<state, rq, current>>,
           CurrentRunnable => CurrentRunnable'
    PROVE  RunQueueExact' /\ CurrentRunnable' /\ state'[Idle] = "RUNNABLE"
BY DEF RunQueueInv, RunQueueExact, RunnableWaiting, Lists

\* A step that ends in schedule() with nothing woken: the states become st.
LEMMA ScheduledStep ==
    ASSUME RunQueueInv, NEW st \in [Proc -> States], NEW ts, Schedule(rq, st, ts),
           state' = st, \A x \in Proc \ {current} : st[x] = state[x], st[Idle] = "RUNNABLE"
    PROVE  RunQueueExact' /\ CurrentRunnable' /\ state'[Idle] = "RUNNABLE"
<1>1. TypeOK /\ rq \in Seq(Proc) /\ current \in Proc
  BY DEF RunQueueInv, TypeOK
<1>2. Ready(st, current) = RunnableWaiting
  BY DEF Ready, RunnableWaiting
<1>3. Lists(rq, Ready(st, current))
  BY <1>2 DEF RunQueueInv, RunQueueExact
<1>4. Lists(rq', Ready(st, current')) /\ st[current'] = "RUNNABLE"
  BY <1>1, <1>3, ScheduleLists
<1>5. Ready(st, current') = RunnableWaiting'
  BY DEF Ready, RunnableWaiting
<1> QED BY <1>4, <1>5 DEF RunQueueExact, CurrentRunnable

\* do_wait frees a zombie: not the running process, and not one on the queue.
LEMMA ReapStep ==
    ASSUME RunQueueInv, NEW c \in Users, Reap(c), state[c] = "ZOMBIE", pc[current] = "wait",
           rq' = rq, current' = current
    PROVE  RunQueueExact' /\ CurrentRunnable' /\ state'[Idle] = "RUNNABLE"
<1>1. state \in [Proc -> States] /\ state' = [state EXCEPT ![c] = "FREE"] /\ c \in Proc
  BY ConstantsInProc DEF RunQueueInv, TypeOK, Reap
<1>2. state[current] = "RUNNABLE" /\ state[Idle] = "RUNNABLE" /\ current \in Proc
  BY DEF RunQueueInv, CurrentRunnable, TypeOK
<1>3. RunnableWaiting' = RunnableWaiting
  BY <1>1 DEF RunnableWaiting
<1>4. RunQueueExact'
  BY <1>3 DEF RunQueueInv, RunQueueExact, Lists
<1> QED BY <1>1, <1>2, <1>4, ConstantsInProc DEF CurrentRunnable

LEMMA RunQueueStep ==
    ASSUME RunQueueInv, [Next]_vars
    PROVE  RunQueueExact' /\ CurrentRunnable' /\ state'[Idle] = "RUNNABLE"
<1> DEFINE Goal == RunQueueExact' /\ CurrentRunnable' /\ state'[Idle] = "RUNNABLE"
<1> USE ConstantsInProc
<1>0. /\ TypeOK /\ state \in [Proc -> States] /\ state[Idle] = "RUNNABLE"
      /\ current \in Proc /\ Idle \notin Users /\ InitP \notin Users /\ Idle # InitP
  BY ProcAssumption DEF RunQueueInv, TypeOK
<1>1. ASSUME NEW p \in Users, NEW c \in Users, SysFork(p, c) PROVE Goal
  <2>1. DoFork(c) /\ pc[current] = "user" /\ current' = current
    BY <1>1 DEF SysFork, At
  <2> QED BY <2>1, DoForkLists DEF RunQueueExact, RunnableWaiting, Ready, CurrentRunnable
<1>2. ASSUME NEW p \in Users,
             SysReturns(p) \/ SysYield(p) \/ SleepReturns(p) \/ DoWaitFails(p)
               \/ TailReturns(p) \/ (\E w \in Users \cup {Idle} : SysWait(p, w))
      PROVE Goal
  <2>1. /\ UNCHANGED <<state, rq, current>> /\ current = p
      BY <1>2 DEF SysReturns, SysYield, SleepReturns, DoWaitFails, TailReturns, SysWait, At,
                  taskVars, schedVars
  <2>2. CurrentRunnable => CurrentRunnable'
    BY <1>0, <2>1 DEF CurrentRunnable
  <2> QED BY <2>1, <2>2, QueueUntouched
<1>3. ASSUME NEW p \in Users, SysExit(p) \/ DoWaitKilled(p) \/ TailKilled(p) PROVE Goal
  <2>1. DoExit(p) /\ current = p
    BY <1>3 DEF SysExit, DoWaitKilled, TailKilled, At
  <2> QED BY <2>1, DoExitLists DEF RunQueueExact, RunnableWaiting, Ready, CurrentRunnable
<1>4. ASSUME NEW p \in Users, NEW q \in Proc \ {Idle}, SysKill(p, q) PROVE Goal
  <2>1. current = p /\ current' = current /\ state[p] = "RUNNABLE"
    BY <1>0, <1>4 DEF SysKill, At, RunQueueInv, CurrentRunnable
  <2>2. CASE WakeupProc(q)
    <3>1. Lists(rq', Ready(state', current))
      BY <1>0, <2>2, WakeupLists DEF RunQueueInv
    <3>2. state'[p] = "RUNNABLE" /\ state'[Idle] = "RUNNABLE"
      BY <1>0, <2>1, <2>2 DEF WakeupProc
    <3> QED BY <2>1, <3>1, <3>2 DEF RunQueueExact, RunnableWaiting, Ready, CurrentRunnable
  <2>3. CASE UNCHANGED <<state, wait_state, rq, time_slice>>
    <3>1. CurrentRunnable'
      BY <2>1, <2>3 DEF CurrentRunnable
    <3> QED BY <2>1, <2>3, <3>1, QueueUntouched
  <2> QED BY <1>4, <2>2, <2>3 DEF SysKill
<1>5. ASSUME NEW p \in Users,
             (\E t \in 1..MaxSleep : SysSleep(p, t)) \/ DoWaitSleeps(p)
      PROVE Goal
  <2> DEFINE st == [state EXCEPT ![p] = "SLEEPING"]
  <2>1. current = p /\ state' = st /\ Schedule(rq, st, time_slice)
    BY <1>5 DEF SysSleep, DoWaitSleeps, At
  <2>2. /\ st \in [Proc -> States] /\ st[Idle] = "RUNNABLE"
        /\ \A x \in Proc \ {current} : st[x] = state[x]
    BY <1>0, <2>1 DEF States
  <2> HIDE DEF st
  <2> QED BY <2>1, <2>2, ScheduledStep
<1>6. ASSUME NEW p \in Users, NEW c \in Users, DoWaitReaps(p, c) PROVE Goal
  BY <1>6, ReapStep DEF DoWaitReaps, WaitFound, At
<1>7. ASSUME NEW p \in Proc, DoWaitRepeats(p) PROVE Goal
  <2>1. /\ UNCHANGED <<state, rq, current>> /\ current = p /\ pc[p] = "woken"
      BY <1>7 DEF DoWaitRepeats, At, taskVars, schedVars
  <2>2. CurrentRunnable => CurrentRunnable'
    BY <1>0, <2>1 DEF CurrentRunnable
  <2> QED BY <2>1, <2>2, QueueUntouched
<1>8. ASSUME (\E p \in Users : TailReschedules(p)) \/ CpuIdle \/ InitBlocks \/ InitYields
      PROVE Goal
  <2>1. Schedule(rq, state, time_slice) /\ state' = state
    BY <1>8 DEF TailReschedules, CpuIdle, InitBlocks, InitYields, taskVars
  <2> QED BY <1>0, <2>1, ScheduledStep
<1>9. ASSUME NEW c \in Users, InitMain(c) PROVE Goal
  <2>1. DoFork(c) /\ pc[current] = "boot" /\ current' = current
    BY <1>9 DEF InitMain, At
  <2> QED BY <2>1, DoForkLists DEF RunQueueExact, RunnableWaiting, Ready, CurrentRunnable
<1>10. ASSUME InitMainFails \/ InitFinishes \/ InitKilled \/ UNCHANGED vars PROVE Goal
  <2>1. UNCHANGED <<state, rq, current, pc>>
    BY <1>10 DEF InitMainFails, InitFinishes, InitKilled, vars, taskVars, schedVars, ctlVars
  <2> QED BY <2>1, QueueUntouched DEF CurrentRunnable
<1>11. ASSUME NEW c \in Users, InitReaps(c) PROVE Goal
  BY <1>11, ReapStep DEF InitReaps, WaitFound, At
<1>12. CASE InitHasKid \/ InitFlags
  <2>1. /\ UNCHANGED <<state, rq, current>> /\ current = InitP
        /\ (pc[InitP] = "wait" \/ pc'[InitP] = "block")
    BY <1>0, <1>12 DEF InitHasKid, InitFlags, At, Trapped, taskVars, schedVars, TypeOK
  <2>2. CurrentRunnable => CurrentRunnable'
    BY <2>1 DEF CurrentRunnable
  <2> QED BY <2>1, <2>2, QueueUntouched
<1>13. CASE InitMarks
  <2>1. /\ UNCHANGED <<rq, current>> /\ current = InitP /\ pc'[InitP] = "flag"
        /\ state' = [state EXCEPT ![InitP] = "SLEEPING"]
    BY <1>0, <1>13 DEF InitMarks, At, Trapped, schedVars, TypeOK
  <2>2. RunnableWaiting' = RunnableWaiting
    BY <1>0, <2>1 DEF RunnableWaiting
  <2>3. RunQueueExact'
    BY <2>1, <2>2 DEF RunQueueInv, RunQueueExact, Lists
  <2> QED BY <1>0, <2>1, <2>3 DEF CurrentRunnable
<1>14. CASE TimerIrq
  <2>1. UNCHANGED <<state, rq, current, pc>>
    BY <1>14 DEF TimerIrq, taskVars, ctlVars
  <2> QED BY <2>1, QueueUntouched DEF CurrentRunnable
<1>15. ASSUME NEW p \in Proc, RunTimer(p) PROVE Goal
  <2>1. Lists(rq', Ready(state', current))
    BY <1>0, <1>15, WakeupLists DEF RunTimer, RunQueueInv
  <2>2. /\ UNCHANGED <<current, pc>> /\ state' = [state EXCEPT ![p] = "RUNNABLE"]
    BY <1>15 DEF RunTimer, WakeupProc, ctlVars
  <2>3. CurrentRunnable' /\ state'[Idle] = "RUNNABLE"
    BY <1>0, <2>2 DEF RunQueueInv, CurrentRunnable
  <2> QED BY <2>1, <2>2, <2>3 DEF RunQueueExact, RunnableWaiting, Ready
<1>16. CASE RunTimerDone
  <2>1. UNCHANGED <<state, rq, current>> /\ (current = InitP => pc' = pc)
    BY <1>0, <1>16 DEF RunTimerDone, taskVars, InKernel, TypeOK
  <2>2. CurrentRunnable => CurrentRunnable'
    BY <2>1 DEF CurrentRunnable
  <2> QED BY <2>1, <2>2, QueueUntouched
<1> QED
  BY <1>1, <1>2, <1>3, <1>4, <1>5, <1>6, <1>7, <1>8, <1>9, <1>10, <1>11, <1>12, <1>13,
     <1>14, <1>15, <1>16
  DEF Next, SysCall, KernelPath, InitThread, TimerTrap, Halted

LEMMA RunQueueInvariant == Spec => []RunQueueInv
<1>1. Init => TypeOK
  BY ProcAssumption, ConstantsInProc DEF Init, TypeOK, States, WaitStates, PCs
<1>2. Init => RunQueueInv
  <2> SUFFICES ASSUME Init PROVE RunQueueInv
    OBVIOUS
  <2>1. RunnableWaiting = {InitP}
    <3>1. /\ current = Idle /\ Idle # InitP /\ InitP \in Proc
          /\ \A p \in Proc : p \in Users \/ p = Idle \/ p = InitP
          /\ InitP \notin Users
      BY ProcAssumption DEF Init, Proc
    <3>2. \A p \in Proc : state[p] = IF p \in Users THEN "FREE" ELSE "RUNNABLE"
      BY DEF Init
    <3> QED BY <3>1, <3>2 DEF RunnableWaiting
  <2>2. DOMAIN <<InitP>> = {1} /\ <<InitP>>[1] = InitP
    OBVIOUS
  <2>3. RunQueueExact
    BY <2>1, <2>2 DEF Init, RunQueueExact, Lists
  <2> QED BY <1>1, <2>3, ProcAssumption, ConstantsInProc DEF RunQueueInv, CurrentRunnable, Init
<1>3. TypeOK /\ RunQueueInv /\ TypeOK' /\ [Next]_vars => RunQueueInv'
  BY RunQueueStep DEF RunQueueInv
<1> QED BY <1>2, <1>3, TypeCorrect, PTL DEF Spec

\* Whatever order of forks, exits, kills, sleeps, wake-ups and interrupts: the run
\* queue holds each waiting RUNNABLE process exactly once, so the assertions of
\* RR_enqueue and RR_dequeue hold and no process is lost to the scheduler.
THEOREM RunQueueCorrect == Spec => []RunQueueExact
<1>1. RunQueueInv => RunQueueExact
  BY DEF RunQueueInv
<1> QED BY <1>1, RunQueueInvariant, PTL

-----------------------------------------------------------------------------
(* Sleepers and timers.  SleepHasReason and TimerInSleep say how state,         *)
(* wait_state and the timers go together; what keeps them so is where each      *)
(* process is.  LifeInv lists the stages of a user process and of init, says    *)
(* that init cannot lose the CPU between the stores of its do_wait, and that a  *)
(* tick finds no user process inside a system call.                             *)

Timed(p) == timer[p] > 0 \/ p \in due

UserLife(u) ==
    \/ state[u] \in {"FREE", "ZOMBIE"} /\ wait_state[u] = "none" /\ ~Timed(u)
    \/ state[u] = "RUNNABLE" /\ wait_state[u] = "none" /\ (Timed(u) => pc[u] = "sleep")
    \/ state[u] = "SLEEPING" /\ wait_state[u] = "WT_TIMER" /\ pc[u] = "sleep"
    \/ state[u] = "SLEEPING" /\ wait_state[u] = "WT_CHILD" /\ pc[u] = "woken" /\ ~Timed(u)

InitLife ==
    \/ /\ pc[InitP] \in {"boot", "wait", "mark", "loop", "woken"}
       /\ state[InitP] = "RUNNABLE" /\ wait_state[InitP] = "none"
    \/ pc[InitP] = "flag" /\ state[InitP] = "SLEEPING" /\ wait_state[InitP] = "none"
    \/ /\ pc[InitP] \in {"block", "woken"}
       /\ state[InitP] = "SLEEPING" /\ wait_state[InitP] = "WT_CHILD"

InitKeepsCpu == pc[InitP] \in {"mark", "flag", "block"} => current = InitP

IrqLife ==
    /\ irq = "none" => due = {}
    /\ irq = "timers" /\ current \in Users => pc[current] = "user"

LifeInv ==
    /\ \A u \in Users : UserLife(u)
    /\ InitLife /\ ~Timed(InitP)
    /\ wait_state[Idle] = "none" /\ ~Timed(Idle)
    /\ InitKeepsCpu
    /\ IrqLife

\* The stage of p is the same when nothing of it changes.
LEMMA SameLife ==
    ASSUME NEW u \in Users, UserLife(u), state'[u] = state[u], wait_state'[u] = wait_state[u],
           Timed(u)' => Timed(u), pc'[u] = pc[u]
    PROVE  UserLife(u)'
BY DEF UserLife

\* A user process that has the CPU and is not returning from do_sleep.
LEMMA RunningUser ==
    ASSUME RunQueueInv, LifeInv, NEW p \in Users, current = p
    PROVE  /\ state[p] = "RUNNABLE" /\ wait_state[p] = "none"
           /\ pc[p] # "sleep" => ~Timed(p)
           /\ pc[InitP] \notin {"mark", "flag", "block"}
           /\ p # InitP /\ p # Idle /\ p \in Proc
<1>1. p # InitP /\ p # Idle /\ p \in Proc
  BY ProcAssumption, ConstantsInProc
<1>2. state[p] = "RUNNABLE"
  BY <1>1 DEF RunQueueInv, CurrentRunnable
<1>3. wait_state[p] = "none" /\ (pc[p] # "sleep" => ~Timed(p))
  BY <1>2 DEF LifeInv, UserLife
<1> QED BY <1>1, <1>2, <1>3 DEF LifeInv, InitKeepsCpu

\* Only a sleeping process has a wait_state, and it is not the current one.
LEMMA Waiting ==
    ASSUME RunQueueInv, LifeInv, NEW q \in Proc, wait_state[q] # "none"
    PROVE  /\ state[q] = "SLEEPING" /\ q # Idle
           /\ q \in Users => q # current
           /\ q = InitP => pc[q] \in {"block", "woken"}
<1>1. q \in Users \/ q = InitP \/ q = Idle
  BY DEF Proc
<1>2. q # Idle
  BY DEF LifeInv
<1>3. q \in Users => state[q] = "SLEEPING"
  BY DEF LifeInv, UserLife
<1>4. q = InitP => state[q] = "SLEEPING" /\ pc[q] \in {"block", "woken"}
  BY DEF LifeInv, InitLife
<1>5. q \in Users => q # InitP
  BY ProcAssumption
<1> QED BY <1>1, <1>2, <1>3, <1>4, <1>5 DEF RunQueueInv, CurrentRunnable

\* wakeup_proc of a process that is asleep or RUNNABLE.
LEMMA WakeupLife ==
    ASSUME RunQueueInv, LifeInv, NEW q \in Proc, WakeupProc(q),
           wait_state[q] # "none" \/ (q \in due /\ q \in Users)
    PROVE  /\ state'[q] = "RUNNABLE" /\ wait_state'[q] = "none"
           /\ state[q] \in {"SLEEPING", "RUNNABLE"}
           /\ \A x \in Proc \ {q} : state'[x] = state[x] /\ wait_state'[x] = wait_state[x]
<1>1. state \in [Proc -> States] /\ wait_state \in [Proc -> WaitStates]
  BY DEF RunQueueInv, TypeOK
<1>2. CASE wait_state[q] # "none"
  BY <1>1, <1>2, Waiting DEF WakeupProc
<1>3. CASE q \in due /\ q \in Users
  <2>1. state[q] \in {"SLEEPING", "RUNNABLE"} /\ (state[q] = "RUNNABLE" => wait_state[q] = "none")
    BY <1>3 DEF LifeInv, UserLife, Timed
  <2> QED BY <1>1, <2>1 DEF WakeupProc
<1> QED BY <1>2, <1>3

\* do_exit on the states: the process is a zombie, and those it wakes waited for
\* a child.
LEMMA DoExitLife ==
    ASSUME RunQueueInv, LifeInv, NEW p \in Users, current = p, DoExit(p)
    PROVE  /\ state'[p] = "ZOMBIE" /\ wait_state'[p] = "none"
           /\ \A x \in Proc \ {p} :
                 \/ state'[x] = state[x] /\ wait_state'[x] = wait_state[x]
                 \/ /\ wait_state[x] = "WT_CHILD" /\ state[x] = "SLEEPING"
                    /\ state'[x] = "RUNNABLE" /\ wait_state'[x] = "none"
           /\ wait_state[parent[p]] = "WT_CHILD" => wait_state'[parent[p]] = "none"
           /\ wait_state[InitP] = "WT_CHILD" /\ OrphanZombie(p) => wait_state'[InitP] = "none"
           /\ parent' = Inherited(p)
           /\ UNCHANGED <<exiting, nr_process, timeVars, ctlVars>>
<1> DEFINE q == parent[p]
           wakeParent == ParentWaits(p)
           wakeInit == /\ wait_state[InitP] = "WT_CHILD" /\ ~(wakeParent /\ q = InitP)
                       /\ OrphanZombie(p)
           woken == {x \in {q} : wakeParent} \cup {x \in {InitP} : wakeInit}
<1>1. /\ \A x \in Proc : state'[x] = IF x = p THEN "ZOMBIE"
                                     ELSE IF x \in woken THEN "RUNNABLE" ELSE state[x]
      /\ \A x \in Proc : wait_state'[x] = IF x \in woken THEN "none" ELSE wait_state[x]
      /\ parent' = Inherited(p)
      /\ UNCHANGED <<exiting, nr_process, timeVars, ctlVars>>
  BY DEF DoExit
<1>2. \A x \in woken : wait_state[x] = "WT_CHILD"
  BY DEF ParentWaits
<1>3. p \in Proc /\ wait_state[p] = "none" /\ q \in Proc /\ InitP \in Proc
  BY RunningUser, ConstantsInProc DEF RunQueueInv, TypeOK
<1>4. wait_state[q] = "WT_CHILD" => q \in woken
  BY DEF ParentWaits
<1>5. wait_state[InitP] = "WT_CHILD" /\ OrphanZombie(p) => InitP \in woken
  BY DEF ParentWaits
<1> HIDE DEF woken, q
<1>6. \A x \in Proc : wait_state[x] = "WT_CHILD" => state[x] = "SLEEPING"
  BY Waiting
<1> QED BY <1>1, <1>2, <1>3, <1>4, <1>5, <1>6 DEF q

\* A step of the running user process p that ends in schedule() or leaves the CPU
\* alone: what is left to show is p's own stage.
LEMMA OwnStep ==
    ASSUME RunQueueInv, LifeInv, NEW p \in Users, current = p, irq = "none",
           \A x \in Proc \ {p} : /\ state'[x] = state[x] /\ wait_state'[x] = wait_state[x]
                                 /\ pc'[x] = pc[x] /\ timer'[x] = timer[x],
           irq' = irq, due' = due, UserLife(p)'
    PROVE  LifeInv'
<1>1. \A x \in Proc \ {p} : Timed(x)' => Timed(x)
  BY DEF Timed
<1>2. \A u \in Users : UserLife(u)'
  <2> SUFFICES ASSUME NEW u \in Users, u # p PROVE UserLife(u)'
    OBVIOUS
  <2> QED BY <1>1, SameLife, ConstantsInProc DEF LifeInv
<1>3. InitP \in Proc \ {p} /\ Idle \in Proc \ {p}
  BY ProcAssumption, ConstantsInProc
<1>4. InitLife' /\ ~Timed(InitP)' /\ ~Timed(Idle)' /\ wait_state'[Idle] = "none"
  BY <1>1, <1>3 DEF LifeInv, InitLife
<1>5. InitKeepsCpu' /\ IrqLife'
  BY <1>3, RunningUser DEF LifeInv, InitKeepsCpu, IrqLife
<1> QED BY <1>2, <1>4, <1>5 DEF LifeInv

\* do_fork gives its child c a first stage; the rest is as it was.
LEMMA ForkLife ==
    ASSUME RunQueueInv, LifeInv, NEW c \in Users, state[c] = "FREE",
           state' = [state EXCEPT ![c] = "RUNNABLE"],
           UNCHANGED <<wait_state, timer, due>>
    PROVE  UserLife(c)'
<1>1. state'[c] = "RUNNABLE"
  BY ConstantsInProc DEF RunQueueInv, TypeOK
<1>2. UserLife(c)
  BY DEF LifeInv
<1> QED BY <1>1, <1>2 DEF UserLife, Timed

LEMMA LifeStep ==
    ASSUME RunQueueInv, LifeInv, [Next]_vars
    PROVE  LifeInv'
<1> USE ConstantsInProc
<1>0. /\ state \in [Proc -> States] /\ wait_state \in [Proc -> WaitStates]
      /\ timer \in [Proc -> 0..MaxSleep] /\ pc \in [Proc -> PCs] /\ current \in Proc
      /\ Idle \notin Users /\ InitP \notin Users /\ Idle # InitP
  BY ProcAssumption DEF RunQueueInv, TypeOK
<1>1. ASSUME NEW p \in Users, NEW c \in Users, SysFork(p, c) PROVE LifeInv'
  <2>1. /\ current = p /\ pc[p] = "user" /\ irq = "none" /\ state[c] = "FREE"
        /\ state' = [state EXCEPT ![c] = "RUNNABLE"]
        /\ UNCHANGED <<wait_state, timer, due, irq, current>>
        /\ pc' = [pc EXCEPT ![p] = "tail", ![c] = "user"]
    BY <1>1 DEF SysFork, DoFork, At, timeVars
  <2>2. UserLife(c)'
    BY <2>1, ForkLife
  <2>3. state[p] = "RUNNABLE" /\ wait_state[p] = "none" /\ ~Timed(p) /\ p # c
    BY <2>1, RunningUser
  <2>4. UserLife(p)'
    BY <1>0, <2>1, <2>3 DEF UserLife, Timed
  <2>5. ASSUME NEW u \in Users, u # p, u # c PROVE UserLife(u)'
    <3>1. state'[u] = state[u] /\ pc'[u] = pc[u]
      BY <1>0, <2>1, <2>5
    <3> QED BY <2>1, <3>1, SameLife DEF LifeInv, Timed
  <2>6. state'[InitP] = state[InitP] /\ pc'[InitP] = pc[InitP]
    BY <1>0, <2>1
  <2> QED BY <1>0, <2>1, <2>2, <2>4, <2>5, <2>6
          DEF LifeInv, InitLife, InitKeepsCpu, IrqLife, Timed
<1>2. ASSUME NEW p \in Users,
             SysReturns(p) \/ SysYield(p) \/ SleepReturns(p) \/ DoWaitFails(p)
               \/ TailReturns(p) \/ TailReschedules(p) \/ DoWaitRepeats(p)
               \/ (\E w \in Users \cup {Idle} : SysWait(p, w))
      PROVE LifeInv'
  <2>1. /\ current = p /\ irq = "none" /\ UNCHANGED <<state, wait_state, due, irq>>
        /\ pc[p] # "sleep" \/ timer' = [timer EXCEPT ![p] = 0]
        /\ timer' = timer \/ timer' = [timer EXCEPT ![p] = 0]
        /\ \E l \in PCs : pc' = [pc EXCEPT ![p] = l]
    BY <1>2 DEF SysReturns, SysYield, SleepReturns, DoWaitFails, TailReturns, TailReschedules,
                DoWaitRepeats, SysWait, At, Trapped, PCs, taskVars, timeVars
  <2>2. \A x \in Proc \ {p} : pc'[x] = pc[x] /\ timer'[x] = timer[x]
    BY <1>0, <2>1
  <2>3. state[p] = "RUNNABLE" /\ wait_state[p] = "none" /\ (pc[p] # "sleep" => ~Timed(p))
    BY <2>1, RunningUser
  <2>4. due' = {}
    BY <2>1 DEF LifeInv, IrqLife
  <2>5. ~Timed(p)'
    <3>1. CASE pc[p] # "sleep"
      BY <1>0, <2>1, <2>3, <2>4, <3>1 DEF Timed
    <3>2. CASE timer' = [timer EXCEPT ![p] = 0]
      BY <1>0, <2>4, <3>2 DEF Timed
    <3> QED BY <2>1, <3>1, <3>2
  <2>6. UserLife(p)'
    BY <2>1, <2>3, <2>5 DEF UserLife
  <2> QED BY <2>1, <2>2, <2>6, OwnStep
<1>3. ASSUME NEW p \in Users, SysExit(p) \/ DoWaitKilled(p) \/ TailKilled(p) PROVE LifeInv'
  <2>1. DoExit(p) /\ current = p /\ irq = "none" /\ pc[p] # "sleep"
    BY <1>3 DEF SysExit, DoWaitKilled, TailKilled, At
  <2>2. /\ state'[p] = "ZOMBIE" /\ wait_state'[p] = "none"
        /\ \A x \in Proc \ {p} :
                 \/ state'[x] = state[x] /\ wait_state'[x] = wait_state[x]
                 \/ /\ wait_state[x] = "WT_CHILD" /\ state[x] = "SLEEPING"
                    /\ state'[x] = "RUNNABLE" /\ wait_state'[x] = "none"
        /\ UNCHANGED <<timer, due, irq, pc>>
    BY <2>1, DoExitLife DEF timeVars, ctlVars
  <2>3. \A x \in Proc : Timed(x)' = Timed(x)
    BY <2>2 DEF Timed
  <2>4. ~Timed(p) /\ p # InitP /\ p # Idle /\ pc[InitP] \notin {"mark", "flag", "block"}
    BY <2>1, RunningUser
  <2>5. UserLife(p)'
    BY <2>2, <2>3, <2>4 DEF UserLife
  <2>6. ASSUME NEW u \in Users, u # p PROVE UserLife(u)'
    BY <2>2, <2>3, <2>6 DEF LifeInv, UserLife
  <2>7. InitLife'
    BY <2>2, <2>4 DEF LifeInv, InitLife
  <2>8. wait_state'[Idle] = "none"
    BY <2>2, <2>4 DEF LifeInv
  <2> QED BY <2>1, <2>2, <2>3, <2>4, <2>5, <2>6, <2>7, <2>8 DEF LifeInv, InitKeepsCpu, IrqLife
<1>4. ASSUME NEW p \in Users, NEW q \in Proc \ {Idle}, SysKill(p, q) PROVE LifeInv'
  <2>1. /\ current = p /\ pc[p] = "user" /\ irq = "none"
        /\ UNCHANGED <<timer, due, irq, current>> /\ pc' = [pc EXCEPT ![p] = "tail"]
    BY <1>4 DEF SysKill, At, Trapped, timeVars
  <2>2. /\ state[p] = "RUNNABLE" /\ wait_state[p] = "none" /\ ~Timed(p) /\ p \in Proc
        /\ pc[InitP] \notin {"mark", "flag", "block"}
    BY <2>1, RunningUser
  <2>3. CASE WakeupProc(q) /\ wait_state[q] # "none"
    <3>1. /\ state'[q] = "RUNNABLE" /\ wait_state'[q] = "none" /\ state[q] = "SLEEPING"
          /\ \A x \in Proc \ {q} : state'[x] = state[x] /\ wait_state'[x] = wait_state[x]
      BY <2>3, WakeupLife, Waiting
    <3>2. \A x \in Proc : (Timed(x)' = Timed(x)) /\ (x # p => pc'[x] = pc[x])
      BY <1>0, <2>1 DEF Timed
    <3>3. ASSUME NEW u \in Users PROVE UserLife(u)'
      <4>1. CASE u = q
        BY <2>2, <3>1, <3>2, <4>1 DEF LifeInv, UserLife
      <4>2. CASE u # q /\ u # p
        BY <3>1, <3>2, <4>2, SameLife DEF LifeInv
      <4>3. CASE u = p /\ u # q
        BY <2>2, <3>1, <3>2, <4>3 DEF UserLife
      <4> QED BY <4>1, <4>2, <4>3
    <3>4. InitLife'
      <4>1. pc'[InitP] = pc[InitP]
        BY <1>0, <3>2
      <4> QED BY <2>2, <3>1, <4>1 DEF LifeInv, InitLife
    <3>5. wait_state'[Idle] = "none"
      BY <1>4, <3>1 DEF LifeInv
    <3> QED BY <1>0, <2>1, <2>2, <3>2, <3>3, <3>4, <3>5 DEF LifeInv, InitKeepsCpu, IrqLife
  <2>4. CASE UNCHANGED <<state, wait_state, rq, time_slice>>
    <3>1. UserLife(p)'
      BY <2>1, <2>2, <2>4 DEF UserLife, Timed
    <3>2. \A x \in Proc \ {p} : pc'[x] = pc[x]
      BY <1>0, <2>1
    <3> QED BY <2>1, <2>4, <3>1, <3>2, OwnStep
  <2> QED BY <1>4, <2>3, <2>4 DEF SysKill, Interruptible
<1>5. ASSUME NEW p \in Users, NEW t \in 1..MaxSleep, SysSleep(p, t) PROVE LifeInv'
  <2>1. /\ current = p /\ irq = "none" /\ UNCHANGED <<due, irq>>
        /\ state' = [state EXCEPT ![p] = "SLEEPING"] /\ timer' = [timer EXCEPT ![p] = t]
        /\ wait_state' = [wait_state EXCEPT ![p] = "WT_TIMER"] /\ pc' = [pc EXCEPT ![p] = "sleep"]
    BY <1>5 DEF SysSleep, At, Trapped
  <2>2. UserLife(p)'
    BY <1>0, <2>1 DEF UserLife
  <2>3. \A x \in Proc \ {p} : /\ state'[x] = state[x] /\ wait_state'[x] = wait_state[x]
                              /\ pc'[x] = pc[x] /\ timer'[x] = timer[x]
    BY <1>0, <2>1
  <2> QED BY <2>1, <2>2, <2>3, OwnStep
<1>6. ASSUME NEW p \in Users, DoWaitSleeps(p) PROVE LifeInv'
  <2>1. /\ current = p /\ irq = "none" /\ pc[p] = "wait" /\ UNCHANGED <<timer, due, irq>>
        /\ state' = [state EXCEPT ![p] = "SLEEPING"]
        /\ wait_state' = [wait_state EXCEPT ![p] = "WT_CHILD"] /\ pc' = [pc EXCEPT ![p] = "woken"]
    BY <1>6 DEF DoWaitSleeps, At, Trapped, timeVars
  <2>2. ~Timed(p)'
    BY <2>1, RunningUser DEF Timed
  <2>3. UserLife(p)'
    BY <1>0, <2>1, <2>2 DEF UserLife
  <2>4. \A x \in Proc \ {p} : /\ state'[x] = state[x] /\ wait_state'[x] = wait_state[x]
                              /\ pc'[x] = pc[x]
    BY <1>0, <2>1
  <2> QED BY <2>1, <2>3, <2>4, OwnStep
<1>7. ASSUME NEW p \in Users, NEW c \in Users, DoWaitReaps(p, c) PROVE LifeInv'
  <2>1. /\ current = p /\ irq = "none" /\ pc[p] = "wait" /\ state[c] = "ZOMBIE"
        /\ state' = [state EXCEPT ![c] = "FREE"]
        /\ UNCHANGED <<wait_state, timer, due, irq, current>>
        /\ pc' = [pc EXCEPT ![p] = "tail", ![c] = "none"]
    BY <1>7 DEF DoWaitReaps, WaitFound, Reap, At, timeVars
  <2>2. state[p] = "RUNNABLE" /\ wait_state[p] = "none" /\ ~Timed(p) /\ p # c
    BY <2>1, RunningUser
  <2>3. \A x \in Proc : Timed(x)' = Timed(x)
    BY <2>1 DEF Timed
  <2>4. UserLife(p)'
    BY <1>0, <2>1, <2>2, <2>3 DEF UserLife
  <2>5. UserLife(c)'
    <3>1. state'[c] = "FREE" /\ UserLife(c)
      BY <1>0, <2>1 DEF LifeInv
    <3> QED BY <2>1, <2>3, <3>1 DEF UserLife
  <2>6. ASSUME NEW u \in Users, u # p, u # c PROVE UserLife(u)'
    <3>1. state'[u] = state[u] /\ pc'[u] = pc[u]
      BY <1>0, <2>1, <2>6
    <3> QED BY <2>1, <2>3, <3>1, SameLife DEF LifeInv
  <2>7. state'[InitP] = state[InitP] /\ pc'[InitP] = pc[InitP]
    BY <1>0, <2>1
  <2> QED BY <1>0, <2>1, <2>3, <2>4, <2>5, <2>6, <2>7
          DEF LifeInv, InitLife, InitKeepsCpu, IrqLife
<1>8. CASE CpuIdle
  <2>1. current = Idle /\ irq = "none" /\ UNCHANGED <<state, wait_state, timer, due, irq, pc>>
    BY <1>8 DEF CpuIdle, taskVars, timeVars, ctlVars
  <2>2. pc[InitP] \notin {"mark", "flag", "block"}
    BY <1>0, <2>1 DEF LifeInv, InitKeepsCpu
  <2> QED BY <2>1, <2>2 DEF LifeInv, UserLife, InitLife, InitKeepsCpu, IrqLife, Timed
<1>9. ASSUME NEW c \in Users, InitMain(c) PROVE LifeInv'
  <2>1. /\ current = InitP /\ pc[InitP] = "boot" /\ irq = "none" /\ state[c] = "FREE"
        /\ state' = [state EXCEPT ![c] = "RUNNABLE"]
        /\ UNCHANGED <<wait_state, timer, due, irq, current>>
        /\ pc' = [pc EXCEPT ![InitP] = "wait", ![c] = "user"]
    BY <1>9 DEF InitMain, DoFork, At, timeVars
  <2>2. UserLife(c)'
    BY <2>1, ForkLife
  <2>3. ASSUME NEW u \in Users, u # c PROVE UserLife(u)'
    <3>1. state'[u] = state[u] /\ pc'[u] = pc[u]
      BY <1>0, <2>1, <2>3
    <3> QED BY <2>1, <3>1, SameLife DEF LifeInv, Timed
  <2>4. state'[InitP] = state[InitP] /\ pc'[InitP] = "wait"
    BY <1>0, <2>1
  <2> QED BY <1>0, <2>1, <2>2, <2>3, <2>4
          DEF LifeInv, InitLife, InitKeepsCpu, IrqLife, Timed
<1>10. CASE InitMainFails \/ InitFinishes \/ InitKilled \/ UNCHANGED vars
  <2>1. UNCHANGED <<state, wait_state, timer, due, irq, pc, current>>
    BY <1>10 DEF InitMainFails, InitFinishes, InitKilled, vars, taskVars, schedVars, timeVars,
                 ctlVars
  <2> QED BY <2>1 DEF LifeInv, UserLife, InitLife, InitKeepsCpu, IrqLife, Timed
<1>11. ASSUME NEW c \in Users, InitReaps(c) PROVE LifeInv'
  <2>1. /\ current = InitP /\ irq = "none" /\ pc[InitP] = "wait" /\ state[c] = "ZOMBIE"
        /\ state' = [state EXCEPT ![c] = "FREE"]
        /\ UNCHANGED <<wait_state, timer, due, irq, current>>
        /\ pc' = [pc EXCEPT ![InitP] = "loop", ![c] = "none"]
    BY <1>11 DEF InitReaps, WaitFound, Reap, At, timeVars
  <2>2. \A x \in Proc : Timed(x)' = Timed(x)
    BY <2>1 DEF Timed
  <2>3. UserLife(c)'
    <3>1. state'[c] = "FREE" /\ UserLife(c)
      BY <1>0, <2>1 DEF LifeInv
    <3> QED BY <2>1, <2>2, <3>1 DEF UserLife
  <2>4. ASSUME NEW u \in Users, u # c PROVE UserLife(u)'
    <3>1. state'[u] = state[u] /\ pc'[u] = pc[u]
      BY <1>0, <2>1, <2>4
    <3> QED BY <2>1, <2>2, <3>1, SameLife DEF LifeInv
  <2>5. state'[InitP] = state[InitP] /\ pc'[InitP] = "loop"
    BY <1>0, <2>1
  <2> QED BY <1>0, <2>1, <2>2, <2>3, <2>4, <2>5
          DEF LifeInv, InitLife, InitKeepsCpu, IrqLife
<1>12. CASE InitHasKid \/ InitMarks \/ InitFlags \/ InitBlocks \/ InitYields \/ DoWaitRepeats(InitP)
  <2>1. /\ current = InitP /\ irq = "none" /\ UNCHANGED <<timer, due, irq>>
        /\ \A u \in Users \cup {Idle} : /\ state'[u] = state[u] /\ pc'[u] = pc[u]
                                        /\ wait_state'[u] = wait_state[u]
    BY <1>0, <1>12 DEF InitHasKid, InitMarks, InitFlags, InitBlocks, InitYields, DoWaitRepeats,
                       At, Trapped, taskVars, timeVars
  <2>2. ASSUME NEW u \in Users PROVE UserLife(u)'
    BY <2>1, SameLife DEF LifeInv, Timed
  <2>3. InitLife' /\ InitKeepsCpu'
    <3>1. CASE InitHasKid
      <4>1. pc[InitP] = "wait" /\ pc'[InitP] = "mark" /\ UNCHANGED <<state, wait_state, current>>
        BY <1>0, <3>1 DEF InitHasKid, At, Trapped, taskVars, schedVars
      <4> QED BY <2>1, <4>1 DEF LifeInv, InitLife, InitKeepsCpu
    <3>2. CASE InitMarks
      <4>1. /\ pc[InitP] = "mark" /\ pc'[InitP] = "flag" /\ state'[InitP] = "SLEEPING"
            /\ UNCHANGED <<wait_state, current>>
        BY <1>0, <3>2 DEF InitMarks, At, Trapped, schedVars
      <4> QED BY <2>1, <4>1 DEF LifeInv, InitLife, InitKeepsCpu
    <3>3. CASE InitFlags
      <4>1. /\ pc[InitP] = "flag" /\ pc'[InitP] = "block" /\ wait_state'[InitP] = "WT_CHILD"
            /\ UNCHANGED <<state, current>>
        BY <1>0, <3>3 DEF InitFlags, At, Trapped, schedVars
      <4> QED BY <2>1, <4>1 DEF LifeInv, InitLife, InitKeepsCpu
    <3>4. CASE InitBlocks
      <4>1. pc[InitP] = "block" /\ pc'[InitP] = "woken" /\ UNCHANGED <<state, wait_state>>
        BY <1>0, <3>4 DEF InitBlocks, At, Trapped, taskVars
      <4> QED BY <4>1 DEF LifeInv, InitLife, InitKeepsCpu
    <3>5. CASE InitYields
      <4>1. pc[InitP] = "loop" /\ pc'[InitP] = "wait" /\ UNCHANGED <<state, wait_state>>
        BY <1>0, <3>5 DEF InitYields, At, Trapped, taskVars
      <4> QED BY <4>1 DEF LifeInv, InitLife, InitKeepsCpu
    <3>6. CASE DoWaitRepeats(InitP)
      <4>1. pc[InitP] = "woken" /\ pc'[InitP] = "wait" /\ UNCHANGED <<state, wait_state, current>>
        BY <1>0, <3>6 DEF DoWaitRepeats, At, Trapped, taskVars, schedVars
      <4>2. state[InitP] = "RUNNABLE"
        BY <2>1, <4>1 DEF RunQueueInv, CurrentRunnable
      <4> QED BY <4>1, <4>2 DEF LifeInv, InitLife, InitKeepsCpu
    <3> QED BY <1>12, <3>1, <3>2, <3>3, <3>4, <3>5, <3>6
  <2> QED BY <1>0, <2>1, <2>2, <2>3 DEF LifeInv, IrqLife, Timed
<1>13. CASE TimerIrq
  <2>1. /\ UNCHANGED <<state, wait_state, current, pc>> /\ irq' = "timers" /\ irq = "none"
        /\ timer' = [p \in Proc |-> IF timer[p] > 0 THEN timer[p] - 1 ELSE 0]
        /\ due' = {p \in Proc : timer[p] = 1}
        /\ InKernel(current) \/ pc[current] = "user"
    BY <1>13 DEF TimerIrq, IntrEnabled, Expired, taskVars, ctlVars
  <2>2. \A x \in Proc : Timed(x)' => Timed(x)
    BY <1>0, <2>1 DEF Timed
  <2>3. \A u \in Users : UserLife(u)'
    BY <2>1, <2>2, SameLife DEF LifeInv
  <2>4. IrqLife'
    BY <1>0, <2>1 DEF IrqLife, InKernel
  <2> QED BY <2>1, <2>2, <2>3, <2>4 DEF LifeInv, InitLife, InitKeepsCpu
<1>14. ASSUME NEW p \in Proc, RunTimer(p) PROVE LifeInv'
  <2>1. /\ p \in due /\ WakeupProc(p) /\ due' = due \ {p} /\ irq = "timers"
        /\ UNCHANGED <<current, timer, irq, pc>>
    BY <1>14 DEF RunTimer, ctlVars
  <2>2. p \in Users
    BY <2>1 DEF LifeInv, Timed, Proc
  <2>3. /\ state'[p] = "RUNNABLE" /\ wait_state'[p] = "none"
        /\ \A x \in Proc \ {p} : state'[x] = state[x] /\ wait_state'[x] = wait_state[x]
    BY <2>1, <2>2, WakeupLife
  <2>4. \A x \in Proc : Timed(x)' => Timed(x)
    BY <2>1 DEF Timed
  <2>5. pc[p] = "sleep"
    BY <2>1, <2>2 DEF LifeInv, UserLife, Timed
  <2>6. ASSUME NEW u \in Users PROVE UserLife(u)'
    <3>1. CASE u = p
      BY <2>1, <2>3, <2>5, <3>1 DEF UserLife
    <3>2. CASE u # p
      BY <2>1, <2>3, <2>4, <3>2, SameLife DEF LifeInv
    <3> QED BY <3>1, <3>2
  <2> QED BY <1>0, <2>1, <2>2, <2>3, <2>4, <2>6 DEF LifeInv, InitLife, InitKeepsCpu, IrqLife
<1>15. CASE RunTimerDone
  <2>1. /\ irq = "timers" /\ irq' = "none" /\ due = {}
        /\ UNCHANGED <<state, wait_state, current, timer, due>>
        /\ pc' = [pc EXCEPT ![current] = IF InKernel(current) THEN @ ELSE "tail"]
    BY <1>15 DEF RunTimerDone, taskVars
  <2>2. /\ \A x \in Proc : x # current \/ InKernel(x) => pc'[x] = pc[x]
        /\ \A x \in Proc : Timed(x)' => Timed(x)
    BY <1>0, <2>1 DEF Timed
  <2>3. ASSUME NEW u \in Users PROVE UserLife(u)'
    <3>1. CASE u = current
      <4>1. pc[u] = "user"
        BY <2>1, <3>1 DEF LifeInv, IrqLife
      <4>2. state[u] = "RUNNABLE" /\ wait_state[u] = "none" /\ ~Timed(u)
        BY <3>1, <4>1, RunningUser
      <4> QED BY <2>1, <2>2, <4>2 DEF UserLife
    <3>2. CASE u # current
      BY <2>1, <2>2, <3>2, SameLife DEF LifeInv
    <3> QED BY <3>1, <3>2
  <2>4. pc'[InitP] = pc[InitP]
    BY <2>2 DEF InKernel
  <2> QED BY <2>1, <2>2, <2>3, <2>4 DEF LifeInv, InitLife, InitKeepsCpu, IrqLife
<1> QED
  BY <1>1, <1>2, <1>3, <1>4, <1>5, <1>6, <1>7, <1>8, <1>9, <1>10, <1>11, <1>12, <1>13,
     <1>14, <1>15
  DEF Next, SysCall, KernelPath, InitThread, TimerTrap, Halted

LEMMA LifeInvariant == Spec => []LifeInv
<1>1. Init => LifeInv
  BY ProcAssumption, ConstantsInProc
     DEF Init, LifeInv, UserLife, InitLife, InitKeepsCpu, IrqLife, Timed
<1>2. RunQueueInv /\ LifeInv /\ [Next]_vars => LifeInv'
  BY LifeStep
<1> QED BY <1>1, <1>2, RunQueueInvariant, PTL DEF Spec

\* A process is asleep exactly when it says on what, but for init between two
\* stores of do_wait: do_fork's assertion on wait_state holds, and a wake-up by
\* do_exit, do_kill or run_timer_list meets a process that really sleeps.
THEOREM SleepersSayWhy == Spec => []SleepHasReason
<1>1. RunQueueInv /\ LifeInv => SleepHasReason
  <2> SUFFICES ASSUME RunQueueInv, LifeInv, NEW p \in Proc
               PROVE  (state[p] = "SLEEPING") <=> (wait_state[p] # "none"
                                                   \/ (p = InitP /\ pc[p] = "flag"))
    BY DEF SleepHasReason
  <2>1. p \in Users \/ p = InitP \/ p = Idle
    BY DEF Proc
  <2>2. Idle \notin Users /\ InitP \notin Users /\ Idle # InitP
    BY ProcAssumption
  <2>3. CASE p \in Users
    BY <2>2, <2>3 DEF LifeInv, UserLife
  <2>4. CASE p = InitP
    BY <2>4 DEF LifeInv, InitLife
  <2>5. CASE p = Idle
    BY <2>2, <2>5 DEF LifeInv, RunQueueInv
  <2> QED BY <2>1, <2>3, <2>4, <2>5
<1> QED BY <1>1, RunQueueInvariant, LifeInvariant, PTL

\* A timer on the list, or expired and not yet handled, belongs to a process that
\* is inside do_sleep: run_timer_list never wakes a zombie, nor a process that
\* sleeps on a child, and no timer outlives its owner's kernel stack.
THEOREM TimersInSleep == Spec => []TimerInSleep
<1>1. LifeInv => TimerInSleep
  <2> SUFFICES ASSUME LifeInv, NEW p \in Proc, Timed(p)
               PROVE  /\ pc[p] = "sleep" /\ state[p] \in {"SLEEPING", "RUNNABLE"}
                      /\ wait_state[p] \in {"WT_TIMER", "none"}
    BY DEF TimerInSleep, Timed
  <2>1. p \in Users
    BY DEF LifeInv, Proc
  <2> QED BY <2>1 DEF LifeInv, UserLife
<1> QED BY <1>1, LifeInvariant, PTL
-----------------------------------------------------------------------------
(* Families.  A process that waits for a child must have one, and init must not *)
(* shut down while a process is left.  FamilyInv says why: the parent of a      *)
(* process is init or a process that has not ended, the parent relation has no  *)
(* cycle, nr_process counts the processes, and whoever has looked for a zombie  *)
(* child and is asleep, or about to be, would find none now either.             *)

Existing == {u \in Users : state[u] # "FREE"}

Alive(p) == state[p] \in {"RUNNABLE", "SLEEPING"}

ParentAlive ==
    \A u \in Existing : parent[u] = InitP \/ (parent[u] \in Users /\ Alive(parent[u]))

\* No set of processes is closed under parent.
NoCycle == \A S \in SUBSET Existing : S # {} => \E u \in S : parent[u] \notin S

Counted == nr_process = 2 + Cardinality(Existing)

\* Past the search of do_wait, before its end.
Looked(p) == wait_state[p] = "WT_CHILD" \/ (p = InitP /\ pc[p] \in {"mark", "flag"})

LookedSound == \A p \in Proc : Looked(p) => WaitNoZombie(p)

ShutDownAlone == halted = "done" => Existing = {}

FamilyInv ==
    /\ ParentAlive /\ NoCycle /\ Counted
    /\ LookedSound /\ waitfor[InitP] = Idle
    /\ ShutDownAlone

(* What a step does to the families: one of four kinds. *)

ForkKind(c) ==
    /\ current \in Users \cup {InitP} /\ Alive(current) /\ ~Looked(current)
    /\ state[c] = "FREE" /\ state' = [state EXCEPT ![c] = "RUNNABLE"]
    /\ parent' = [parent EXCEPT ![c] = current]
    /\ nr_process' = nr_process + 1
    /\ \A p \in Proc : Looked(p)' => Looked(p)
    /\ halted = "no"
    /\ UNCHANGED <<waitfor, halted>>

ExitKind(p) ==
    /\ Alive(p) /\ ~Looked(p)
    /\ \A x \in Proc : /\ state'[x] = "FREE" <=> state[x] = "FREE"
                       /\ x # p /\ Alive(x) => Alive(x)'
                       /\ x # p /\ state'[x] = "ZOMBIE" => state[x] = "ZOMBIE"
    /\ parent' = Inherited(p)
    /\ \A x \in Proc : Looked(x)' => Looked(x)
    /\ \A q \in Proc : q = parent[p] => ~Looked(q)'
    /\ OrphanZombie(p) => ~Looked(InitP)'
    /\ halted = "no"
    /\ UNCHANGED <<nr_process, waitfor, halted>>

ReapKind(w, c) ==
    /\ ~Looked(w) /\ c \in Kids(w) /\ state[c] = "ZOMBIE"
    /\ state' = [state EXCEPT ![c] = "FREE"]
    /\ parent' = [parent EXCEPT ![c] = Idle]
    /\ nr_process' = nr_process - 1
    /\ \A x \in Proc : Looked(x)' => Looked(x) /\ waitfor'[x] = waitfor[x]
    /\ waitfor'[InitP] = waitfor[InitP]
    /\ halted = "no"
    /\ UNCHANGED halted

QuietKind ==
    /\ \A u \in Proc : state'[u] = state[u] \/ (Alive(u) /\ Alive(u)')
    /\ \A x \in Proc : Looked(x)' => /\ Looked(x) \/ WaitNoZombie(x)
                                     /\ waitfor'[x] = waitfor[x]
    /\ waitfor'[InitP] = waitfor[InitP]
    /\ halted' = "done" => halted = "done" \/ Waited(InitP) = {}
    /\ UNCHANGED <<parent, nr_process>>

\* The running process has not looked, unless it is init in the middle of do_wait.
LEMMA RunningNotLooked ==
    ASSUME RunQueueInv, LifeInv, NEW p \in Users, current = p
    PROVE  /\ ~Looked(p) /\ Alive(p)
           /\ Looked(InitP) => wait_state[InitP] = "WT_CHILD"
BY RunningUser DEF Looked, Alive

LEMMA StepKinds ==
    ASSUME RunQueueInv, LifeInv, [Next]_vars
    PROVE  \/ \E c \in Users : ForkKind(c)
           \/ \E p \in Users : ExitKind(p)
           \/ \E w \in Users \cup {InitP}, c \in Users : ReapKind(w, c)
           \/ QuietKind
<1> DEFINE Goal == \/ \E c \in Users : ForkKind(c)
                   \/ \E p \in Users : ExitKind(p)
                   \/ \E w \in Users \cup {InitP}, c \in Users : ReapKind(w, c)
                   \/ QuietKind
<1> USE ConstantsInProc
<1>0. /\ state \in [Proc -> States] /\ wait_state \in [Proc -> WaitStates]
      /\ pc \in [Proc -> PCs] /\ waitfor \in [Proc -> Proc] /\ current \in Proc
      /\ parent \in [Proc -> Proc]
      /\ Idle \notin Users /\ InitP \notin Users /\ Idle # InitP
  BY ProcAssumption DEF RunQueueInv, TypeOK
<1>1. ASSUME NEW p \in Users, NEW c \in Users, SysFork(p, c) PROVE Goal
  <2>1. /\ current = p /\ halted = "no" /\ DoFork(c)
        /\ UNCHANGED <<wait_state, waitfor, halted>>
        /\ pc' = [pc EXCEPT ![p] = "tail", ![c] = "user"]
    BY <1>1 DEF SysFork, At
  <2>2. pc'[InitP] = pc[InitP]
    BY <1>0, <2>1
  <2>3. \A x \in Proc : Looked(x)' => Looked(x)
    BY <2>1, <2>2 DEF Looked
  <2>4. ~Looked(p) /\ Alive(p)
    BY <2>1, RunningNotLooked
  <2> QED BY <2>1, <2>3, <2>4 DEF ForkKind, DoFork
<1>2. ASSUME NEW p \in Users,
             SysReturns(p) \/ SysYield(p) \/ SleepReturns(p) \/ DoWaitFails(p)
               \/ TailReturns(p) \/ TailReschedules(p) \/ DoWaitRepeats(p)
               \/ (\E w \in Users \cup {Idle} : SysWait(p, w))
      PROVE Goal
  <2>1. /\ current = p /\ UNCHANGED <<state, wait_state, parent, nr_process, halted>>
        /\ \E l \in PCs : pc' = [pc EXCEPT ![p] = l]
        /\ \E w \in Proc : waitfor' = [waitfor EXCEPT ![p] = w] \/ waitfor' = waitfor
    BY <1>2 DEF SysReturns, SysYield, SleepReturns, DoWaitFails, TailReturns, TailReschedules,
                DoWaitRepeats, SysWait, At, Trapped, PCs, taskVars
  <2>2. ~Looked(p)
    BY <2>1, RunningNotLooked
  <2>3. pc'[InitP] = pc[InitP] /\ \A x \in Proc \ {p} : waitfor'[x] = waitfor[x]
    BY <1>0, <2>1
  <2>4. \A x \in Proc : Looked(x)' => Looked(x)
    BY <2>1, <2>3 DEF Looked
  <2> QED BY <1>0, <2>1, <2>2, <2>3, <2>4 DEF QuietKind
<1>3. ASSUME NEW p \in Users, SysExit(p) \/ DoWaitKilled(p) \/ TailKilled(p) PROVE Goal
  <2>1. DoExit(p) /\ current = p /\ halted = "no"
    BY <1>3 DEF SysExit, DoWaitKilled, TailKilled, At
  <2>2. /\ state'[p] = "ZOMBIE" /\ wait_state'[p] = "none"
        /\ \A x \in Proc \ {p} :
                 \/ state'[x] = state[x] /\ wait_state'[x] = wait_state[x]
                 \/ /\ wait_state[x] = "WT_CHILD" /\ state[x] = "SLEEPING"
                    /\ state'[x] = "RUNNABLE" /\ wait_state'[x] = "none"
        /\ wait_state[parent[p]] = "WT_CHILD" => wait_state'[parent[p]] = "none"
        /\ wait_state[InitP] = "WT_CHILD" /\ OrphanZombie(p) => wait_state'[InitP] = "none"
        /\ parent' = Inherited(p)
        /\ UNCHANGED <<nr_process, pc, waitfor, halted>>
    BY <2>1, DoExitLife DEF ctlVars
  <2>3. ~Looked(p) /\ Alive(p) /\ (Looked(InitP) => wait_state[InitP] = "WT_CHILD")
    BY <2>1, RunningNotLooked
  <2>4. \A x \in Proc : Looked(x)' => Looked(x)
    BY <2>2 DEF Looked
  <2>5. \A x \in Proc : /\ state'[x] = "FREE" <=> state[x] = "FREE"
                        /\ x # p /\ Alive(x) => Alive(x)'
                        /\ x # p /\ state'[x] = "ZOMBIE" => state[x] = "ZOMBIE"
    BY <2>2, <2>3 DEF Alive
  <2>6. pc'[InitP] \notin {"mark", "flag"}
    BY <2>1, <2>2, RunningUser
  <2>7. wait_state'[parent[p]] # "WT_CHILD"
    <3>1. parent[p] \in Proc
      BY <1>0
    <3> QED BY <2>2, <3>1
  <2>8. ASSUME NEW q \in Proc, q = parent[p] PROVE ~Looked(q)'
    BY <2>6, <2>7, <2>8 DEF Looked
  <2>9. OrphanZombie(p) => ~Looked(InitP)'
    BY <2>2, <2>4, <2>3, <2>6 DEF Looked
  <2> QED BY <2>1, <2>2, <2>3, <2>4, <2>5, <2>8, <2>9 DEF ExitKind
<1>4. ASSUME NEW p \in Users, NEW q \in Proc \ {Idle}, SysKill(p, q) PROVE Goal
  <2>1. /\ current = p /\ UNCHANGED <<parent, nr_process, waitfor, halted>>
        /\ pc' = [pc EXCEPT ![p] = "tail"]
    BY <1>4 DEF SysKill, At, Trapped
  <2>2. pc'[InitP] = pc[InitP]
    BY <1>0, <2>1
  <2>3. CASE WakeupProc(q) /\ wait_state[q] # "none"
    <3>1. /\ state'[q] = "RUNNABLE" /\ wait_state'[q] = "none" /\ state[q] = "SLEEPING"
          /\ \A x \in Proc \ {q} : state'[x] = state[x] /\ wait_state'[x] = wait_state[x]
      BY <2>3, WakeupLife, Waiting
    <3>2. \A x \in Proc : Looked(x)' => Looked(x)
      BY <2>2, <3>1 DEF Looked
    <3>3. \A u \in Proc : state'[u] = state[u] \/ (Alive(u) /\ Alive(u)')
      BY <3>1 DEF Alive
    <3> QED BY <2>1, <3>2, <3>3 DEF QuietKind
  <2>4. CASE UNCHANGED <<state, wait_state, rq, time_slice>>
    <3>1. \A x \in Proc : Looked(x)' => Looked(x)
      BY <2>2, <2>4 DEF Looked
    <3> QED BY <2>1, <2>4, <3>1 DEF QuietKind
  <2> QED BY <1>4, <2>3, <2>4 DEF SysKill, Interruptible
<1>5. ASSUME NEW p \in Users,
             (\E t \in 1..MaxSleep : SysSleep(p, t)) \/ DoWaitSleeps(p)
      PROVE Goal
  <2>1. /\ current = p /\ UNCHANGED <<parent, nr_process, waitfor, halted>>
        /\ state' = [state EXCEPT ![p] = "SLEEPING"]
        /\ \/ wait_state' = [wait_state EXCEPT ![p] = "WT_TIMER"]
           \/ wait_state' = [wait_state EXCEPT ![p] = "WT_CHILD"] /\ WaitNoZombie(p)
        /\ \E l \in PCs : pc' = [pc EXCEPT ![p] = l]
    BY <1>5 DEF SysSleep, DoWaitSleeps, At, Trapped, PCs
  <2>2. state[p] = "RUNNABLE"
    BY <2>1, RunningUser
  <2>3. pc'[InitP] = pc[InitP]
    BY <1>0, <2>1
  <2>4. \A x \in Proc : Looked(x)' => Looked(x) \/ WaitNoZombie(x)
    <3> SUFFICES ASSUME NEW x \in Proc, Looked(x)' PROVE Looked(x) \/ WaitNoZombie(x)
      OBVIOUS
    <3>1. CASE x = p
      <4>1. wait_state'[p] = "WT_CHILD"
        BY <1>0, <3>1 DEF Looked
      <4> QED BY <1>0, <2>1, <3>1, <4>1
    <3>2. CASE x # p
      <4>1. wait_state'[x] = wait_state[x]
        BY <1>0, <2>1, <3>2
      <4> QED BY <2>3, <4>1 DEF Looked
    <3> QED BY <3>1, <3>2
  <2>5. \A u \in Proc : state'[u] = state[u] \/ (Alive(u) /\ Alive(u)')
    BY <1>0, <2>1, <2>2 DEF Alive
  <2> QED BY <2>1, <2>4, <2>5 DEF QuietKind
<1>6. ASSUME NEW p \in Users, NEW c \in Users, DoWaitReaps(p, c) PROVE Goal
  <2>1. /\ current = p /\ halted = "no" /\ UNCHANGED <<wait_state, halted>>
        /\ c \in Kids(p) /\ state[c] = "ZOMBIE" /\ Reap(c)
        /\ pc' = [pc EXCEPT ![p] = "tail", ![c] = "none"]
        /\ waitfor' = [waitfor EXCEPT ![p] = Idle, ![c] = Idle]
    BY <1>6 DEF DoWaitReaps, WaitFound, Waited, At
  <2>2. ~Looked(p)
    BY <2>1, RunningNotLooked
  <2>3. ~Looked(c)
    BY <1>0, <2>1 DEF LifeInv, UserLife, Looked
  <2>4. /\ pc'[InitP] = pc[InitP] /\ waitfor'[InitP] = waitfor[InitP]
        /\ \A x \in Proc \ {p, c} : waitfor'[x] = waitfor[x]
    BY <1>0, <2>1
  <2>5. \A x \in Proc : Looked(x)' => Looked(x)
    BY <2>1, <2>4 DEF Looked
  <2>6. \A x \in Proc : Looked(x)' => Looked(x) /\ waitfor'[x] = waitfor[x]
    BY <2>2, <2>3, <2>4, <2>5
  <2> QED BY <2>1, <2>2, <2>4, <2>6 DEF ReapKind, Reap
<1>7. CASE CpuIdle \/ InitBlocks \/ InitYields \/ DoWaitRepeats(InitP) \/ InitMainFails
             \/ InitKilled \/ UNCHANGED vars \/ TimerIrq \/ InitHasKid \/ InitFinishes
  <2>1. /\ UNCHANGED <<state, wait_state, parent, nr_process, waitfor>>
        /\ halted' = "done" => halted = "done" \/ Waited(InitP) = {}
    BY <1>7 DEF CpuIdle, InitBlocks, InitYields, DoWaitRepeats, InitMainFails, InitKilled,
                TimerIrq, InitHasKid, InitFinishes, vars, taskVars, ctlVars
  <2>2. pc'[InitP] \in {"mark", "flag"} => pc[InitP] \in {"mark", "flag"} \/ WaitNoZombie(InitP)
    BY <1>0, <1>7
       DEF CpuIdle, InitBlocks, InitYields, DoWaitRepeats, InitMainFails, InitKilled,
           TimerIrq, InitHasKid, InitFinishes, vars, ctlVars, Trapped
  <2>3. \A x \in Proc : Looked(x)' => Looked(x) \/ WaitNoZombie(x)
    BY <2>1, <2>2 DEF Looked
  <2> QED BY <2>1, <2>3 DEF QuietKind
<1>8. ASSUME NEW c \in Users, InitMain(c) PROVE Goal
  <2>1. /\ current = InitP /\ pc[InitP] = "boot" /\ halted = "no" /\ DoFork(c)
        /\ UNCHANGED <<wait_state, waitfor, halted>>
        /\ pc' = [pc EXCEPT ![InitP] = "wait", ![c] = "user"]
    BY <1>8 DEF InitMain, At
  <2>2. pc'[InitP] = "wait"
    BY <1>0, <2>1
  <2>3. \A x \in Proc : Looked(x)' => Looked(x)
    BY <2>1, <2>2 DEF Looked
  <2>4. ~Looked(InitP) /\ Alive(InitP)
    BY <2>1 DEF LifeInv, InitLife, Looked, Alive
  <2> QED BY <2>1, <2>3, <2>4 DEF ForkKind, DoFork
<1>9. ASSUME NEW c \in Users, InitReaps(c) PROVE Goal
  <2>1. /\ current = InitP /\ pc[InitP] = "wait" /\ halted = "no"
        /\ UNCHANGED <<wait_state, halted>>
        /\ c \in Kids(InitP) /\ state[c] = "ZOMBIE" /\ Reap(c)
        /\ pc' = [pc EXCEPT ![InitP] = "loop", ![c] = "none"]
        /\ waitfor' = [waitfor EXCEPT ![c] = Idle]
    BY <1>9 DEF InitReaps, WaitFound, Waited, At
  <2>2. ~Looked(InitP)
    BY <2>1 DEF LifeInv, InitLife, Looked
  <2>3. ~Looked(c)
    BY <1>0, <2>1 DEF LifeInv, UserLife, Looked
  <2>4. pc'[InitP] = "loop" /\ \A x \in Proc \ {c} : waitfor'[x] = waitfor[x]
    BY <1>0, <2>1
  <2>5. \A x \in Proc : Looked(x)' => Looked(x)
    BY <2>1, <2>4 DEF Looked
  <2>6. /\ \A x \in Proc : Looked(x)' => Looked(x) /\ waitfor'[x] = waitfor[x]
        /\ waitfor'[InitP] = waitfor[InitP]
    BY <1>0, <2>3, <2>4, <2>5
  <2> QED BY <2>1, <2>2, <2>6 DEF ReapKind, Reap
<1>10. CASE InitMarks \/ InitFlags
  <2>1. /\ UNCHANGED <<parent, nr_process, waitfor, halted>> /\ pc[InitP] \in {"mark", "flag"}
        /\ \A x \in Proc \ {InitP} : state'[x] = state[x] /\ wait_state'[x] = wait_state[x]
        /\ state'[InitP] \in {"SLEEPING", state[InitP]}
    BY <1>0, <1>10 DEF InitMarks, InitFlags, At
  <2>2. \A x \in Proc : Looked(x)' => Looked(x)
    BY <2>1 DEF Looked
  <2>3. Alive(InitP)
    BY <2>1 DEF LifeInv, InitLife, Alive
  <2>4. \A u \in Proc : state'[u] = state[u] \/ (Alive(u) /\ Alive(u)')
    BY <2>1, <2>3 DEF Alive
  <2> QED BY <2>1, <2>2, <2>4 DEF QuietKind
<1>11. ASSUME NEW p \in Proc, RunTimer(p) PROVE Goal
  <2>1. /\ p \in due /\ WakeupProc(p) /\ UNCHANGED <<parent, nr_process, pc, waitfor, halted>>
    BY <1>11 DEF RunTimer, ctlVars
  <2>2. p \in Users
    BY <2>1 DEF LifeInv, Timed, Proc
  <2>3. /\ state'[p] = "RUNNABLE" /\ wait_state'[p] = "none"
        /\ state[p] \in {"SLEEPING", "RUNNABLE"}
        /\ \A x \in Proc \ {p} : state'[x] = state[x] /\ wait_state'[x] = wait_state[x]
    BY <2>1, <2>2, WakeupLife
  <2>4. \A x \in Proc : Looked(x)' => Looked(x)
    BY <2>1, <2>3 DEF Looked
  <2>5. \A u \in Proc : state'[u] = state[u] \/ (Alive(u) /\ Alive(u)')
    BY <2>3 DEF Alive
  <2> QED BY <2>1, <2>4, <2>5 DEF QuietKind
<1>12. CASE RunTimerDone
  <2>1. UNCHANGED <<state, wait_state, parent, nr_process, waitfor, halted>>
        /\ pc' = [pc EXCEPT ![current] = IF InKernel(current) THEN @ ELSE "tail"]
    BY <1>12 DEF RunTimerDone, taskVars
  <2>2. pc'[InitP] = pc[InitP]
    BY <1>0, <2>1 DEF InKernel
  <2>3. \A x \in Proc : Looked(x)' => Looked(x)
    BY <2>1, <2>2 DEF Looked
  <2> QED BY <2>1, <2>3 DEF QuietKind
<1> QED
  BY <1>1, <1>2, <1>3, <1>4, <1>5, <1>6, <1>7, <1>8, <1>9, <1>10, <1>11, <1>12
  DEF Next, SysCall, KernelPath, InitThread, TimerTrap, Halted

LEMMA ExistingFinite == IsFiniteSet(Existing) /\ Cardinality(Existing) \in Nat
<1>1. Existing \subseteq Users
  BY DEF Existing
<1>2. IsFiniteSet(Users)
  BY ProcAssumption
<1>3. IsFiniteSet(Existing)
  BY <1>1, <1>2, FS_Subset, Zenon
<1> QED BY <1>3, FS_CardinalityType

\* A process is not its own parent.
LEMMA NotOwnParent ==
    ASSUME NoCycle, NEW u \in Existing
    PROVE  parent[u] # u
<1>1. {u} \in SUBSET Existing /\ {u} # {}
  OBVIOUS
<1> QED BY <1>1 DEF NoCycle

LEMMA QuietFamily ==
    ASSUME TypeOK, FamilyInv, QuietKind
    PROVE  FamilyInv'
<1> USE ConstantsInProc
<1>1. /\ \A u \in Proc : /\ (state'[u] = "FREE") <=> (state[u] = "FREE")
                         /\ (state'[u] = "ZOMBIE") <=> (state[u] = "ZOMBIE")
                         /\ Alive(u) => Alive(u)'
      /\ parent' = parent /\ nr_process' = nr_process
  BY DEF QuietKind, Alive
<1>2. Existing' = Existing /\ \A p \in Proc : Kids(p)' = Kids(p)
  BY <1>1 DEF Existing, Kids
<1>3. ParentAlive' /\ NoCycle' /\ Counted'
  <2>1. ParentAlive'
    BY <1>1, <1>2 DEF FamilyInv, ParentAlive
  <2>2. NoCycle' /\ Counted'
    BY <1>1, <1>2 DEF FamilyInv, NoCycle, Counted
  <2> QED BY <2>1, <2>2
<1>4. LookedSound'
  <2> SUFFICES ASSUME NEW p \in Proc, Looked(p)' PROVE WaitNoZombie(p)'
    BY DEF LookedSound
  <2>1. WaitNoZombie(p) /\ waitfor'[p] = waitfor[p]
    BY DEF QuietKind, FamilyInv, LookedSound
  <2>2. Waited(p)' = Waited(p)
    BY <1>2, <2>1 DEF Waited
  <2>3. Waited(p) \subseteq Proc
    BY DEF Waited, Kids
  <2> QED BY <1>1, <2>1, <2>2, <2>3 DEF WaitNoZombie
<1>5. ShutDownAlone'
  <2> SUFFICES ASSUME halted' = "done" PROVE Existing = {}
    BY <1>2 DEF ShutDownAlone
  <2>1. CASE halted = "done"
    BY <2>1 DEF FamilyInv, ShutDownAlone
  <2>2. CASE Waited(InitP) = {}
    <3>1. Kids(InitP) = {}
      BY <2>2 DEF FamilyInv, Waited
    <3>2. \A u \in Existing : parent[u] # InitP
      BY <3>1 DEF Kids, Existing
    <3>3. \A u \in Existing : parent[u] \in Existing
      BY <3>2 DEF FamilyInv, ParentAlive, Existing, Alive
    <3>4. Existing \in SUBSET Existing
      OBVIOUS
    <3> QED BY <3>3, <3>4 DEF FamilyInv, NoCycle
  <2> QED BY <2>1, <2>2 DEF QuietKind
<1> QED BY <1>3, <1>4, <1>5 DEF FamilyInv, QuietKind

LEMMA ForkFamily ==
    ASSUME TypeOK, FamilyInv, NEW c \in Users, ForkKind(c)
    PROVE  FamilyInv'
<1> USE ConstantsInProc
<1>1. /\ state \in [Proc -> States] /\ parent \in [Proc -> Proc] /\ current \in Proc
      /\ c # current /\ c # InitP
  BY ProcAssumption DEF TypeOK, ForkKind, Alive
<1>2. /\ state'[c] = "RUNNABLE" /\ parent'[c] = current
      /\ \A x \in Proc \ {c} : state'[x] = state[x] /\ parent'[x] = parent[x]
  BY <1>1 DEF ForkKind
<1>3. Existing' = Existing \cup {c} /\ c \notin Existing
  BY <1>2 DEF Existing, ForkKind
<1>4. ParentAlive'
  <2> SUFFICES ASSUME NEW u \in Existing'
               PROVE  (parent[u] = InitP \/ (parent[u] \in Users /\ Alive(parent[u])))'
    BY DEF ParentAlive
  <2>1. CASE u = c
    <3>1. state'[current] \in {"RUNNABLE", "SLEEPING"} /\ current \in Users \cup {InitP}
      BY <1>1, <1>2 DEF ForkKind, Alive
    <3>2. parent'[u] = current
      BY <1>2, <2>1
    <3> QED BY <3>1, <3>2 DEF Alive
  <2>2. CASE u # c
    <3>1. u \in Existing /\ parent'[u] = parent[u]
      BY <1>2, <1>3, <2>2 DEF Existing
    <3>2. parent[u] = InitP \/ (parent[u] \in Users /\ Alive(parent[u]))
      BY <3>1 DEF FamilyInv, ParentAlive
    <3>3. parent[u] # c
      BY <1>1, <3>2 DEF ForkKind, Alive
    <3> QED BY <1>2, <3>1, <3>2, <3>3 DEF Alive
  <2> QED BY <2>1, <2>2
<1>5. NoCycle'
  <2> SUFFICES ASSUME NEW S \in SUBSET Existing', S # {} PROVE \E u \in S : parent'[u] \notin S
    BY DEF NoCycle
  <2> DEFINE R == S \ {c}
  <2>1. CASE R = {}
    <3>1. S = {c}
      BY <2>1
    <3> QED BY <1>1, <1>2, <3>1
  <2>2. CASE R # {}
    <3>1. R \in SUBSET Existing
      BY <1>3
    <3>2. PICK u \in R : parent[u] \notin R
      BY <2>2, <3>1 DEF FamilyInv, NoCycle
    <3>3. parent[u] # c
      BY <1>1, <3>1 DEF FamilyInv, ParentAlive, ForkKind, Alive
    <3>4. parent'[u] = parent[u]
      BY <1>2, <3>1 DEF Existing
    <3> QED BY <3>2, <3>3, <3>4
  <2> QED BY <2>1, <2>2
<1>6. Counted'
  <2>1. Cardinality(Existing \cup {c}) = Cardinality(Existing) + 1
    BY <1>3, ExistingFinite, FS_AddElement
  <2>2. nr_process' = nr_process + 1 /\ nr_process = 2 + Cardinality(Existing)
    BY DEF ForkKind, FamilyInv, Counted
  <2>3. nr_process' = 2 + Cardinality(Existing')
    BY <1>3, <2>1, <2>2, ExistingFinite
  <2> QED BY <2>3 DEF Counted
<1>7. LookedSound'
  <2> SUFFICES ASSUME NEW p \in Proc, Looked(p)' PROVE WaitNoZombie(p)'
    BY DEF LookedSound
  <2>1. WaitNoZombie(p) /\ p # current /\ waitfor' = waitfor
    BY DEF ForkKind, FamilyInv, LookedSound
  <2>2. Kids(p)' = Kids(p) /\ c \notin Kids(p)
    BY <1>2, <2>1 DEF Kids, ForkKind
  <2>3. Waited(p)' = Waited(p) /\ Waited(p) \subseteq Proc \ {c}
    BY <2>1, <2>2 DEF Waited, Kids
  <2> QED BY <1>2, <2>1, <2>3 DEF WaitNoZombie
<1>8. waitfor'[InitP] = Idle /\ ShutDownAlone'
  BY DEF ForkKind, FamilyInv, ShutDownAlone
<1> QED BY <1>4, <1>5, <1>6, <1>7, <1>8 DEF FamilyInv

LEMMA ExitFamily ==
    ASSUME TypeOK, FamilyInv, NEW p \in Users, ExitKind(p)
    PROVE  FamilyInv'
<1> USE ConstantsInProc
<1>1. /\ parent \in [Proc -> Proc] /\ p \in Existing /\ InitP \notin Users
      /\ \A x \in Proc : /\ state'[x] = "FREE" <=> state[x] = "FREE"
                         /\ x # p /\ Alive(x) => Alive(x)'
                         /\ x # p /\ state'[x] = "ZOMBIE" => state[x] = "ZOMBIE"
      /\ \A x \in Proc : parent'[x] = IF x \in Kids(p) THEN InitP ELSE parent[x]
  BY ProcAssumption DEF TypeOK, ExitKind, Existing, Alive, Inherited
<1>2. Existing' = Existing
  BY <1>1 DEF Existing
<1>3. ParentAlive'
  <2> SUFFICES ASSUME NEW u \in Existing, u \notin Kids(p)
               PROVE  (parent[u] = InitP \/ (parent[u] \in Users /\ Alive(parent[u])))'
    BY <1>1, <1>2 DEF ParentAlive, Existing
  <2>1. parent'[u] = parent[u] /\ parent[u] # p
    BY <1>1 DEF Existing, Kids
  <2> QED BY <1>1, <2>1 DEF FamilyInv, ParentAlive, Alive
<1>4. NoCycle'
  <2> SUFFICES ASSUME NEW S \in SUBSET Existing, S # {} PROVE \E u \in S : parent'[u] \notin S
    BY <1>2 DEF NoCycle
  <2>1. PICK u \in S : parent[u] \notin S
    BY DEF FamilyInv, NoCycle
  <2>2. InitP \notin S /\ u \in Proc
    BY <1>1 DEF Existing
  <2> QED BY <1>1, <2>1, <2>2
<1>5. Counted'
  BY <1>2 DEF FamilyInv, Counted, ExitKind
<1>6. LookedSound'
  <2> SUFFICES ASSUME NEW w \in Proc, Looked(w)' PROVE WaitNoZombie(w)'
    BY DEF LookedSound
  <2>1. WaitNoZombie(w) /\ w # p /\ w # parent[p] /\ waitfor' = waitfor
    BY DEF ExitKind, FamilyInv, LookedSound
  <2>2. p \notin Kids(w) /\ p \notin Kids(p)
    BY <1>1, <2>1, NotOwnParent DEF Kids, FamilyInv
  <2>3. Kids(w)' = IF w = InitP THEN Kids(w) \cup Kids(p) ELSE Kids(w)
    BY <1>1, <2>1 DEF Kids
  <2>4. w = InitP => \A c \in Kids(p) : state[c] # "ZOMBIE"
    BY DEF ExitKind, OrphanZombie
  <2>5. /\ Waited(w) \subseteq Waited(w)'
        /\ \A c \in Waited(w)' : c \in Waited(w) \/ (w = InitP /\ c \in Kids(p))
    BY <2>1, <2>3 DEF Waited
  <2>6. \A c \in Waited(w)' : c # p /\ state[c] # "ZOMBIE" /\ c \in Proc
    BY <2>1, <2>2, <2>4, <2>5 DEF WaitNoZombie, Waited, Kids
  <2>7. \A c \in Waited(w)' : state'[c] # "ZOMBIE"
    BY <1>1, <2>6
  <2> QED BY <2>1, <2>5, <2>7 DEF WaitNoZombie
<1>7. waitfor'[InitP] = Idle /\ ShutDownAlone'
  BY DEF ExitKind, FamilyInv, ShutDownAlone
<1> QED BY <1>3, <1>4, <1>5, <1>6, <1>7 DEF FamilyInv

LEMMA ReapFamily ==
    ASSUME TypeOK, FamilyInv, NEW w \in Users \cup {InitP}, NEW c \in Users, ReapKind(w, c)
    PROVE  FamilyInv'
<1> USE ConstantsInProc
<1>1. /\ state \in [Proc -> States] /\ parent \in [Proc -> Proc] /\ c # InitP
      /\ state[c] = "ZOMBIE" /\ parent[c] = w /\ w \in Proc
  BY ProcAssumption DEF TypeOK, ReapKind, Kids
<1>2. /\ state'[c] = "FREE"
      /\ \A x \in Proc \ {c} : state'[x] = state[x] /\ parent'[x] = parent[x]
  BY <1>1 DEF ReapKind
<1>3. Existing' = Existing \ {c} /\ c \in Existing
  BY <1>1, <1>2 DEF Existing
<1>4. ParentAlive'
  <2> SUFFICES ASSUME NEW u \in Existing, u # c
               PROVE  (parent[u] = InitP \/ (parent[u] \in Users /\ Alive(parent[u])))'
    BY <1>3 DEF ParentAlive
  <2>1. parent'[u] = parent[u]
    BY <1>2 DEF Existing
  <2>2. parent[u] = InitP \/ (parent[u] \in Users /\ Alive(parent[u]))
    BY DEF FamilyInv, ParentAlive
  <2>3. parent[u] # c
    BY <1>1, <2>2 DEF Alive
  <2> QED BY <1>2, <2>1, <2>2, <2>3 DEF Alive
<1>5. NoCycle'
  <2> SUFFICES ASSUME NEW S \in SUBSET (Existing \ {c}), S # {}
               PROVE  \E u \in S : parent'[u] \notin S
    BY <1>3 DEF NoCycle
  <2>1. S \in SUBSET Existing
    OBVIOUS
  <2>2. PICK u \in S : parent[u] \notin S
    BY <2>1 DEF FamilyInv, NoCycle
  <2>3. parent'[u] = parent[u]
    BY <1>2 DEF Existing
  <2> QED BY <2>2, <2>3
<1>6. Counted'
  <2>1. Cardinality(Existing \ {c}) = Cardinality(Existing) - 1
    BY <1>3, ExistingFinite, FS_RemoveElement
  <2>2. nr_process' = nr_process - 1 /\ nr_process = 2 + Cardinality(Existing)
    BY DEF ReapKind, FamilyInv, Counted
  <2>3. nr_process' = 2 + Cardinality(Existing')
    BY <1>3, <2>1, <2>2, ExistingFinite
  <2> QED BY <2>3 DEF Counted
<1>7. LookedSound'
  <2> SUFFICES ASSUME NEW x \in Proc, Looked(x)' PROVE WaitNoZombie(x)'
    BY DEF LookedSound
  <2>1. WaitNoZombie(x) /\ x # w /\ waitfor'[x] = waitfor[x]
    BY DEF ReapKind, FamilyInv, LookedSound
  <2>2. Kids(x)' = Kids(x) /\ c \notin Kids(x)
    BY <1>1, <1>2, <2>1 DEF Kids
  <2>3. Waited(x)' = Waited(x) /\ Waited(x) \subseteq Proc \ {c}
    BY <2>1, <2>2 DEF Waited, Kids
  <2> QED BY <1>2, <2>1, <2>3 DEF WaitNoZombie
<1>8. waitfor'[InitP] = Idle /\ ShutDownAlone'
  BY DEF ReapKind, FamilyInv, ShutDownAlone
<1> QED BY <1>4, <1>5, <1>6, <1>7, <1>8 DEF FamilyInv

LEMMA FamilyInvariant == Spec => []FamilyInv
<1>1. Init => FamilyInv
  <2> SUFFICES ASSUME Init PROVE FamilyInv
    OBVIOUS
  <2>1. Existing = {}
    BY ConstantsInProc DEF Init, Existing
  <2>2. \A p \in Proc : ~Looked(p)
    BY ConstantsInProc, ProcAssumption DEF Init, Looked
  <2>3. Counted
    BY <2>1, FS_EmptySet DEF Counted, Init
  <2> QED BY <2>1, <2>2, <2>3, ConstantsInProc
          DEF Init, FamilyInv, ParentAlive, NoCycle, LookedSound, ShutDownAlone
<1>2. RunQueueInv /\ LifeInv /\ FamilyInv /\ [Next]_vars => FamilyInv'
  BY StepKinds, QuietFamily, ForkFamily, ExitFamily, ReapFamily DEF RunQueueInv
<1> QED BY <1>1, <1>2, RunQueueInvariant, LifeInvariant, PTL DEF Spec

\* No lost wake-up in do_wait: a process asleep on WT_CHILD has a child it waits
\* for, and none that is a zombie already, whatever exits, kills and hand-overs of
\* orphans to init happened since it looked.
THEOREM NoLostChildWakeups == Spec => []NoLostChildWakeup
<1>1. FamilyInv => NoLostChildWakeup
  BY DEF FamilyInv, LookedSound, Looked, WaitNoZombie, NoLostChildWakeup
<1> QED BY <1>1, FamilyInvariant, PTL

\* init_main's assertions after its loop: when do_wait reports no child, no user
\* process is left in any state and nr_process is 2.
THEOREM ShutdownIsClean == Spec => []CleanShutdown
<1>1. FamilyInv => CleanShutdown
  <2> SUFFICES ASSUME FamilyInv, halted = "done"
               PROVE  nr_process = 2 /\ \A u \in Users : state[u] = "FREE"
    BY DEF CleanShutdown
  <2>1. Existing = {}
    BY DEF FamilyInv, ShutDownAlone
  <2>2. nr_process = 2
    BY <2>1, FS_EmptySet DEF FamilyInv, Counted
  <2> QED BY <2>1, <2>2 DEF Existing
<1> QED BY <1>1, FamilyInvariant, PTL
=============================================================================
