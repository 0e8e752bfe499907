----------------------------- MODULE SyncProofs -----------------------------
(***************************************************************************)
(* Proofs about the kernel's synchronisation.  The semaphore (Lock), for   *)
(* every number of threads and of permits: exclusion, first come first     *)
(* served, and that sem.c implements SemSpec.  The monitor with the        *)
(* philosophers (PhiloMonitor), for every number of philosophers and of    *)
(* meals: one thread at a time is active, the monitor is never lost, a     *)
(* waiter finds its condition true, and the counts are right.  The timer   *)
(* list (Timers), for any number of processes and any times: the delta     *)
(* list is correct and implements TimerSpec.                               *)
(***************************************************************************)
EXTENDS Lock, PhiloMonitor, Timers, FiniteSetTheorems, SequenceTheorems, TLAPS

-----------------------------------------------------------------------------
(* The semaphore *)

LockTypeOK ==
    /\ sem \in [value : Nat, queue : Seq(Thread)]
    /\ at \in [Thread -> {"out", "down", "in", "panic"}]
    /\ wait_state \in [Thread -> {"none", "WT_KSEM"}]
    /\ flags \in [Thread -> {"WT_INTERRUPTED", "WT_KSEM"}]
    /\ exiting \subseteq Thread

\* The wait queue holds, once each, exactly the threads that sleep in __down and
\* have not been given the semaphore.
QueueExact ==
    /\ \A i, j \in DOMAIN sem.queue : sem.queue[i] = sem.queue[j] => i = j
    /\ \A t \in Thread :
         /\ Blocked(sem, t) <=> wait_state[t] = "WT_KSEM"
         /\ Blocked(sem, t) <=> at[t] = "down" /\ flags[t] # "WT_KSEM"

\* __up raises the value only without a waiter.
NoWaiterMissed == sem.value > 0 => sem.queue = <<>>

\* A permit is free, on its way to a waiter, or inside.
Permitted == sem.value + Cardinality(Granted) + Cardinality(Inside) = Permits

NoPanic == \A t \in Thread : at[t] # "panic"

\* The inductive invariant.
LockInv == LockTypeOK /\ QueueExact /\ NoWaiterMissed /\ Permitted /\ NoPanic

-----------------------------------------------------------------------------
LEMMA FiniteSubsets ==
    ASSUME NEW S \in SUBSET Thread
    PROVE  IsFiniteSet(S) /\ Cardinality(S) \in Nat
BY LockAssumption, FS_Subset, FS_CardinalityType

LEMMA QueueFacts ==
    ASSUME LockTypeOK
    PROVE  /\ sem.queue \in Seq(Thread) /\ Len(sem.queue) \in Nat
           /\ DOMAIN sem.queue = 1 .. Len(sem.queue)
           /\ \A i \in DOMAIN sem.queue : sem.queue[i] \in Thread
BY DEF LockTypeOK

LEMMA RecordFacts ==
    ASSUME NEW s \in [value : Nat, queue : Seq(Thread)]
    PROVE  /\ s.value \in Nat /\ s.queue \in Seq(Thread)
           /\ \A q \in Seq(Thread) :
                LET r == [s EXCEPT !.queue = q]
                IN  r \in [value : Nat, queue : Seq(Thread)] /\ r.value = s.value /\ r.queue = q
OBVIOUS

LEMMA InitLock == LockInit => LockInv
<1> SUFFICES ASSUME LockInit PROVE LockInv
  OBVIOUS
<1>1. LockTypeOK
  BY LockAssumption DEF LockInit, LockTypeOK, sem_init
<1>2. QueueExact
  BY DEF LockInit, QueueExact, sem_init, Blocked
<1>3. Granted = {} /\ Inside = {}
  BY DEF LockInit, Granted, Inside
<1>4. Permitted
  BY <1>3, FS_EmptySet, LockAssumption DEF Permitted, LockInit, sem_init
<1>5. NoWaiterMissed /\ NoPanic
  BY DEF NoWaiterMissed, NoPanic, LockInit, sem_init
<1> QED BY <1>1, <1>2, <1>4, <1>5 DEF LockInv

\* down() that finds a permit.
LEMMA DownAtOnceStep ==
    ASSUME LockInv, NEW t \in Thread, DownAtOnce(t)
    PROVE  /\ LockInv'
           /\ sem'.value = sem.value - 1 /\ Granted' = Granted
           /\ t \notin Inside /\ Inside' = Inside \cup {t}
<1>1. /\ at[t] = "out" /\ sem.value > 0 /\ sem' = [sem EXCEPT !.value = @ - 1]
      /\ at' = [at EXCEPT ![t] = "in"]
      /\ wait_state' = wait_state /\ flags' = flags /\ exiting' = exiting
  BY DEF DownAtOnce, down
<1>2. sem'.value = sem.value - 1 /\ sem'.queue = sem.queue
  BY <1>1 DEF LockInv, LockTypeOK
<1>3. LockTypeOK'
  BY <1>1 DEF LockInv, LockTypeOK
<1>4. QueueExact'
  BY <1>1, <1>2 DEF LockInv, LockTypeOK, QueueExact, Blocked
<1>5. NoWaiterMissed' /\ NoPanic'
  BY <1>1, <1>2 DEF LockInv, LockTypeOK, NoWaiterMissed, NoPanic
<1>6. Granted' = Granted /\ t \notin Inside /\ Inside' = Inside \cup {t}
  BY <1>1 DEF LockInv, LockTypeOK, Granted, Inside
<1>7. Permitted'
  <2>1. /\ IsFiniteSet(Inside) /\ Cardinality(Inside) \in Nat
        /\ Cardinality(Granted) \in Nat /\ sem.value \in Nat
    BY FiniteSubsets DEF Inside, Granted, LockInv, LockTypeOK
  <2>2. Cardinality(Inside') = Cardinality(Inside) + 1
    BY <1>6, <2>1, FS_AddElement
  <2> QED BY <1>2, <1>6, <2>1, <2>2 DEF Permitted, LockInv
<1> QED BY <1>2, <1>3, <1>4, <1>5, <1>6, <1>7 DEF LockInv

\* __down up to its schedule().
LEMMA DownWaitsStep ==
    ASSUME LockInv, NEW t \in Thread, DownWaits(t)
    PROVE  /\ LockInv'
           /\ sem'.value = sem.value /\ Granted' = Granted /\ Inside' = Inside
           /\ sem'.queue = Append(sem.queue, t)
<1>1. /\ at[t] = "out" /\ sem.value <= 0 /\ sem' = [sem EXCEPT !.queue = Append(@, t)]
      /\ at' = [at EXCEPT ![t] = "down"]
      /\ wait_state' = [wait_state EXCEPT ![t] = "WT_KSEM"]
      /\ flags' = [flags EXCEPT ![t] = "WT_INTERRUPTED"]
      /\ exiting' = exiting
  BY DEF DownWaits, down, LockInv, LockTypeOK
<1>2. sem'.value = sem.value /\ sem'.queue = Append(sem.queue, t)
  BY <1>1 DEF LockInv, LockTypeOK
<1>3. LockTypeOK'
  <2>1. Append(sem.queue, t) \in Seq(Thread)
    BY DEF LockInv, LockTypeOK
  <2>2. sem' \in [value : Nat, queue : Seq(Thread)]
    BY <1>1, <2>1, RecordFacts DEF LockInv, LockTypeOK
  <2> QED BY <1>1, <2>2 DEF LockInv, LockTypeOK
<1>q. /\ Len(sem.queue) \in Nat /\ DOMAIN sem.queue = 1 .. Len(sem.queue)
      /\ DOMAIN sem'.queue = 1 .. Len(sem.queue) + 1
      /\ sem'.queue[Len(sem.queue) + 1] = t
      /\ \A i \in DOMAIN sem.queue : sem'.queue[i] = sem.queue[i] /\ sem.queue[i] \in Thread
  BY <1>2, QueueFacts DEF LockInv
<1>4. ~Blocked(sem, t)
  BY <1>1 DEF LockInv, QueueExact
<1>5. \A u \in Thread : Blocked(sem', u) <=> Blocked(sem, u) \/ u = t
  BY <1>q DEF Blocked
<1>6. QueueExact'
  <2>1. \A i, j \in DOMAIN sem'.queue : sem'.queue[i] = sem'.queue[j] => i = j
    BY SMTT(30), <1>q, <1>4 DEF LockInv, QueueExact, Blocked
  <2>2. \A u \in Thread :
         /\ Blocked(sem', u) <=> wait_state'[u] = "WT_KSEM"
         /\ Blocked(sem', u) <=> at'[u] = "down" /\ flags'[u] # "WT_KSEM"
    BY <1>1, <1>5 DEF LockInv, QueueExact, LockTypeOK
  <2> QED BY <2>1, <2>2 DEF QueueExact, Blocked
<1>7. NoWaiterMissed' /\ NoPanic'
  BY <1>1, <1>2 DEF LockInv, LockTypeOK, NoWaiterMissed, NoPanic
<1>8. Granted' = Granted /\ Inside' = Inside
  BY <1>1 DEF LockInv, LockTypeOK, Granted, Inside
<1>9. Permitted'
  BY <1>2, <1>8 DEF Permitted, LockInv
<1> QED BY <1>2, <1>3, <1>6, <1>7, <1>8, <1>9 DEF LockInv

\* __down after its schedule(): up() has given the thread the semaphore.
LEMMA DownReturnsStep ==
    ASSUME LockInv, NEW t \in Thread, DownReturns(t)
    PROVE  /\ LockInv'
           /\ sem' = sem /\ t \in Granted /\ Granted' = Granted \ {t}
           /\ t \notin Inside /\ Inside' = Inside \cup {t}
<1>1. at[t] = "down" /\ wait_state[t] = "none" /\ ~Blocked(sem, t) /\ flags[t] = "WT_KSEM"
  BY DEF DownReturns, LockInv, QueueExact
<1>2. /\ sem' = sem /\ at' = [at EXCEPT ![t] = "in"]
      /\ wait_state' = wait_state /\ flags' = flags /\ exiting' = exiting
  BY <1>1 DEF DownReturns
<1>3. LockTypeOK'
  BY <1>2 DEF LockInv, LockTypeOK
<1>4. QueueExact'
  BY <1>1, <1>2 DEF LockInv, LockTypeOK, QueueExact, Blocked
<1>5. NoWaiterMissed' /\ NoPanic'
  BY <1>2 DEF LockInv, LockTypeOK, NoWaiterMissed, NoPanic
<1>6. t \in Granted /\ Granted' = Granted \ {t} /\ t \notin Inside /\ Inside' = Inside \cup {t}
  BY <1>1, <1>2 DEF LockInv, LockTypeOK, Granted, Inside
<1>7. Permitted'
  <2>1. /\ IsFiniteSet(Inside) /\ Cardinality(Inside) \in Nat
        /\ IsFiniteSet(Granted) /\ Cardinality(Granted) \in Nat /\ sem.value \in Nat
    BY FiniteSubsets DEF Inside, Granted, LockInv, LockTypeOK
  <2>2. Cardinality(Inside') = Cardinality(Inside) + 1
    BY <1>6, <2>1, FS_AddElement
  <2>3. Cardinality(Granted') = Cardinality(Granted) - 1
    BY <1>6, <2>1, FS_RemoveElement
  <2> QED BY <1>2, <2>1, <2>2, <2>3 DEF Permitted, LockInv
<1> QED BY <1>2, <1>3, <1>4, <1>5, <1>6, <1>7 DEF LockInv

\* up(): the first waiter is handed the semaphore, or the value rises.
LEMMA UpStep ==
    ASSUME LockInv, NEW t \in Thread, Up(t)
    PROVE  /\ LockInv'
           /\ sem.queue # <<>> => sem'.queue = Tail(sem.queue)
           /\ sem.queue = <<>> => sem'.queue = <<>>
           /\ t \in Inside /\ Inside' = Inside \ {t}
           /\ sem'.value + Cardinality(Granted') = sem.value + Cardinality(Granted) + 1
<1> USE DEF LockInv
<1>1. /\ at[t] = "in" /\ sem' = up(sem) /\ exiting' = exiting
      /\ at' = [at EXCEPT ![t] = IF \A u \in Off(sem') : wait_state[u] = "WT_KSEM"
                                 THEN "out" ELSE "panic"]
      /\ wait_state' = [u \in Thread |-> IF u \in Off(sem') THEN "none" ELSE wait_state[u]]
      /\ flags' = [u \in Thread |-> IF u \in Off(sem') THEN "WT_KSEM" ELSE flags[u]]
  BY DEF Up, UpTo
<1>2. \A u \in Off(sem') : wait_state[u] = "WT_KSEM"
  BY DEF Off, QueueExact
<1>3. at' = [at EXCEPT ![t] = "out"]
  BY <1>1, <1>2
<1>i. t \in Inside /\ Inside' = Inside \ {t}
  BY <1>1, <1>3 DEF Inside, LockTypeOK
<1>c. /\ IsFiniteSet(Inside) /\ Cardinality(Inside) \in Nat
      /\ IsFiniteSet(Granted) /\ Cardinality(Granted) \in Nat /\ sem.value \in Nat
      /\ Cardinality(Inside') = Cardinality(Inside) - 1
  <2>1. /\ IsFiniteSet(Inside) /\ Cardinality(Inside) \in Nat
        /\ IsFiniteSet(Granted) /\ Cardinality(Granted) \in Nat /\ sem.value \in Nat
    BY FiniteSubsets DEF Inside, Granted, LockTypeOK
  <2> QED BY <1>i, <2>1, FS_RemoveElement
<1>n. NoPanic'
  BY <1>1, <1>3 DEF LockTypeOK, NoPanic
<1>4. CASE sem.queue = <<>>
  <2>1. sem'.value = sem.value + 1 /\ sem'.queue = <<>>
        /\ sem' \in [value : Nat, queue : Seq(Thread)]
    BY <1>1, <1>4 DEF up, LockTypeOK
  <2>2. Off(sem') = {}
    BY <1>4 DEF Off, Blocked
  <2>3. wait_state' = wait_state /\ flags' = flags
    BY <1>1, <2>2 DEF LockTypeOK
  <2>4. LockTypeOK'
    BY <1>1, <1>3, <2>1, <2>3 DEF LockTypeOK
  <2>5. QueueExact'
    BY <1>1, <1>3, <1>4, <2>1, <2>3 DEF LockTypeOK, QueueExact, Blocked
  <2>6. Granted' = Granted
    BY <1>1, <1>3, <2>3 DEF Granted, LockTypeOK
  <2>7. Permitted'
    BY <1>c, <2>1, <2>6 DEF Permitted
  <2> QED BY <1>i, <1>n, <1>c, <1>4, <2>1, <2>4, <2>5, <2>6, <2>7 DEF NoWaiterMissed
<1>5. CASE sem.queue # <<>>
  <2> DEFINE h == sem.queue[1]
  <2>1. /\ sem'.value = sem.value /\ sem'.queue = Tail(sem.queue)
        /\ sem' \in [value : Nat, queue : Seq(Thread)]
    <3>1. sem' = [sem EXCEPT !.queue = Tail(sem.queue)]
      BY <1>1, <1>5 DEF up
    <3>2. Tail(sem.queue) \in Seq(Thread)
      BY <1>5 DEF LockTypeOK
    <3> QED BY <3>1, <3>2, RecordFacts DEF LockTypeOK
  <2>2. /\ Len(sem.queue) \in Nat \ {0} /\ DOMAIN sem.queue = 1 .. Len(sem.queue)
        /\ DOMAIN sem'.queue = 1 .. Len(sem.queue) - 1 /\ h \in Thread
        /\ \A i \in DOMAIN sem'.queue : i + 1 \in DOMAIN sem.queue /\ sem'.queue[i] = sem.queue[i + 1]
    BY <1>5, <2>1, QueueFacts DEF LockTypeOK
  <2>3. Blocked(sem, h) /\ ~Blocked(sem', h)
    <3>1. 1 \in DOMAIN sem.queue
      BY <2>2
    <3>2. \A i \in DOMAIN sem'.queue : sem'.queue[i] # h
      <4> SUFFICES ASSUME NEW i \in DOMAIN sem'.queue, sem'.queue[i] = h PROVE FALSE
        OBVIOUS
      <4>1. i + 1 = 1
        BY <2>2, <3>1 DEF QueueExact
      <4> QED BY <2>2, <4>1
    <3> QED BY <3>1, <3>2 DEF Blocked
  <2>4. \A u \in Thread \ {h} : Blocked(sem', u) <=> Blocked(sem, u)
    <3> SUFFICES ASSUME NEW u \in Thread \ {h} PROVE Blocked(sem', u) <=> Blocked(sem, u)
      OBVIOUS
    <3>1. ASSUME Blocked(sem, u) PROVE Blocked(sem', u)
      <4>1. PICK i \in DOMAIN sem.queue : sem.queue[i] = u
        BY <3>1 DEF Blocked
      <4>2. i # 1 /\ i - 1 \in DOMAIN sem'.queue /\ sem'.queue[i - 1] = u
        BY <4>1, <2>2
      <4> QED BY <4>2 DEF Blocked
    <3> QED BY <3>1, <2>2 DEF Blocked
  <2>5. Off(sem') = {h}
    BY <2>2, <2>3, <2>4 DEF Off
  <2>6. /\ wait_state' = [wait_state EXCEPT ![h] = "none"]
        /\ flags' = [flags EXCEPT ![h] = "WT_KSEM"]
    BY <1>1, <2>5, <2>2 DEF LockTypeOK
  <2>7. LockTypeOK'
    BY <1>1, <1>3, <2>1, <2>2, <2>6 DEF LockTypeOK
  <2>8. h # t /\ at[h] = "down" /\ flags[h] # "WT_KSEM"
    BY <1>1, <2>2, <2>3 DEF QueueExact
  <2>9. QueueExact'
    <3>1. \A i, j \in DOMAIN sem'.queue : sem'.queue[i] = sem'.queue[j] => i = j
      <4> SUFFICES ASSUME NEW i \in DOMAIN sem'.queue, NEW j \in DOMAIN sem'.queue,
                          sem'.queue[i] = sem'.queue[j]
                   PROVE  i = j
        OBVIOUS
      <4>1. i + 1 = j + 1
        BY <2>2 DEF QueueExact
      <4> QED BY <2>2, <4>1
    <3>2. \A u \in Thread :
           /\ Blocked(sem', u) <=> wait_state'[u] = "WT_KSEM"
           /\ Blocked(sem', u) <=> at'[u] = "down" /\ flags'[u] # "WT_KSEM"
      <4>1. ASSUME NEW u \in Thread \ {h}
            PROVE  /\ Blocked(sem', u) <=> wait_state'[u] = "WT_KSEM"
                   /\ Blocked(sem', u) <=> at'[u] = "down" /\ flags'[u] # "WT_KSEM"
        <5>1. wait_state'[u] = wait_state[u] /\ flags'[u] = flags[u]
          BY <4>1, <2>6 DEF LockTypeOK
        <5>2. at'[u] = "down" <=> at[u] = "down"
          BY <4>1, <1>1, <1>3 DEF LockTypeOK
        <5>3. /\ Blocked(sem, u) <=> wait_state[u] = "WT_KSEM"
              /\ Blocked(sem, u) <=> at[u] = "down" /\ flags[u] # "WT_KSEM"
              /\ Blocked(sem', u) <=> Blocked(sem, u)
          BY <4>1, <2>4 DEF QueueExact
        <5> QED BY <5>1, <5>2, <5>3
      <4>2. wait_state'[h] = "none" /\ flags'[h] = "WT_KSEM"
        BY <2>2, <2>6 DEF LockTypeOK
      <4> QED BY <4>1, <4>2, <2>3
    <3> QED BY <3>1, <3>2 DEF QueueExact, Blocked
  <2>10. h \notin Granted /\ Granted' = Granted \cup {h}
    BY <1>1, <1>3, <2>2, <2>6, <2>8 DEF Granted, LockTypeOK
  <2>11. Cardinality(Granted') = Cardinality(Granted) + 1
    BY <1>c, <2>10, FS_AddElement
  <2>12. Permitted'
    <3>1. sem.value + Cardinality(Granted) + Cardinality(Inside) = Permits
      BY DEF Permitted
    <3>2. sem'.value = sem.value
      BY <2>1
    <3>3. /\ Cardinality(Inside) \in Nat /\ Cardinality(Granted) \in Nat /\ sem.value \in Nat
          /\ Cardinality(Inside') = Cardinality(Inside) - 1
      BY <1>c
    <3>4. sem'.value + Cardinality(Granted') + Cardinality(Inside') = Permits
      BY <3>1, <3>2, <3>3, <2>11
    <3> QED BY <3>4 DEF Permitted
  <2>13. NoWaiterMissed'
    BY <1>5, <2>1 DEF NoWaiterMissed, LockTypeOK
  <2> QED BY SMTT(30), <1>i, <1>n, <1>c, <1>5, <2>1, <2>7, <2>9, <2>11, <2>12, <2>13
<1> QED BY <1>4, <1>5

\* do_kill leaves a thread that sleeps in __down asleep.
LEMMA DoKillStep ==
    ASSUME LockInv, NEW t \in Thread, DoKill(t)
    PROVE  LockInv' /\ sem' = sem /\ Granted' = Granted /\ Inside' = Inside
<1>1. ~Interruptible(t)
  BY DEF LockInv, LockTypeOK, Interruptible
<1>2. /\ sem' = sem /\ at' = at /\ flags' = flags /\ wait_state' = wait_state
      /\ exiting' = exiting \cup {t}
  BY <1>1 DEF DoKill, LockInv, LockTypeOK
<1> QED BY <1>2 DEF LockInv, LockTypeOK, QueueExact, Blocked, NoWaiterMissed, Permitted, NoPanic,
                    Granted, Inside

LEMMA LockStep == LockInv /\ [LockNext]_lockVars => LockInv'
<1> SUFFICES ASSUME LockInv, [LockNext]_lockVars PROVE LockInv'
  OBVIOUS
<1>1. CASE UNCHANGED lockVars
  BY <1>1 DEF lockVars, LockInv, LockTypeOK, QueueExact, Blocked, NoWaiterMissed, Permitted, NoPanic,
              Granted, Inside
<1>2. ASSUME NEW t \in Thread, DownAtOnce(t) PROVE LockInv'
  BY <1>2, DownAtOnceStep
<1>3. ASSUME NEW t \in Thread, DownWaits(t) PROVE LockInv'
  BY <1>3, DownWaitsStep
<1>4. ASSUME NEW t \in Thread, DownReturns(t) PROVE LockInv'
  BY <1>4, DownReturnsStep
<1>5. ASSUME NEW t \in Thread, Up(t) PROVE LockInv'
  BY <1>5, UpStep
<1>6. ASSUME NEW t \in Thread, DoKill(t) PROVE LockInv'
  BY <1>6, DoKillStep
<1> QED BY <1>1, <1>2, <1>3, <1>4, <1>5, <1>6 DEF LockNext

\* The wait queue holds exactly the sleeping threads, no permit is lost or made,
\* whatever do_kill and the interleaving of down() and up() do.
THEOREM LockInvariant == LockSpec => []LockInv
BY InitLock, LockStep, PTL DEF LockSpec

\* At most Permits threads are between down() and up().
THEOREM MutualExclusion == LockSpec => []Exclusion
<1>1. LockInv => Exclusion
  BY FiniteSubsets, LockAssumption DEF LockInv, LockTypeOK, Permitted, Exclusion, Granted, Inside
<1> QED BY <1>1, LockInvariant, PTL

\* The assertions of sem.c hold: up() only wakes a thread that waits with WT_KSEM,
\* and down() never returns from a wait that do_kill ended.
THEOREM SemAssertions == LockSpec => []NoPanic
<1>1. LockInv => NoPanic
  BY DEF LockInv
<1> QED BY <1>1, LockInvariant, PTL

-----------------------------------------------------------------------------
\* Waiters leave the queue in the order in which they came.
THEOREM FirstComeFirstServed == LockSpec => Fifo
<1> DEFINE Kept == \A i, j \in DOMAIN sem.queue :
                i < j /\ Blocked(sem', sem.queue[i]) => Blocked(sem', sem.queue[j])
<1>1. ASSUME LockInv, sem'.queue = sem.queue PROVE Kept
  BY <1>1 DEF Blocked
<1>2. ASSUME LockInv, [LockNext]_lockVars PROVE [Kept]_lockVars
  <2> USE <1>2
  <2>1. ASSUME NEW t \in Thread, DownWaits(t) PROVE Kept
    <3>1. sem'.queue = Append(sem.queue, t)
      BY <2>1, DownWaitsStep
    <3>2. \A j \in DOMAIN sem.queue : j \in DOMAIN sem'.queue /\ sem'.queue[j] = sem.queue[j]
      BY <3>1, QueueFacts DEF LockInv
    <3> QED BY <3>2 DEF Blocked
  <2>2. ASSUME NEW t \in Thread, Up(t) PROVE Kept
    <3>1. CASE sem.queue = <<>>
      BY <3>1
    <3>2. CASE sem.queue # <<>>
      <4>1. sem'.queue = Tail(sem.queue)
        BY <2>2, <3>2, UpStep
      <4>2. \A j \in DOMAIN sem.queue \ {1} :
                j - 1 \in DOMAIN sem'.queue /\ sem'.queue[j - 1] = sem.queue[j]
        BY <3>2, <4>1, QueueFacts DEF LockInv
      <4>3. \A i, j \in DOMAIN sem.queue : i < j => j # 1
        BY QueueFacts DEF LockInv
      <4> QED BY <4>2, <4>3 DEF Blocked
    <3> QED BY <3>1, <3>2
  <2>3. ASSUME NEW t \in Thread, DownAtOnce(t) PROVE Kept
    <3>1. sem'.queue = sem.queue
      BY <2>3 DEF DownAtOnce, down, LockInv, LockTypeOK
    <3> QED BY <3>1, <1>1
  <2>4. ASSUME NEW t \in Thread, DownReturns(t) \/ DoKill(t) PROVE Kept
    <3>1. sem' = sem
      BY <2>4, DownReturnsStep, DoKillStep
    <3> QED BY <3>1, <1>1
  <2> QED BY <2>1, <2>2, <2>3, <2>4 DEF LockNext
<1>3. LockInv /\ [LockNext]_lockVars => [Kept]_lockVars
  BY <1>2
<1> QED BY <1>3, LockInvariant, PTL DEF LockSpec, Fifo

\* sem.c implements the counting semaphore of SemSpec.
THEOREM ImplementsCounter == LockSpec => CounterSafety
<1> DEFINE f == sem.value + Cardinality(Granted)
<1>1. LockInit => Counter!SemInit
  <2> SUFFICES ASSUME LockInit PROVE f = Permits /\ Inside = {}
    BY DEF Counter!SemInit
  <2>1. Granted = {} /\ Inside = {}
    BY DEF LockInit, Granted, Inside
  <2> QED BY <2>1, FS_EmptySet, LockAssumption DEF LockInit, sem_init
<1>2. ASSUME LockInv, [LockNext]_lockVars
      PROVE  [\E t \in Thread : Counter!Enter(t) \/ Counter!Leave(t)]_(Counter!semVars)
  <2> USE <1>2
  <2>0. /\ sem.value \in Nat /\ Cardinality(Granted) \in Nat /\ IsFiniteSet(Granted)
        /\ Cardinality(Inside) \in Nat
    BY FiniteSubsets DEF LockInv, LockTypeOK, Granted, Inside
  <2>1. ASSUME NEW t \in Thread, DownAtOnce(t) PROVE Counter!Enter(t)
    <3>1. /\ sem'.value = sem.value - 1 /\ Granted' = Granted
          /\ t \notin Inside /\ Inside' = Inside \cup {t} /\ sem.value > 0
      BY <2>1, DownAtOnceStep DEF DownAtOnce
    <3>2. f > 0 /\ f' = f - 1
      BY <3>1, <2>0
    <3> QED BY <3>1, <3>2 DEF Counter!Enter
  <2>2. ASSUME NEW t \in Thread, DownReturns(t) PROVE Counter!Enter(t)
    <3>1. /\ sem' = sem /\ t \in Granted /\ Granted' = Granted \ {t}
          /\ t \notin Inside /\ Inside' = Inside \cup {t}
      BY <2>2, DownReturnsStep
    <3>2. Cardinality(Granted') = Cardinality(Granted) - 1 /\ Cardinality(Granted') \in Nat
      BY <3>1, <2>0, FS_RemoveElement, FS_CardinalityType
    <3>3. f > 0 /\ f' = f - 1
      BY <3>1, <3>2, <2>0
    <3> QED BY <3>1, <3>3 DEF Counter!Enter
  <2>3. ASSUME NEW t \in Thread, Up(t) PROVE Counter!Leave(t)
    <3>1. /\ t \in Inside /\ Inside' = Inside \ {t} /\ f' = f + 1
      BY <2>3, UpStep
    <3> QED BY <3>1 DEF Counter!Leave
  <2>4. ASSUME NEW t \in Thread, DownWaits(t) \/ DoKill(t) PROVE UNCHANGED Counter!semVars
    <3>1. sem'.value = sem.value /\ Granted' = Granted /\ Inside' = Inside
      BY <2>4, DownWaitsStep, DoKillStep
    <3> QED BY <3>1 DEF Counter!semVars
  <2>5. CASE UNCHANGED lockVars
    BY <2>5 DEF lockVars, Counter!semVars, Granted, Inside
  <2> QED BY <2>1, <2>2, <2>3, <2>4, <2>5 DEF LockNext
<1>3. LockInv /\ [LockNext]_lockVars
          => [\E t \in Thread : Counter!Enter(t) \/ Counter!Leave(t)]_(Counter!semVars)
  BY <1>2
<1> QED BY <1>1, <1>3, LockInvariant, PTL DEF LockSpec, CounterSafety, Counter!SemSafety

-----------------------------------------------------------------------------
(* The monitor *)

Semaphore == [value : Nat, queue : Seq(Phil)]

Labels == {"think", "take", "hungry", "test", "signal", "sig_up", "sig_down", "sig_end", "check",
           "wait", "wait_up", "wait_down", "wait_end", "leave", "eat", "thinking", "quit"}

InMonitor == {"hungry", "thinking", "test", "signal", "sig_up", "sig_end", "check", "wait",
           "wait_up", "wait_end", "leave"}

TypeOK ==
    /\ state_condvar \in [Phil -> {"THINKING", "HUNGRY", "EATING"}]
    /\ mutex \in Semaphore /\ next \in Semaphore /\ cv \in [Phil -> Semaphore]
    /\ next_count \in Int /\ count \in [Phil -> Int]
    /\ pc \in [Phil -> Labels] /\ test \in [Phil -> Phil] /\ iter \in [Phil -> Nat]

\* No thread is twice on a queue, and up() raises the value only without a waiter.
Sound(s) ==
    /\ \A i, j \in DOMAIN s.queue : s.queue[i] = s.queue[j] => i = j
    /\ s.value > 0 => s.queue = <<>>

\* Where a thread sleeps, by what it does.
Sleeping ==
    /\ Sound(mutex) /\ Sound(next) /\ \A k \in Phil : Sound(cv[k])
    /\ \A i \in Phil : /\ Blocked(mutex, i) => pc[i] \in {"hungry", "thinking"}
                       /\ Blocked(next, i) => pc[i] = "sig_end"
    /\ \A k, i \in Phil : Blocked(cv[k], i) => i = k /\ pc[i] = "wait_end"

\* The right to be active is in one place: with the active thread, or in the
\* value of one of the semaphores, which is then 1.
NoneFree == mutex.value = 0 /\ next.value = 0 /\ \A k \in Phil : cv[k].value = 0

OneToken ==
    /\ mutex.value <= 1 /\ next.value <= 1 /\ \A k \in Phil : cv[k].value <= 1
    /\ \A i, j \in Active : i = j
    /\ Active # {} => NoneFree
    /\ mutex.value > 0 => next.value = 0 /\ \A k \in Phil : cv[k].value = 0
    /\ next.value > 0 => \A k \in Phil : cv[k].value = 0
    /\ \A k, l \in Phil : cv[k].value > 0 /\ cv[l].value > 0 => k = l
    /\ Active # {} \/ ~NoneFree

\* Whoever signals, or was signalled and has not run yet, may eat.
Promised ==
    /\ \A j \in Phil : pc[j] \in {"signal", "sig_up"} => state_condvar[test[j]] = "EATING"
    /\ \A k \in Phil : cv[k].value > 0 => state_condvar[k] = "EATING"

\* What the monitor is for: nobody eats while a neighbour does.
Apart == \A k \in Phil : state_condvar[k] = "EATING" => state_condvar[LEFT(k)] # "EATING"

\* The inductive invariant.
MonitorInv == TypeOK /\ Sleeping /\ OneToken /\ Promised /\ ConditionHolds /\ CountsExact /\ Apart

-----------------------------------------------------------------------------
(* The semaphores *)

LEMMA SemFacts ==
    ASSUME NEW s \in Semaphore
    PROVE  /\ s.value \in Nat /\ s.queue \in Seq(Phil) /\ Len(s.queue) \in Nat
           /\ DOMAIN s.queue = 1 .. Len(s.queue)
           /\ \A i \in DOMAIN s.queue : s.queue[i] \in Phil
BY DEF Semaphore

LEMMA SemValue ==
    ASSUME NEW s \in Semaphore, NEW v \in Nat, NEW r, r = [s EXCEPT !.value = v]
    PROVE  r \in Semaphore /\ r.value = v /\ r.queue = s.queue
BY DEF Semaphore

LEMMA SemQueue ==
    ASSUME NEW s \in Semaphore, NEW q \in Seq(Phil), NEW r, r = [s EXCEPT !.queue = q]
    PROVE  r \in Semaphore /\ r.value = s.value /\ r.queue = q
BY DEF Semaphore

\* down() takes the semaphore, or puts its caller on the queue.
LEMMA DownSem ==
    ASSUME NEW s \in Semaphore, Sound(s), NEW t \in Phil, ~Blocked(s, t),
           NEW r, r = down(s, t)
    PROVE  /\ r \in Semaphore /\ Sound(r)
           /\ \/ /\ s.value > 0 /\ r.value = s.value - 1
                 /\ \A x \in Phil : Blocked(r, x) <=> Blocked(s, x)
              \/ /\ s.value = 0 /\ r.value = 0
                 /\ \A x \in Phil : Blocked(r, x) <=> Blocked(s, x) \/ x = t
<1>1. CASE s.value > 0
  <2>1. r = [s EXCEPT !.value = s.value - 1] /\ s.value - 1 \in Nat
    BY <1>1, SemFacts DEF down
  <2>2. r \in Semaphore /\ r.value = s.value - 1 /\ r.queue = s.queue
    BY <2>1, SemFacts, SemValue
  <2> QED BY <1>1, <2>2 DEF Sound, Blocked
<1>2. CASE ~(s.value > 0)
  <2>1. Append(s.queue, t) \in Seq(Phil) /\ s.value = 0
    BY <1>2, SemFacts
  <2>2. r = [s EXCEPT !.queue = Append(s.queue, t)]
    BY <1>2 DEF down
  <2>3. r \in Semaphore /\ r.value = 0 /\ r.queue = Append(s.queue, t)
    <3> DEFINE q == Append(s.queue, t)
    <3>1. q \in Seq(Phil) /\ r = [s EXCEPT !.queue = q]
      BY <2>1, <2>2
    <3> HIDE DEF q
    <3>2. r \in Semaphore /\ r.value = s.value /\ r.queue = q
      BY <3>1, SemQueue
    <3> QED BY <2>1, <3>2 DEF q
  <2>4. /\ DOMAIN r.queue = 1 .. Len(s.queue) + 1
        /\ r.queue[Len(s.queue) + 1] = t
        /\ \A i \in DOMAIN s.queue : r.queue[i] = s.queue[i]
    BY <2>3, SemFacts
  <2>5. \A i, j \in DOMAIN r.queue : r.queue[i] = r.queue[j] => i = j
    <3> SUFFICES ASSUME NEW i \in DOMAIN r.queue, NEW j \in DOMAIN r.queue, r.queue[i] = r.queue[j]
                 PROVE  i = j
      OBVIOUS
    <3> DEFINE n == Len(s.queue)
    <3>1. \A k \in DOMAIN r.queue : k \in DOMAIN s.queue \/ k = n + 1
      BY <2>4, SemFacts
    <3>2. \A k \in DOMAIN s.queue : r.queue[k] = s.queue[k] /\ s.queue[k] # t
      BY <2>4 DEF Blocked
    <3>3. r.queue[n + 1] = t
      BY <2>4
    <3>4. CASE i \in DOMAIN s.queue /\ j \in DOMAIN s.queue
      <4>1. s.queue[i] = s.queue[j]
        BY <3>2, <3>4
      <4> QED BY <3>4, <4>1 DEF Sound
    <3> HIDE DEF n
    <3> QED BY <3>1, <3>2, <3>3, <3>4
  <2>6. \A x \in Phil : Blocked(r, x) <=> Blocked(s, x) \/ x = t
    <3>1. DOMAIN s.queue \subseteq DOMAIN r.queue /\ Len(s.queue) + 1 \in DOMAIN r.queue
      BY <2>4, SemFacts
    <3>2. \A i \in DOMAIN r.queue : i \in DOMAIN s.queue \/ i = Len(s.queue) + 1
      BY <2>4, SemFacts
    <3> QED BY <2>4, <3>1, <3>2 DEF Blocked
  <2> QED BY <2>1, <2>3, <2>5, <2>6 DEF Sound
<1> QED BY <1>1, <1>2

\* up() hands the semaphore to the first waiter, or raises the value.
LEMMA UpSem ==
    ASSUME NEW s \in Semaphore, Sound(s), s.value = 0, NEW r, r = up(s)
    PROVE  /\ r \in Semaphore /\ Sound(r)
           /\ \/ /\ r.value = 1 /\ \A x \in Phil : ~Blocked(r, x) /\ ~Blocked(s, x)
              \/ /\ r.value = 0
                 /\ \E h \in Phil : /\ Blocked(s, h)
                                    /\ \A x \in Phil : Blocked(r, x) <=> Blocked(s, x) /\ x # h
<1>1. CASE s.queue = <<>>
  <2>1. r = [s EXCEPT !.value = s.value + 1] /\ s.value + 1 = 1
    BY <1>1 DEF up
  <2>2. r \in Semaphore /\ r.value = 1 /\ r.queue = s.queue
    BY <2>1, SemFacts, SemValue
  <2>3. DOMAIN s.queue = {}
    BY <1>1
  <2> QED BY <1>1, <2>2, <2>3 DEF Sound, Blocked
<1>2. CASE s.queue # <<>>
  <2>1. Tail(s.queue) \in Seq(Phil)
    BY <1>2, SemFacts
  <2>2. r = [s EXCEPT !.queue = Tail(s.queue)]
    BY <1>2 DEF up
  <2>3. r \in Semaphore /\ r.value = 0 /\ r.queue = Tail(s.queue)
    <3> DEFINE q == Tail(s.queue)
    <3>1. q \in Seq(Phil) /\ r = [s EXCEPT !.queue = q]
      BY <2>1, <2>2
    <3> HIDE DEF q
    <3>2. r \in Semaphore /\ r.value = s.value /\ r.queue = q
      BY <3>1, SemQueue
    <3> QED BY <2>1, <3>2 DEF q
  <2>4. /\ Len(s.queue) >= 1
        /\ DOMAIN r.queue = 1 .. Len(s.queue) - 1
        /\ \A i \in DOMAIN r.queue : i + 1 \in DOMAIN s.queue /\ r.queue[i] = s.queue[i + 1]
    BY <1>2, <2>3, SemFacts
  <2> DEFINE h == s.queue[1]
  <2>5. 1 \in DOMAIN s.queue /\ h \in Phil
    BY <2>4, SemFacts
  <2>6. \A i, j \in DOMAIN r.queue : r.queue[i] = r.queue[j] => i = j
    <3> SUFFICES ASSUME NEW i \in DOMAIN r.queue, NEW j \in DOMAIN r.queue, r.queue[i] = r.queue[j]
                 PROVE  i = j
      OBVIOUS
    <3>1. i + 1 = j + 1
      BY <2>4 DEF Sound
    <3> QED BY <2>4, <3>1
  <2>7. \A x \in Phil : Blocked(r, x) <=> Blocked(s, x) /\ x # h
    <3>1. ASSUME NEW x \in Phil, Blocked(r, x) PROVE Blocked(s, x) /\ x # h
      <4>1. PICK i \in DOMAIN r.queue : r.queue[i] = x
        BY <3>1 DEF Blocked
      <4>2. i + 1 \in DOMAIN s.queue /\ s.queue[i + 1] = x /\ i + 1 # 1
        BY <2>4, <4>1
      <4> QED BY <2>5, <4>2 DEF Blocked, Sound
    <3>2. ASSUME NEW x \in Phil, Blocked(s, x), x # h PROVE Blocked(r, x)
      <4>1. PICK i \in DOMAIN s.queue : s.queue[i] = x
        BY <3>2 DEF Blocked
      <4>2. i # 1
        BY <3>2, <4>1
      <4>3. i - 1 \in DOMAIN r.queue /\ (i - 1) + 1 = i
        BY <2>4, <4>1, <4>2, SemFacts
      <4>4. r.queue[i - 1] = x
        BY <2>4, <4>1, <4>3
      <4> QED BY <4>3, <4>4 DEF Blocked
    <3> QED BY <3>1, <3>2
  <2>8. Blocked(s, h)
    BY <2>5 DEF Blocked
  <2>9. /\ r.value = 0
        /\ \E g \in Phil : /\ Blocked(s, g)
                           /\ \A x \in Phil : Blocked(r, x) <=> Blocked(s, x) /\ x # g
    BY <2>3, <2>5, <2>7, <2>8
  <2> QED BY <2>3, <2>6, <2>9 DEF Sound
<1> QED BY <1>1, <1>2

-----------------------------------------------------------------------------
(* Who is active *)

LEMMA PhilFacts ==
    /\ \A i \in Phil : LEFT(i) \in Phil /\ RIGHT(i) \in Phil
    /\ IsFiniteSet(Phil)
<1>1. \A i \in Phil : LEFT(i) \in Phil /\ RIGHT(i) \in Phil
  BY MonitorAssumption DEF Phil, LEFT, RIGHT
<1>2. IsFiniteSet(Phil)
  BY MonitorAssumption, FS_Interval DEF Phil
<1> QED BY <1>1, <1>2

\* A thread at one of these labels is awake.
LEMMA Awake ==
    ASSUME Sleeping, NEW i \in Phil,
           pc[i] \notin {"hungry", "thinking", "sig_end", "wait_end"}
    PROVE  ~Asleep(i)
BY DEF Sleeping, Asleep

\* A thread that runs inside the monitor is the only one: the semaphores are all
\* taken, and nobody else is between a test and its signal, or past a signal.
LEMMA OnlyActive ==
    ASSUME Sleeping, OneToken, NEW i \in Phil, pc[i] \in InMonitor, ~Asleep(i)
    PROVE  /\ i \in Active /\ Active = {i} /\ NoneFree
           /\ \A j \in Phil \ {i} : pc[j] \notin {"signal", "sig_up"} /\ ~At(j, "wait_end")
<1>1. i \in Active
  BY DEF Active, InMonitor
<1>2. Active = {i} /\ NoneFree
  BY <1>1 DEF OneToken
<1>3. ASSUME NEW j \in Phil \ {i} PROVE pc[j] \notin {"signal", "sig_up"} /\ ~At(j, "wait_end")
  <2>1. j \notin Active
    BY <1>2
  <2>2. pc[j] \in {"signal", "sig_up"} => ~Asleep(j)
    BY Awake
  <2> QED BY <2>1, <2>2 DEF Active, At
<1> QED BY <1>1, <1>2, <1>3

(* The steps, by what they do with the right to be active. *)

Kept == Sleeping' /\ OneToken' /\ Promised' /\ ConditionHolds'

\* The active thread goes on inside the monitor.
LEMMA GoesOn ==
    ASSUME TypeOK, Sleeping, OneToken, NEW i \in Phil, pc[i] \in InMonitor, ~Asleep(i),
           NEW l \in InMonitor \ {"wait_end"}, pc' = [pc EXCEPT ![i] = l],
           UNCHANGED <<mutex, next, cv>>,
           l \in {"signal", "sig_up"} => state_condvar'[test'[i]] = "EATING"
    PROVE  Kept
<1>1. pc'[i] = l /\ \A j \in Phil \ {i} : pc'[j] = pc[j]
  BY DEF TypeOK
<1>2. \A x \in Phil : Asleep(x)' = Asleep(x)
  BY DEF Asleep
<1>3. Active = {i} /\ NoneFree
      /\ \A j \in Phil \ {i} : pc[j] \notin {"signal", "sig_up"} /\ ~At(j, "wait_end")
  BY OnlyActive
<1>4. Active' = Active
  BY <1>1, <1>2, <1>3 DEF Active, InMonitor
<1>5. Sleeping'
  BY <1>1 DEF Sleeping, Asleep
<1>6. OneToken'
  BY <1>3, <1>4 DEF OneToken, NoneFree
<1>7. Promised'
  BY <1>1, <1>3 DEF Promised, NoneFree
<1>8. ConditionHolds'
  BY <1>1, <1>2, <1>3 DEF ConditionHolds, At
<1> QED BY <1>5, <1>6, <1>7, <1>8 DEF Kept

\* The active thread leaves and up()s mutex.
LEMMA GivesMutex ==
    ASSUME TypeOK, Sleeping, OneToken, NEW i \in Phil, pc[i] \in InMonitor, ~Asleep(i),
           NEW l \in Labels \ InMonitor, pc' = [pc EXCEPT ![i] = l],
           mutex' = up(mutex), UNCHANGED <<next, cv, state_condvar, test>>
    PROVE  Kept
<1>1. pc'[i] = l /\ \A j \in Phil \ {i} : pc'[j] = pc[j]
  BY DEF TypeOK
<1>2. Active = {i} /\ NoneFree
      /\ \A j \in Phil \ {i} : pc[j] \notin {"signal", "sig_up"} /\ ~At(j, "wait_end")
  BY OnlyActive
<1>3. /\ mutex' \in Semaphore /\ Sound(mutex')
      /\ \/ /\ mutex'.value = 1 /\ \A x \in Phil : ~Blocked(mutex', x) /\ ~Blocked(mutex, x)
         \/ /\ mutex'.value = 0
            /\ \E h \in Phil : /\ Blocked(mutex, h)
                               /\ \A x \in Phil : Blocked(mutex', x) <=> Blocked(mutex, x) /\ x # h
  BY <1>2, UpSem DEF TypeOK, Sleeping, NoneFree
<1>4. Sleeping'
  <2>1. \A x \in Phil : Blocked(mutex', x) => Blocked(mutex, x)
    BY <1>3
  <2> QED BY <1>1, <1>3, <2>1 DEF Sleeping, Asleep
<1>5. Promised'
  BY <1>1, <1>2 DEF Promised, NoneFree, InMonitor
<1>6. CASE /\ mutex'.value = 1 /\ \A x \in Phil : ~Blocked(mutex', x) /\ ~Blocked(mutex, x)
  <2>1. \A x \in Phil : Asleep(x)' = Asleep(x)
    BY <1>6 DEF Asleep
  <2>2. Active' = {}
    BY <1>1, <1>2, <2>1 DEF Active, InMonitor
  <2>3. OneToken'
    BY <1>2, <1>6, <2>2 DEF OneToken, NoneFree
  <2>4. ConditionHolds'
    BY <1>1, <1>2, <2>1 DEF ConditionHolds, At, InMonitor
  <2> QED BY <1>4, <1>5, <2>3, <2>4 DEF Kept
<1>7. CASE /\ mutex'.value = 0
           /\ \E h \in Phil : /\ Blocked(mutex, h)
                              /\ \A x \in Phil : Blocked(mutex', x) <=> Blocked(mutex, x) /\ x # h
  <2>1. PICK h \in Phil : /\ Blocked(mutex, h)
                          /\ \A x \in Phil : Blocked(mutex', x) <=> Blocked(mutex, x) /\ x # h
    BY <1>7
  <2>2. h # i /\ pc[h] \in {"hungry", "thinking"}
    BY <2>1 DEF Sleeping, Asleep
  <2>3. ~Asleep(h)' /\ \A x \in Phil \ {h} : Asleep(x)' = Asleep(x)
    BY <2>1, <2>2 DEF Sleeping, Asleep
  <2>4. Active' = {h}
    BY <1>1, <1>2, <2>2, <2>3 DEF Active, InMonitor
  <2>5. OneToken'
    BY <1>2, <1>7, <2>4 DEF OneToken, NoneFree
  <2>6. ConditionHolds'
    BY <1>1, <1>2, <2>2, <2>3 DEF ConditionHolds, At, InMonitor
  <2> QED BY <1>4, <1>5, <2>5, <2>6 DEF Kept
<1> QED BY <1>3, <1>6, <1>7

\* ... or up()s next.
LEMMA GivesNext ==
    ASSUME TypeOK, Sleeping, OneToken, NEW i \in Phil, pc[i] \in InMonitor, ~Asleep(i),
           NEW l \in Labels \ InMonitor, pc' = [pc EXCEPT ![i] = l],
           next' = up(next), UNCHANGED <<mutex, cv, state_condvar, test>>
    PROVE  Kept
<1>1. pc'[i] = l /\ \A j \in Phil \ {i} : pc'[j] = pc[j]
  BY DEF TypeOK
<1>2. Active = {i} /\ NoneFree
      /\ \A j \in Phil \ {i} : pc[j] \notin {"signal", "sig_up"} /\ ~At(j, "wait_end")
  BY OnlyActive
<1>3. /\ next' \in Semaphore /\ Sound(next')
      /\ \/ /\ next'.value = 1 /\ \A x \in Phil : ~Blocked(next', x) /\ ~Blocked(next, x)
         \/ /\ next'.value = 0
            /\ \E h \in Phil : /\ Blocked(next, h)
                               /\ \A x \in Phil : Blocked(next', x) <=> Blocked(next, x) /\ x # h
  BY <1>2, UpSem DEF TypeOK, Sleeping, NoneFree
<1>4. Sleeping'
  <2>1. \A x \in Phil : Blocked(next', x) => Blocked(next, x)
    BY <1>3
  <2> QED BY <1>1, <1>3, <2>1 DEF Sleeping, Asleep
<1>5. Promised'
  BY <1>1, <1>2 DEF Promised, NoneFree, InMonitor
<1>6. CASE /\ next'.value = 1 /\ \A x \in Phil : ~Blocked(next', x) /\ ~Blocked(next, x)
  <2>1. \A x \in Phil : Asleep(x)' = Asleep(x)
    BY <1>6 DEF Asleep
  <2>2. Active' = {}
    BY <1>1, <1>2, <2>1 DEF Active, InMonitor
  <2>3. OneToken'
    BY <1>2, <1>6, <2>2 DEF OneToken, NoneFree
  <2>4. ConditionHolds'
    BY <1>1, <1>2, <2>1 DEF ConditionHolds, At, InMonitor
  <2> QED BY <1>4, <1>5, <2>3, <2>4 DEF Kept
<1>7. CASE /\ next'.value = 0
           /\ \E h \in Phil : /\ Blocked(next, h)
                              /\ \A x \in Phil : Blocked(next', x) <=> Blocked(next, x) /\ x # h
  <2>1. PICK h \in Phil : /\ Blocked(next, h)
                          /\ \A x \in Phil : Blocked(next', x) <=> Blocked(next, x) /\ x # h
    BY <1>7
  <2>2. h # i /\ pc[h] = "sig_end"
    BY <2>1 DEF Sleeping, Asleep
  <2>3. ~Asleep(h)' /\ \A x \in Phil \ {h} : Asleep(x)' = Asleep(x)
    BY <2>1, <2>2 DEF Sleeping, Asleep
  <2>4. Active' = {h}
    BY <1>1, <1>2, <2>2, <2>3 DEF Active, InMonitor
  <2>5. OneToken'
    BY <1>2, <1>7, <2>4 DEF OneToken, NoneFree
  <2>6. ConditionHolds'
    BY <1>1, <1>2, <2>2, <2>3 DEF ConditionHolds, At, InMonitor
  <2> QED BY <1>4, <1>5, <2>5, <2>6 DEF Kept
<1> QED BY <1>3, <1>6, <1>7

\* The signaller up()s the condition it has made true.
LEMMA GivesCondition ==
    ASSUME TypeOK, Sleeping, OneToken, NEW i \in Phil, pc[i] \in InMonitor, ~Asleep(i),
           NEW l \in Labels \ InMonitor, pc' = [pc EXCEPT ![i] = l],
           NEW k \in Phil, state_condvar[k] = "EATING", cv' = [cv EXCEPT ![k] = up(@)],
           UNCHANGED <<mutex, next, state_condvar, test>>
    PROVE  Kept
<1>1. /\ pc'[i] = l /\ \A j \in Phil \ {i} : pc'[j] = pc[j]
      /\ cv'[k] = up(cv[k]) /\ \A j \in Phil \ {k} : cv'[j] = cv[j]
  BY DEF TypeOK
<1>2. Active = {i} /\ NoneFree
      /\ \A j \in Phil \ {i} : pc[j] \notin {"signal", "sig_up"} /\ ~At(j, "wait_end")
  BY OnlyActive
<1>3. /\ cv'[k] \in Semaphore /\ Sound(cv'[k])
      /\ \/ /\ cv'[k].value = 1 /\ \A x \in Phil : ~Blocked(cv'[k], x) /\ ~Blocked(cv[k], x)
         \/ /\ cv'[k].value = 0
            /\ \E h \in Phil : /\ Blocked(cv[k], h)
                               /\ \A x \in Phil : Blocked(cv'[k], x) <=> Blocked(cv[k], x) /\ x # h
  <2>1. cv[k] \in Semaphore /\ Sound(cv[k]) /\ cv[k].value = 0
    BY <1>2 DEF TypeOK, Sleeping, NoneFree
  <2> QED BY <1>1, <2>1, UpSem
<1>4. Sleeping'
  <2>1. \A j, x \in Phil : Blocked(cv'[j], x) => Blocked(cv[j], x)
    BY <1>1, <1>3
  <2>2. \A j \in Phil : Sound(cv'[j])
    BY <1>1, <1>3 DEF Sleeping
  <2>3. \A j, x \in Phil : Blocked(cv'[j], x) => x = j /\ pc'[x] = "wait_end"
    BY <1>1, <2>1 DEF Sleeping, Asleep
  <2>4. \A x \in Phil : /\ Blocked(mutex', x) => pc'[x] \in {"hungry", "thinking"}
                        /\ Blocked(next', x) => pc'[x] = "sig_end"
    BY <1>1 DEF Sleeping, Asleep
  <2> QED BY <2>2, <2>3, <2>4 DEF Sleeping, Sound, Blocked
<1>5. Promised'
  BY <1>1, <1>2 DEF Promised, NoneFree, InMonitor
<1>6. CASE /\ cv'[k].value = 1 /\ \A x \in Phil : ~Blocked(cv'[k], x) /\ ~Blocked(cv[k], x)
  <2>1. \A x \in Phil : Asleep(x)' = Asleep(x)
    BY <1>1, <1>6 DEF Asleep
  <2>2. Active' = {}
    BY <1>1, <1>2, <2>1 DEF Active, InMonitor
  <2>3. OneToken'
    BY <1>1, <1>2, <1>6, <2>2 DEF OneToken, NoneFree
  <2>4. ConditionHolds'
    BY <1>1, <1>2, <2>1 DEF ConditionHolds, At, InMonitor
  <2> QED BY <1>4, <1>5, <2>3, <2>4 DEF Kept
<1>7. CASE /\ cv'[k].value = 0
           /\ \E h \in Phil : /\ Blocked(cv[k], h)
                              /\ \A x \in Phil : Blocked(cv'[k], x) <=> Blocked(cv[k], x) /\ x # h
  <2>1. PICK h \in Phil : /\ Blocked(cv[k], h)
                          /\ \A x \in Phil : Blocked(cv'[k], x) <=> Blocked(cv[k], x) /\ x # h
    BY <1>7
  <2>2. h # i /\ h = k /\ pc[h] = "wait_end"
    BY <2>1 DEF Sleeping, Asleep
  <2>3. \A x \in Phil : x # h => Asleep(x)' = Asleep(x)
    <3>1. \A x \in Phil \ {h}, j \in Phil : Blocked(cv'[j], x) <=> Blocked(cv[j], x)
      BY <1>1, <2>1
    <3> QED BY <3>1 DEF Asleep
  <2>4. ~Asleep(h)'
    <3>1. \A j \in Phil : ~Blocked(cv'[j], h)
      BY <1>1, <2>1, <2>2 DEF Sleeping
    <3>2. ~Blocked(mutex, h) /\ ~Blocked(next, h)
      BY <2>2 DEF Sleeping
    <3> QED BY <3>1, <3>2 DEF Asleep
  <2>5. Active' = {h}
    BY <1>1, <1>2, <2>2, <2>3, <2>4 DEF Active, InMonitor
  <2>6. OneToken'
    BY <1>1, <1>2, <1>7, <2>5 DEF OneToken, NoneFree
  <2>7. ConditionHolds'
    BY <1>1, <1>2, <2>2, <2>3 DEF ConditionHolds, At, InMonitor
  <2> QED BY <1>4, <1>5, <2>6, <2>7 DEF Kept
<1> QED BY <1>3, <1>6, <1>7

\* A thread down()s mutex to get in.
LEMMA TakesMutex ==
    ASSUME TypeOK, Sleeping, OneToken, Promised, ConditionHolds, NEW i \in Phil,
           pc[i] \in {"take", "eat"}, NEW l \in {"hungry", "thinking"}, pc' = [pc EXCEPT ![i] = l],
           mutex' = down(mutex, i), UNCHANGED <<next, cv, state_condvar, test>>
    PROVE  Kept
<1>1. pc'[i] = l /\ \A j \in Phil \ {i} : pc'[j] = pc[j]
  BY DEF TypeOK
<1>2. ~Asleep(i) /\ i \notin Active
  BY Awake DEF Active
<1>3. /\ mutex' \in Semaphore /\ Sound(mutex')
      /\ \/ /\ mutex.value > 0 /\ mutex'.value = mutex.value - 1
            /\ \A x \in Phil : Blocked(mutex', x) <=> Blocked(mutex, x)
         \/ /\ mutex.value = 0 /\ mutex'.value = 0
            /\ \A x \in Phil : Blocked(mutex', x) <=> Blocked(mutex, x) \/ x = i
  <2>1. mutex \in Semaphore /\ Sound(mutex) /\ ~Blocked(mutex, i)
    BY <1>2 DEF TypeOK, Sleeping, Asleep
  <2> QED BY <2>1, DownSem
<1>4. Sleeping'
  <2>1. \A x \in Phil : Blocked(mutex', x) => Blocked(mutex, x) \/ x = i
    BY <1>3
  <2> QED BY <1>1, <1>2, <1>3, <2>1 DEF Sleeping, Asleep
<1>5. Promised'
  BY <1>1 DEF Promised
<1>6. CASE /\ mutex.value > 0 /\ mutex'.value = mutex.value - 1
           /\ \A x \in Phil : Blocked(mutex', x) <=> Blocked(mutex, x)
  <2>1. \A x \in Phil : Asleep(x)' = Asleep(x)
    BY <1>6 DEF Asleep
  <2>2. mutex.value = 1 /\ Active = {}
    BY <1>6 DEF OneToken, NoneFree, TypeOK, Semaphore
  <2>3. Active' = {i}
    BY <1>1, <1>2, <2>1, <2>2 DEF Active
  <2>4. OneToken'
    BY <1>6, <2>2, <2>3 DEF OneToken, NoneFree, TypeOK, Semaphore
  <2>5. ConditionHolds'
    BY <1>1, <2>1 DEF ConditionHolds, At
  <2> QED BY <1>4, <1>5, <2>4, <2>5 DEF Kept
<1>7. CASE /\ mutex.value = 0 /\ mutex'.value = 0
           /\ \A x \in Phil : Blocked(mutex', x) <=> Blocked(mutex, x) \/ x = i
  <2>1. Asleep(i)' /\ \A x \in Phil \ {i} : Asleep(x)' = Asleep(x)
    BY <1>7 DEF Asleep
  <2>2. Active' = Active
    BY <1>1, <1>2, <2>1 DEF Active
  <2>3. OneToken'
    BY <1>7, <2>2 DEF OneToken, NoneFree
  <2>4. ConditionHolds'
    BY <1>1, <2>1 DEF ConditionHolds, At
  <2> QED BY <1>4, <1>5, <2>3, <2>4 DEF Kept
<1> QED BY <1>3, <1>6, <1>7

\* A signaller down()s next to get the monitor back.
LEMMA TakesNext ==
    ASSUME TypeOK, Sleeping, OneToken, Promised, ConditionHolds, NEW i \in Phil,
           pc[i] \in {"sig_down"}, NEW l \in {"sig_end"}, pc' = [pc EXCEPT ![i] = l],
           next' = down(next, i), UNCHANGED <<mutex, cv, state_condvar, test>>
    PROVE  Kept
<1>1. pc'[i] = l /\ \A j \in Phil \ {i} : pc'[j] = pc[j]
  BY DEF TypeOK
<1>2. ~Asleep(i) /\ i \notin Active
  BY Awake DEF Active
<1>3. /\ next' \in Semaphore /\ Sound(next')
      /\ \/ /\ next.value > 0 /\ next'.value = next.value - 1
            /\ \A x \in Phil : Blocked(next', x) <=> Blocked(next, x)
         \/ /\ next.value = 0 /\ next'.value = 0
            /\ \A x \in Phil : Blocked(next', x) <=> Blocked(next, x) \/ x = i
  <2>1. next \in Semaphore /\ Sound(next) /\ ~Blocked(next, i)
    BY <1>2 DEF TypeOK, Sleeping, Asleep
  <2> QED BY <2>1, DownSem
<1>4. Sleeping'
  <2>1. \A x \in Phil : Blocked(next', x) => Blocked(next, x) \/ x = i
    BY <1>3
  <2> QED BY <1>1, <1>2, <1>3, <2>1 DEF Sleeping, Asleep
<1>5. Promised'
  BY <1>1 DEF Promised
<1>6. CASE /\ next.value > 0 /\ next'.value = next.value - 1
           /\ \A x \in Phil : Blocked(next', x) <=> Blocked(next, x)
  <2>1. \A x \in Phil : Asleep(x)' = Asleep(x)
    BY <1>6 DEF Asleep
  <2>2. next.value = 1 /\ Active = {}
    BY <1>6 DEF OneToken, NoneFree, TypeOK, Semaphore
  <2>3. Active' = {i}
    BY <1>1, <1>2, <2>1, <2>2 DEF Active
  <2>4. OneToken'
    BY <1>6, <2>2, <2>3 DEF OneToken, NoneFree, TypeOK, Semaphore
  <2>5. ConditionHolds'
    BY <1>1, <2>1 DEF ConditionHolds, At
  <2> QED BY <1>4, <1>5, <2>4, <2>5 DEF Kept
<1>7. CASE /\ next.value = 0 /\ next'.value = 0
           /\ \A x \in Phil : Blocked(next', x) <=> Blocked(next, x) \/ x = i
  <2>1. Asleep(i)' /\ \A x \in Phil \ {i} : Asleep(x)' = Asleep(x)
    BY <1>7 DEF Asleep
  <2>2. Active' = Active
    BY <1>1, <1>2, <2>1 DEF Active
  <2>3. OneToken'
    BY <1>7, <2>2 DEF OneToken, NoneFree
  <2>4. ConditionHolds'
    BY <1>1, <2>1 DEF ConditionHolds, At
  <2> QED BY <1>4, <1>5, <2>3, <2>4 DEF Kept
<1> QED BY <1>3, <1>6, <1>7

\* A waiter down()s its condition.
LEMMA TakesCondition ==
    ASSUME TypeOK, Sleeping, OneToken, Promised, ConditionHolds, NEW i \in Phil,
           pc[i] = "wait_down", pc' = [pc EXCEPT ![i] = "wait_end"],
           cv' = [cv EXCEPT ![i] = down(@, i)], UNCHANGED <<mutex, next, state_condvar, test>>
    PROVE  Kept
<1>1. /\ pc'[i] = "wait_end" /\ \A j \in Phil \ {i} : pc'[j] = pc[j]
      /\ cv'[i] = down(cv[i], i) /\ \A j \in Phil \ {i} : cv'[j] = cv[j]
  BY DEF TypeOK
<1>2. ~Asleep(i) /\ i \notin Active
  BY Awake DEF Active
<1>3. /\ cv'[i] \in Semaphore /\ Sound(cv'[i])
      /\ \/ /\ cv[i].value > 0 /\ cv'[i].value = cv[i].value - 1
            /\ \A x \in Phil : Blocked(cv'[i], x) <=> Blocked(cv[i], x)
         \/ /\ cv[i].value = 0 /\ cv'[i].value = 0
            /\ \A x \in Phil : Blocked(cv'[i], x) <=> Blocked(cv[i], x) \/ x = i
  <2>1. cv[i] \in Semaphore /\ Sound(cv[i]) /\ ~Blocked(cv[i], i)
    BY <1>2 DEF TypeOK, Sleeping, Asleep
  <2> QED BY <1>1, <2>1, DownSem
<1>4. Sleeping'
  <2>1. \A j \in Phil : Sound(cv'[j])
    BY <1>1, <1>3 DEF Sleeping
  <2>2. \A j, x \in Phil : Blocked(cv'[j], x) => x = j /\ pc'[x] = "wait_end"
    BY <1>1, <1>2, <1>3 DEF Sleeping
  <2>3. \A x \in Phil : /\ Blocked(mutex', x) => pc'[x] \in {"hungry", "thinking"}
                        /\ Blocked(next', x) => pc'[x] = "sig_end"
    BY <1>1, <1>2 DEF Sleeping, Asleep
  <2> QED BY <2>1, <2>2, <2>3 DEF Sleeping, Sound, Blocked
<1>5. Promised'
  <2>1. \A k \in Phil : cv'[k].value > 0 => cv[k].value > 0
    BY <1>1, <1>3 DEF TypeOK, Semaphore
  <2> QED BY <1>1, <2>1 DEF Promised
<1>6. CASE /\ cv[i].value > 0 /\ cv'[i].value = cv[i].value - 1
           /\ \A x \in Phil : Blocked(cv'[i], x) <=> Blocked(cv[i], x)
  <2>1. \A x \in Phil : Asleep(x)' = Asleep(x)
    <3>1. \A x, j \in Phil : Blocked(cv'[j], x) <=> Blocked(cv[j], x)
      BY <1>1, <1>6
    <3> QED BY <3>1 DEF Asleep
  <2>2. cv[i].value = 1 /\ Active = {} /\ \A k \in Phil \ {i} : cv[k].value = 0
    BY <1>6 DEF OneToken, NoneFree, TypeOK, Semaphore
  <2>3. Active' = {i}
    BY <1>1, <1>2, <2>1, <2>2 DEF Active
  <2>4. mutex.value = 0 /\ next.value = 0
    BY <2>2 DEF OneToken, TypeOK, Semaphore
  <2>5. NoneFree'
    BY <1>1, <1>6, <2>2, <2>4 DEF NoneFree
  <2>6. OneToken'
    BY <2>3, <2>5 DEF OneToken, NoneFree
  <2>7. state_condvar[i] = "EATING"
    BY <1>6 DEF Promised
  <2>8. ConditionHolds'
    BY <1>1, <2>1, <2>7 DEF ConditionHolds, At
  <2> QED BY <1>4, <1>5, <2>6, <2>8 DEF Kept
<1>7. CASE /\ cv[i].value = 0 /\ cv'[i].value = 0
           /\ \A x \in Phil : Blocked(cv'[i], x) <=> Blocked(cv[i], x) \/ x = i
  <2>1. Asleep(i)' /\ \A x \in Phil \ {i} : Asleep(x)' = Asleep(x)
    <3>1. \A x \in Phil \ {i}, j \in Phil : Blocked(cv'[j], x) <=> Blocked(cv[j], x)
      BY <1>1, <1>7
    <3>2. Blocked(cv'[i], i)
      BY <1>7
    <3> QED BY <3>1, <3>2 DEF Asleep
  <2>2. Active' = Active
    BY <1>1, <1>2, <2>1 DEF Active
  <2>3. \A k \in Phil : cv'[k].value = cv[k].value
    BY <1>1, <1>7
  <2>4. OneToken'
    BY <2>2, <2>3 DEF OneToken, NoneFree
  <2>5. ConditionHolds'
    BY <1>1, <2>1 DEF ConditionHolds, At
  <2> QED BY <1>4, <1>5, <2>4, <2>5 DEF Kept
<1> QED BY <1>3, <1>6, <1>7

\* A thread outside stays outside.
LEMMA StaysOut ==
    ASSUME TypeOK, Sleeping, OneToken, Promised, ConditionHolds, NEW i \in Phil,
           pc[i] = "think", NEW l \in Labels \ InMonitor, pc' = [pc EXCEPT ![i] = l],
           UNCHANGED <<mutex, next, cv, state_condvar, test>>
    PROVE  Kept
<1>1. pc'[i] = l /\ \A j \in Phil \ {i} : pc'[j] = pc[j]
  BY DEF TypeOK
<1>2. ~Asleep(i) /\ i \notin Active
  BY Awake DEF Active
<1>3. \A x \in Phil : Asleep(x)' = Asleep(x)
  BY DEF Asleep
<1>4. Active' = Active
  BY <1>1, <1>2, <1>3 DEF Active, InMonitor
<1>5. Sleeping'
  BY <1>1, <1>2 DEF Sleeping, Asleep
<1>6. OneToken'
  BY <1>4 DEF OneToken, NoneFree
<1>7. Promised' /\ ConditionHolds'
  BY <1>1, <1>3 DEF Promised, ConditionHolds, At, InMonitor
<1> QED BY <1>5, <1>6, <1>7 DEF Kept

-----------------------------------------------------------------------------
(* The counts *)

Signallers == {i \in Phil : pc[i] \in {"sig_up", "sig_down", "sig_end"}}

Waits(k) == pc[k] \in {"wait_up", "wait_down", "wait_end"}

Counts ==
    /\ next_count = Cardinality(Signallers)
    /\ \A k \in Phil : count[k] = IF Waits(k) THEN 1 ELSE 0

LEMMA CountsAre == CountsExact <=> Counts
<1>1. ASSUME NEW k \in Phil
      PROVE  Cardinality({i \in {k} : pc[i] \in {"wait_up", "wait_down", "wait_end"}})
                = IF Waits(k) THEN 1 ELSE 0
  <2>1. CASE Waits(k)
    <3>1. {i \in {k} : pc[i] \in {"wait_up", "wait_down", "wait_end"}} = {k}
      BY <2>1 DEF Waits
    <3> QED BY <2>1, <3>1, FS_Singleton
  <2>2. CASE ~Waits(k)
    <3>1. {i \in {k} : pc[i] \in {"wait_up", "wait_down", "wait_end"}} = {}
      BY <2>2 DEF Waits
    <3> QED BY <2>2, <3>1, FS_EmptySet
  <2> QED BY <2>1, <2>2
<1> QED BY <1>1 DEF CountsExact, Counts, Signallers

LEMMA SignallersFinite == IsFiniteSet(Signallers) /\ Cardinality(Signallers) \in Nat
<1>1. Signallers \subseteq Phil
  BY DEF Signallers
<1>2. IsFiniteSet(Signallers)
  BY <1>1, PhilFacts, FS_Subset, Zenon
<1> QED BY <1>2, FS_CardinalityType

\* A step that neither begins nor ends a signal or a wait.
LEMMA CountsSame ==
    ASSUME TypeOK, Counts, NEW i \in Phil, NEW l, pc' = [pc EXCEPT ![i] = l],
           UNCHANGED <<next_count, count>>,
           pc[i] \in {"sig_up", "sig_down", "sig_end"} <=> l \in {"sig_up", "sig_down", "sig_end"},
           pc[i] \in {"wait_up", "wait_down", "wait_end"}
              <=> l \in {"wait_up", "wait_down", "wait_end"}
    PROVE  Counts'
<1>1. pc'[i] = l /\ \A j \in Phil \ {i} : pc'[j] = pc[j]
  BY DEF TypeOK
<1>2. Signallers' = Signallers
  BY <1>1 DEF Signallers
<1>3. \A k \in Phil : Waits(k)' <=> Waits(k)
  BY <1>1 DEF Waits
<1> QED BY <1>2, <1>3 DEF Counts

LEMMA CountsSignalBegins ==
    ASSUME TypeOK, Counts, NEW i \in Phil, pc[i] = "signal", pc' = [pc EXCEPT ![i] = "sig_up"],
           next_count' = next_count + 1, UNCHANGED count
    PROVE  Counts'
<1>1. pc'[i] = "sig_up" /\ \A j \in Phil \ {i} : pc'[j] = pc[j]
  BY DEF TypeOK
<1>2. Signallers' = Signallers \cup {i} /\ i \notin Signallers
  BY <1>1 DEF Signallers
<1>3. Cardinality(Signallers \cup {i}) = Cardinality(Signallers) + 1
  BY <1>2, SignallersFinite, FS_AddElement
<1>4. \A k \in Phil : Waits(k)' <=> Waits(k)
  BY <1>1 DEF Waits
<1> QED BY <1>2, <1>3, <1>4 DEF Counts

LEMMA CountsSignalEnds ==
    ASSUME TypeOK, Counts, NEW i \in Phil, pc[i] = "sig_end",
           NEW l \in {"test", "check", "leave"}, pc' = [pc EXCEPT ![i] = l],
           next_count' = next_count - 1, UNCHANGED count
    PROVE  Counts'
<1>1. pc'[i] = l /\ \A j \in Phil \ {i} : pc'[j] = pc[j]
  BY DEF TypeOK
<1>2. Signallers' = Signallers \ {i} /\ i \in Signallers
  BY <1>1 DEF Signallers
<1>3. Cardinality(Signallers \ {i}) = Cardinality(Signallers) - 1
  BY <1>2, SignallersFinite, FS_RemoveElement
<1>4. \A k \in Phil : Waits(k)' <=> Waits(k)
  BY <1>1 DEF Waits
<1> QED BY <1>2, <1>3, <1>4 DEF Counts

LEMMA CountsWait ==
    ASSUME TypeOK, Counts, NEW i \in Phil,
           NEW l, pc' = [pc EXCEPT ![i] = l], UNCHANGED next_count,
           \/ pc[i] = "wait" /\ l = "wait_up" /\ count' = [count EXCEPT ![i] = @ + 1]
           \/ pc[i] = "wait_end" /\ l = "leave" /\ count' = [count EXCEPT ![i] = @ - 1]
    PROVE  Counts'
<1>1. pc'[i] = l /\ \A j \in Phil \ {i} : pc'[j] = pc[j]
  BY DEF TypeOK
<1>2. Signallers' = Signallers
  BY <1>1 DEF Signallers
<1>3. \A k \in Phil \ {i} : (Waits(k)' <=> Waits(k)) /\ count'[k] = count[k]
  BY <1>1 DEF Waits, TypeOK
<1>4. count'[i] = IF Waits(i)' THEN 1 ELSE 0
  BY <1>1 DEF Waits, TypeOK, Counts
<1>5. \A k \in Phil : count'[k] = IF Waits(k)' THEN 1 ELSE 0
  BY <1>3, <1>4 DEF Counts
<1> QED BY <1>2, <1>5 DEF Counts

-----------------------------------------------------------------------------
(* The steps *)

LEMMA LeftRight ==
    \A k \in Phil : LEFT(k) # k /\ \A j \in Phil : LEFT(j) = k => j = RIGHT(k)
<1> SUFFICES ASSUME NEW k \in Phil, NEW j \in Phil
             PROVE  LEFT(k) # k /\ (LEFT(j) = k => j = RIGHT(k))
  OBVIOUS
<1>1. /\ N \in Nat /\ N > 2 /\ k \in Int /\ 0 <= k /\ k < N /\ j \in Int /\ 0 <= j /\ j < N
  BY MonitorAssumption DEF Phil
<1>2. LEFT(k) = (IF k = 0 THEN N - 1 ELSE k - 1) /\ LEFT(j) = (IF j = 0 THEN N - 1 ELSE j - 1)
  BY <1>1 DEF LEFT
<1>3. RIGHT(k) = (IF k = N - 1 THEN 0 ELSE k + 1)
  BY <1>1 DEF RIGHT
<1> QED BY <1>1, <1>2, <1>3

LEMMA TestReturnsFacts ==
    ASSUME TypeOK, NEW i \in Phil, TestReturns(i)
    PROVE  /\ \E l \in {"test", "check", "leave"} : pc' = [pc EXCEPT ![i] = l]
           /\ test' \in [Phil -> Phil]
BY PhilFacts DEF TestReturns, Goto, TypeOK

LEMMA GiveUpFacts ==
    ASSUME TypeOK, Sleeping, OneToken, NEW i \in Phil, pc[i] \in InMonitor, ~Asleep(i), GiveUp
    PROVE  /\ mutex' \in Semaphore /\ next' \in Semaphore
           /\ \/ mutex' = up(mutex) /\ next' = next
              \/ next' = up(next) /\ mutex' = mutex
<1>1. \/ mutex' = up(mutex) /\ next' = next
      \/ next' = up(next) /\ mutex' = mutex
  BY DEF GiveUp
<1>2. NoneFree
  BY OnlyActive
<1>3. mutex \in Semaphore /\ next \in Semaphore /\ Sound(mutex) /\ Sound(next)
      /\ mutex.value = 0 /\ next.value = 0
  BY <1>2 DEF TypeOK, Sleeping, NoneFree
<1> QED BY <1>1, <1>3, UpSem

Invs == TypeOK /\ Sleeping /\ OneToken /\ Promised /\ ConditionHolds /\ Counts /\ Apart

LEMMA MonitorStep ==
    ASSUME Invs, [Next]_vars
    PROVE  Invs'
<1>0. TypeOK /\ Sleeping /\ OneToken /\ Promised /\ ConditionHolds /\ Counts /\ Apart
  BY DEF Invs
<1> USE <1>0
<1>1. ASSUME NEW i \in Phil, Think(i) PROVE Invs'
  <2>1. /\ pc[i] = "think" /\ ~Asleep(i)
        /\ iter' = [iter EXCEPT ![i] = @ + 1]
        /\ UNCHANGED <<state_condvar, mutex, next, cv, next_count, count, test>>
        /\ \E l \in {"take", "quit"} : pc' = [pc EXCEPT ![i] = l]
    BY <1>1 DEF Think, At, Goto
  <2>2. PICK l \in {"take", "quit"} : pc' = [pc EXCEPT ![i] = l]
    BY <2>1
  <2>3. l \in Labels \ InMonitor
    BY DEF Labels, InMonitor
  <2>4. Kept
    BY <2>1, <2>2, <2>3, StaysOut
  <2>5. Counts'
    BY <2>1, <2>2, CountsSame
  <2>6. TypeOK' /\ Apart'
    BY <2>1, <2>2, <2>3 DEF TypeOK, Apart
  <2> QED BY <2>4, <2>5, <2>6 DEF Invs, Kept
<1>2. ASSUME NEW i \in Phil, EnterMonitor(i) PROVE Invs'
  <2>1. /\ pc[i] \in {"take", "eat"} /\ ~Asleep(i) /\ mutex' = down(mutex, i)
        /\ UNCHANGED <<state_condvar, next, cv, next_count, count, test, iter>>
        /\ \E l \in {"hungry", "thinking"} : pc' = [pc EXCEPT ![i] = l]
    BY <1>2 DEF EnterMonitor, At, Goto
  <2>2. PICK l \in {"hungry", "thinking"} : pc' = [pc EXCEPT ![i] = l]
    BY <2>1
  <2>3. Kept
    BY <2>1, <2>2, TakesMutex
  <2>4. Counts'
    BY <2>1, <2>2, CountsSame
  <2>5. mutex' \in Semaphore
    BY <2>1, DownSem DEF TypeOK, Sleeping, Asleep
  <2>6. TypeOK' /\ Apart'
    BY <2>1, <2>2, <2>5 DEF TypeOK, Apart, Labels
  <2> QED BY <2>3, <2>4, <2>6 DEF Invs, Kept
<1>3. ASSUME NEW i \in Phil, SetHungry(i) \/ SetThinking(i) PROVE Invs'
  <2>1. /\ pc[i] \in {"hungry", "thinking"} /\ ~Asleep(i) /\ pc' = [pc EXCEPT ![i] = "test"]
        /\ \E v \in {"HUNGRY", "THINKING"} : state_condvar' = [state_condvar EXCEPT ![i] = v]
        /\ \E k \in Phil : test' = [test EXCEPT ![i] = k]
        /\ UNCHANGED <<mutex, next, cv, next_count, count, iter>>
    BY <1>3, PhilFacts DEF SetHungry, SetThinking, FirstTest, At, Goto
  <2>2. "test" \in InMonitor \ {"wait_end"} /\ pc[i] \in InMonitor
    BY <2>1 DEF InMonitor
  <2>3. Kept
    BY <2>1, <2>2, GoesOn
  <2>4. Counts'
    BY <2>1, CountsSame
  <2>5. TypeOK'
    BY <2>1 DEF TypeOK, Labels
  <2>6. Apart'
    BY <2>1, PhilFacts DEF Apart, TypeOK
  <2> QED BY <2>3, <2>4, <2>5, <2>6 DEF Invs, Kept
<1>4. ASSUME NEW i \in Phil, PhiTest(i) PROVE Invs'
  <2>1. /\ pc[i] = "test" /\ ~Asleep(i) /\ pc[i] \in InMonitor /\ test[i] \in Phil
        /\ UNCHANGED <<mutex, next, cv, next_count, count, iter>>
    BY <1>4 DEF PhiTest, At, InMonitor, TypeOK
  <2>2. CASE MayEat(test[i])
    <3>1. /\ state_condvar' = [state_condvar EXCEPT ![test[i]] = "EATING"]
          /\ pc' = [pc EXCEPT ![i] = "signal"] /\ test' = test
      BY <1>4, <2>2 DEF PhiTest, Goto
    <3>2. state_condvar'[test'[i]] = "EATING" /\ "signal" \in InMonitor \ {"wait_end"}
      BY <2>1, <3>1 DEF TypeOK, InMonitor
    <3>3. Kept
      BY <2>1, <3>1, <3>2, GoesOn
    <3>4. Counts'
      BY <2>1, <3>1, CountsSame
    <3>5. TypeOK'
      BY <2>1, <3>1 DEF TypeOK, Labels
    <3>6. Apart'
      BY <2>1, <2>2, <3>1, LeftRight, PhilFacts DEF Apart, MayEat, TypeOK
    <3> QED BY <3>3, <3>4, <3>5, <3>6 DEF Invs, Kept
  <2>3. CASE ~MayEat(test[i])
    <3>1. TestReturns(i) /\ state_condvar' = state_condvar
      BY <1>4, <2>3 DEF PhiTest
    <3>2. PICK l \in {"test", "check", "leave"} : pc' = [pc EXCEPT ![i] = l]
      BY <3>1, TestReturnsFacts
    <3>3. l \in InMonitor \ {"wait_end"} /\ l \in Labels
      BY DEF InMonitor, Labels
    <3>4. Kept
      BY <2>1, <3>2, <3>3, GoesOn
    <3>5. Counts'
      BY <2>1, <3>2, CountsSame
    <3>6. TypeOK' /\ Apart'
      BY <2>1, <3>1, <3>2, <3>3, TestReturnsFacts DEF TypeOK, Apart
    <3> QED BY <3>4, <3>5, <3>6 DEF Invs, Kept
  <2> QED BY <2>2, <2>3
<1>5. ASSUME NEW i \in Phil, CheckEating(i) PROVE Invs'
  <2>1. /\ pc[i] = "check" /\ ~Asleep(i) /\ pc[i] \in InMonitor
        /\ UNCHANGED <<state_condvar, mutex, next, cv, next_count, count, test, iter>>
        /\ \E l \in {"wait", "leave"} : pc' = [pc EXCEPT ![i] = l]
    BY <1>5 DEF CheckEating, At, Goto, InMonitor
  <2>2. PICK l \in {"wait", "leave"} : pc' = [pc EXCEPT ![i] = l]
    BY <2>1
  <2>3. l \in InMonitor \ {"wait_end"} /\ l \in Labels
    BY DEF InMonitor, Labels
  <2>4. Kept
    BY <2>1, <2>2, <2>3, GoesOn
  <2>5. Counts'
    BY <2>1, <2>2, CountsSame
  <2>6. TypeOK' /\ Apart'
    BY <2>1, <2>2, <2>3 DEF TypeOK, Apart
  <2> QED BY <2>4, <2>5, <2>6 DEF Invs, Kept
<1>6. ASSUME NEW i \in Phil, LeaveMonitor(i) \/ WaitGivesUp(i) PROVE Invs'
  <2>1. /\ pc[i] \in {"leave", "wait_up"} /\ ~Asleep(i) /\ pc[i] \in InMonitor /\ GiveUp
        /\ UNCHANGED <<state_condvar, cv, next_count, count, test, iter>>
        /\ \E l \in {"eat", "think", "wait_down"} :
              pc' = [pc EXCEPT ![i] = l] /\ (l = "wait_down" <=> pc[i] = "wait_up")
    BY <1>6 DEF LeaveMonitor, WaitGivesUp, At, Goto, InMonitor
  <2>2. PICK l \in {"eat", "think", "wait_down"} :
              pc' = [pc EXCEPT ![i] = l] /\ (l = "wait_down" <=> pc[i] = "wait_up")
    BY <2>1
  <2>3. l \in Labels \ InMonitor
    BY DEF InMonitor, Labels
  <2>4. /\ mutex' \in Semaphore /\ next' \in Semaphore
        /\ \/ mutex' = up(mutex) /\ next' = next
           \/ next' = up(next) /\ mutex' = mutex
    BY <2>1, GiveUpFacts
  <2>5. Kept
    BY <2>1, <2>2, <2>3, <2>4, GivesMutex, GivesNext
  <2>6. Counts'
    BY <2>1, <2>2, CountsSame
  <2>7. TypeOK' /\ Apart'
    BY <2>1, <2>2, <2>3, <2>4 DEF TypeOK, Apart
  <2> QED BY <2>5, <2>6, <2>7 DEF Invs, Kept
<1>7. ASSUME NEW i \in Phil, SignalBegins(i) PROVE Invs'
  <2>1. /\ pc[i] = "signal" /\ ~Asleep(i) /\ pc[i] \in InMonitor
        /\ UNCHANGED <<state_condvar, mutex, next, cv, count, iter>>
    BY <1>7 DEF SignalBegins, At, InMonitor
  <2>2. CASE SignalNobody(test[i])
    <3>1. TestReturns(i) /\ next_count' = next_count
      BY <1>7, <2>2 DEF SignalBegins
    <3>2. PICK l \in {"test", "check", "leave"} : pc' = [pc EXCEPT ![i] = l]
      BY <3>1, TestReturnsFacts
    <3>3. l \in InMonitor \ {"wait_end"} /\ l \in Labels
      BY DEF InMonitor, Labels
    <3>4. Kept
      BY <2>1, <3>2, <3>3, GoesOn
    <3>5. Counts'
      BY <2>1, <3>1, <3>2, CountsSame
    <3>6. TypeOK' /\ Apart'
      BY <2>1, <3>1, <3>2, <3>3, TestReturnsFacts DEF TypeOK, Apart
    <3> QED BY <3>4, <3>5, <3>6 DEF Invs, Kept
  <2>3. CASE ~SignalNobody(test[i])
    <3>1. next_count' = next_count + 1 /\ pc' = [pc EXCEPT ![i] = "sig_up"] /\ test' = test
      BY <1>7, <2>3 DEF SignalBegins, Goto
    <3>2. state_condvar'[test'[i]] = "EATING" /\ "sig_up" \in InMonitor \ {"wait_end"}
      BY <2>1, <3>1 DEF Promised, InMonitor
    <3>3. Kept
      BY <2>1, <3>1, <3>2, GoesOn
    <3>4. Counts'
      BY <2>1, <3>1, CountsSignalBegins
    <3>5. TypeOK' /\ Apart'
      BY <2>1, <3>1 DEF TypeOK, Apart, Labels
    <3> QED BY <3>3, <3>4, <3>5 DEF Invs, Kept
  <2> QED BY <2>2, <2>3
<1>8. ASSUME NEW i \in Phil, SignalUps(i) PROVE Invs'
  <2> DEFINE k == test[i]
  <2>1. /\ pc[i] = "sig_up" /\ ~Asleep(i) /\ pc[i] \in InMonitor /\ k \in Phil
        /\ UNCHANGED <<state_condvar, mutex, next, next_count, count, test, iter>>
        /\ pc' = [pc EXCEPT ![i] = "sig_down"] /\ cv' = [cv EXCEPT ![k] = up(@)]
    BY <1>8 DEF SignalUps, At, Goto, InMonitor, TypeOK
  <2>2. "sig_down" \in Labels \ InMonitor /\ state_condvar[k] = "EATING"
    BY <2>1 DEF Labels, InMonitor, Promised
  <2>3. up(cv[k]) \in Semaphore
    <3>1. NoneFree
      BY <2>1, OnlyActive
    <3>2. cv[k] \in Semaphore /\ Sound(cv[k]) /\ cv[k].value = 0
      BY <2>1, <3>1 DEF NoneFree, TypeOK, Sleeping
    <3> QED BY <3>2, UpSem
  <2> HIDE DEF k
  <2>4. Kept
    BY <2>1, <2>2, GivesCondition
  <2>5. Counts'
    BY <2>1, CountsSame
  <2>6. TypeOK' /\ Apart'
    BY <2>1, <2>2, <2>3 DEF TypeOK, Apart
  <2> QED BY <2>4, <2>5, <2>6 DEF Invs, Kept
<1>9. ASSUME NEW i \in Phil, SignalDowns(i) PROVE Invs'
  <2>1. /\ pc[i] = "sig_down" /\ ~Asleep(i) /\ next' = down(next, i)
        /\ UNCHANGED <<state_condvar, mutex, cv, next_count, count, test, iter>>
        /\ pc' = [pc EXCEPT ![i] = "sig_end"]
    BY <1>9 DEF SignalDowns, At, Goto
  <2>2. Kept
    BY <2>1, TakesNext
  <2>3. Counts'
    BY <2>1, CountsSame
  <2>4. next' \in Semaphore
    <3>1. next \in Semaphore /\ Sound(next) /\ ~Blocked(next, i)
      BY <2>1 DEF TypeOK, Sleeping, Asleep
    <3> QED BY <2>1, <3>1, DownSem
  <2>5. TypeOK' /\ Apart'
    BY <2>1, <2>4 DEF TypeOK, Apart, Labels
  <2> QED BY <2>2, <2>3, <2>5 DEF Invs, Kept
<1>10. ASSUME NEW i \in Phil, SignalEnds(i) PROVE Invs'
  <2>1. /\ pc[i] = "sig_end" /\ ~Asleep(i) /\ pc[i] \in InMonitor
        /\ UNCHANGED <<state_condvar, mutex, next, cv, count, iter>>
        /\ TestReturns(i) /\ next_count' = next_count - 1
    BY <1>10 DEF SignalEnds, At, InMonitor
  <2>2. PICK l \in {"test", "check", "leave"} : pc' = [pc EXCEPT ![i] = l]
    BY <2>1, TestReturnsFacts
  <2>3. l \in InMonitor \ {"wait_end"} /\ l \in Labels
    BY DEF InMonitor, Labels
  <2>4. Kept
    BY <2>1, <2>2, <2>3, GoesOn
  <2>5. Counts'
    BY <2>1, <2>2, CountsSignalEnds
  <2>6. test' \in [Phil -> Phil] /\ next_count' \in Int
    BY <2>1, TestReturnsFacts DEF TypeOK
  <2>7. TypeOK'
    BY <2>1, <2>2, <2>3, <2>6 DEF TypeOK
  <2>8. Apart'
    BY <2>1 DEF Apart
  <2> QED BY <2>4, <2>5, <2>7, <2>8 DEF Invs, Kept
<1>11. ASSUME NEW i \in Phil, WaitCounts(i) \/ WaitEnds(i) PROVE Invs'
  <2>1. /\ ~Asleep(i) /\ pc[i] \in InMonitor
        /\ UNCHANGED <<state_condvar, mutex, next, cv, next_count, test, iter>>
        /\ \E l \in {"wait_up", "leave"} :
             /\ pc' = [pc EXCEPT ![i] = l]
             /\ \/ pc[i] = "wait" /\ l = "wait_up" /\ count' = [count EXCEPT ![i] = @ + 1]
                \/ pc[i] = "wait_end" /\ l = "leave" /\ count' = [count EXCEPT ![i] = @ - 1]
    BY <1>11 DEF WaitCounts, WaitEnds, At, Goto, InMonitor
  <2>2. PICK l \in {"wait_up", "leave"} :
             /\ pc' = [pc EXCEPT ![i] = l]
             /\ \/ pc[i] = "wait" /\ l = "wait_up" /\ count' = [count EXCEPT ![i] = @ + 1]
                \/ pc[i] = "wait_end" /\ l = "leave" /\ count' = [count EXCEPT ![i] = @ - 1]
    BY <2>1
  <2>3. l \in InMonitor \ {"wait_end"} /\ l \in Labels
    BY DEF InMonitor, Labels
  <2>4. Kept
    BY <2>1, <2>2, <2>3, GoesOn
  <2>5. Counts'
    BY <2>1, <2>2, CountsWait
  <2>6. TypeOK' /\ Apart'
    BY <2>1, <2>2, <2>3 DEF TypeOK, Apart
  <2> QED BY <2>4, <2>5, <2>6 DEF Invs, Kept
<1>12. ASSUME NEW i \in Phil, WaitDowns(i) PROVE Invs'
  <2>1. /\ pc[i] = "wait_down" /\ ~Asleep(i) /\ cv' = [cv EXCEPT ![i] = down(@, i)]
        /\ UNCHANGED <<state_condvar, mutex, next, next_count, count, test, iter>>
        /\ pc' = [pc EXCEPT ![i] = "wait_end"]
    BY <1>12 DEF WaitDowns, At, Goto
  <2>2. Kept
    BY <2>1, TakesCondition
  <2>3. Counts'
    BY <2>1, CountsSame
  <2>4. down(cv[i], i) \in Semaphore
    <3>1. cv[i] \in Semaphore /\ Sound(cv[i]) /\ ~Blocked(cv[i], i)
      BY <2>1 DEF TypeOK, Sleeping, Asleep
    <3> QED BY <3>1, DownSem
  <2>5. TypeOK' /\ Apart'
    BY <2>1, <2>4 DEF TypeOK, Apart, Labels
  <2> QED BY <2>2, <2>3, <2>5 DEF Invs, Kept
<1>13. CASE UNCHANGED vars
  BY <1>13 DEF vars, Invs, TypeOK, Sleeping, OneToken, NoneFree, Promised, ConditionHolds, Counts,
               Apart, Active, Asleep, At, Signallers, Waits
<1> QED
  BY <1>1, <1>2, <1>3, <1>4, <1>5, <1>6, <1>7, <1>8, <1>9, <1>10, <1>11, <1>12, <1>13
  DEF Next, Step

\* The inductive invariant holds for ever.
THEOREM MonitorInvariant == Spec => []MonitorInv
<1>1. Init => Invs
  <2> SUFFICES ASSUME Init PROVE Invs
    OBVIOUS
  <2>1. /\ mutex \in Semaphore /\ mutex.value = 1 /\ mutex.queue = <<>>
        /\ next \in Semaphore /\ next.value = 0 /\ next.queue = <<>>
        /\ \A k \in Phil : cv[k] \in Semaphore /\ cv[k].value = 0 /\ cv[k].queue = <<>>
    BY DEF Init, sem_init, Semaphore
  <2>2. \A i \in Phil : /\ ~Blocked(mutex, i) /\ ~Blocked(next, i)
                        /\ \A k \in Phil : ~Blocked(cv[k], i)
    BY <2>1 DEF Blocked
  <2>3. TypeOK
    BY <2>1 DEF Init, TypeOK, Labels
  <2>4. Sleeping
    BY <2>1, <2>2 DEF Sleeping, Sound
  <2>5. Active = {}
    BY DEF Init, Active
  <2>6. OneToken
    BY <2>1, <2>5 DEF OneToken, NoneFree
  <2>7. Promised /\ ConditionHolds /\ Apart
    BY <2>1, PhilFacts DEF Init, Promised, ConditionHolds, At, Apart
  <2>8. Signallers = {} /\ \A k \in Phil : ~Waits(k)
    BY DEF Init, Signallers, Waits
  <2>9. Counts
    BY <2>8, FS_EmptySet DEF Init, Counts
  <2> QED BY <2>3, <2>4, <2>6, <2>7, <2>9 DEF Invs
<1>2. Invs /\ [Next]_vars => Invs'
  BY MonitorStep
<1>3. Invs => MonitorInv
  BY CountsAre DEF Invs, MonitorInv
<1> QED BY <1>1, <1>2, <1>3, PTL DEF Spec

\* monitor.h: "Only one process at a time may be be active in a monitor", also while
\* cond_signal hands it to the waiter and cond_wait or a leaving thread hands it back.
THEOREM OneActiveThread == Spec => []OneActive
<1>1. MonitorInv => OneActive
  <2> SUFFICES ASSUME MonitorInv PROVE Cardinality(Active) <= 1
    BY DEF OneActive
  <2>1. CASE Active = {}
    BY <2>1, FS_EmptySet
  <2>2. CASE Active # {}
    <3>1. PICK i \in Active : TRUE
      BY <2>2
    <3>2. Active = {i}
      BY <3>1 DEF MonitorInv, OneToken
    <3>3. Cardinality({i}) = 1
      BY FS_Singleton
    <3> QED BY <3>2, <3>3
  <2> QED BY <2>1, <2>2
<1> QED BY <1>1, MonitorInvariant, PTL

\* phi_take_forks_condvar needs no loop around cond_wait: the condition it waited for
\* still holds when it has the monitor again.
THEOREM WaitersFindCondition == Spec => []ConditionHolds
<1>1. MonitorInv => ConditionHolds
  BY DEF MonitorInv
<1> QED BY <1>1, MonitorInvariant, PTL

\* next_count and cv.count say how many signallers and waiters there are: cond_signal
\* and cond_wait decide on them whom to hand the monitor to.
THEOREM CountsAreExact == Spec => []CountsExact
<1>1. MonitorInv => CountsExact
  BY DEF MonitorInv
<1> QED BY <1>1, MonitorInvariant, PTL

\* check_sync.c's purpose: no two neighbours eat at the same time, for every number of
\* philosophers.
THEOREM NeighboursApart == Spec => []Apart
<1>1. MonitorInv => Apart
  BY DEF MonitorInv
<1> QED BY <1>1, MonitorInvariant, PTL

-----------------------------------------------------------------------------
(* The timer list *)

Distinct == \A i, j \in DOMAIN list : list[i] = list[j] => i = j

\* The list is sorted by expiry, pairwise: this is what lets the loop of
\* run_timer_list stop at the first entry that is not expired.
Sorted == \A i, j \in DOMAIN list : i < j => left[list[i]] <= left[list[j]]

OffList == \A p \in Owner : ~Linked(p) /\ ~(op = "add" /\ who = p) => left[p] = 0

Positive == op # "run" => \A i \in DOMAIN list : left[list[i]] > 0

\* add_timer's cursor: everything before it expires no later than the new timer.
Adding ==
    op = "add" =>
        /\ ~Linked(who)
        /\ le \in 1..(Len(list) + 1)
        /\ left[who] > 0
        /\ \A i \in DOMAIN list : i < le => left[list[i]] <= left[who]

DeltaInv ==
    /\ TimersTypeOK
    /\ Distinct
    /\ DeltaExact
    /\ Sorted
    /\ OffList
    /\ Positive
    /\ Adding

\* What the two list primitives return.
LEMMA AddBefore ==
    ASSUME NEW l \in Seq(Owner), NEW i \in 1..(Len(l) + 1), NEW p \in Owner
    PROVE  /\ list_add_before(l, i, p) \in Seq(Owner)
           /\ Len(list_add_before(l, i, p)) = Len(l) + 1
           /\ DOMAIN list_add_before(l, i, p) = 1..(Len(l) + 1)
           /\ \A k \in 1..(Len(l) + 1) :
                 list_add_before(l, i, p)[k] = IF k < i THEN l[k] ELSE IF k = i THEN p ELSE l[k - 1]
<1>1. Len(l) \in Nat /\ DOMAIN l = 1..Len(l) /\ \A k \in 1..Len(l) : l[k] \in Owner
  OBVIOUS
<1>2. \A k \in 1..(Len(l) + 1) : (IF k < i THEN l[k] ELSE IF k = i THEN p ELSE l[k - 1]) \in Owner
  BY <1>1
<1>3. list_add_before(l, i, p) \in [1..(Len(l) + 1) -> Owner]
  BY <1>2 DEF list_add_before
<1>4. Len(l) + 1 \in Nat
  BY <1>1
<1> QED BY <1>1, <1>3, <1>4, SeqDef, LenProperties DEF list_add_before

LEMMA DelInit ==
    ASSUME NEW l \in Seq(Owner), NEW i \in DOMAIN l
    PROVE  /\ list_del_init(l, i) \in Seq(Owner)
           /\ Len(list_del_init(l, i)) = Len(l) - 1
           /\ DOMAIN list_del_init(l, i) = 1..(Len(l) - 1)
           /\ \A k \in 1..(Len(l) - 1) :
                 list_del_init(l, i)[k] = IF k < i THEN l[k] ELSE l[k + 1]
<1>1. Len(l) \in Nat /\ DOMAIN l = 1..Len(l) /\ i \in 1..Len(l) /\ \A k \in 1..Len(l) : l[k] \in Owner
  OBVIOUS
<1>2. \A k \in 1..(Len(l) - 1) : (IF k < i THEN l[k] ELSE l[k + 1]) \in Owner
  BY <1>1
<1>3. list_del_init(l, i) \in [1..(Len(l) - 1) -> Owner]
  BY <1>2 DEF list_del_init
<1>4. Len(l) - 1 \in Nat
  BY <1>1
<1> QED BY <1>1, <1>3, <1>4, SeqDef, LenProperties DEF list_del_init

\* Facts about the list that every step below uses.
LEMMA ListFacts ==
    ASSUME TimersTypeOK
    PROVE  /\ Len(list) \in Nat /\ DOMAIN list = 1..Len(list)
           /\ \A i \in DOMAIN list : list[i] \in Owner /\ left[list[i]] \in Nat
                                       /\ expires[list[i]] \in Nat
           /\ (list # <<>> <=> Len(list) > 0)
<1>1. list \in Seq(Owner)
  BY DEF TimersTypeOK
<1>2. Len(list) \in Nat /\ DOMAIN list = 1..Len(list) /\ (list # <<>> <=> Len(list) > 0)
  BY <1>1, EmptySeq, LenProperties
<1> QED BY <1>1, <1>2 DEF TimersTypeOK

LEMMA AddTimerStep ==
    ASSUME DeltaInv, NEW p \in Owner, NEW t \in 1..MaxTime, AddTimer(p, t)
    PROVE  DeltaInv'
<1> USE DEF DeltaInv
<1>1. /\ list' = list /\ op = "none" /\ op' = "add" /\ who' = p /\ le' = 1 /\ ~Linked(p)
      /\ expires' = [expires EXCEPT ![p] = t] /\ left' = [left EXCEPT ![p] = t]
      /\ t \in Nat /\ t > 0
  BY TimersAssumption DEF AddTimer
<1>2. \A i \in DOMAIN list : list[i] # p /\ list[i] \in Owner
  BY <1>1, ListFacts DEF Linked
<1>3. \A i \in DOMAIN list : expires'[list[i]] = expires[list[i]] /\ left'[list[i]] = left[list[i]]
  BY <1>1, <1>2 DEF TimersTypeOK
<1>4. expires'[p] = t /\ left'[p] = t
  BY <1>1 DEF TimersTypeOK
<1>5. TimersTypeOK'
  BY <1>1 DEF TimersTypeOK
<1>6. Distinct' /\ Sorted' /\ Positive'
  BY <1>1, <1>3 DEF Distinct, Sorted, Positive
<1>7. DeltaExact'
  <2>1. ASSUME NEW i \in DOMAIN list PROVE Before(i)' = Before(i)
    <3>1. i = 1 \/ i - 1 \in DOMAIN list
      BY ListFacts
    <3> QED BY <1>1, <1>3, <3>1 DEF Before
  <2> QED BY SMTT(30), <1>1, <1>3, <1>4, <2>1 DEF DeltaExact, Before, TimersTypeOK
<1>8. OffList'
  BY <1>1 DEF OffList, Linked, TimersTypeOK
<1>9. Adding'
  BY <1>1, <1>4, ListFacts DEF Adding, Linked
<1> QED BY <1>5, <1>6, <1>7, <1>8, <1>9

LEMMA AddPassesStep ==
    ASSUME DeltaInv, AddPasses
    PROVE  DeltaInv'
<1> USE DEF DeltaInv
<1>1. /\ UNCHANGED <<list, op, who, left>> /\ op = "add" /\ le \in DOMAIN list /\ le' = le + 1
      /\ expires' = [expires EXCEPT ![who] = @ - expires[list[le]]]
      /\ ~(expires[who] < expires[list[le]])
      /\ who \in Owner /\ expires[who] \in Nat /\ expires[list[le]] \in Nat
  BY ListFacts DEF AddPasses, GoesBefore, TimersTypeOK
<1>2. \A i \in DOMAIN list : list[i] # who /\ expires'[list[i]] = expires[list[i]]
  BY <1>1, ListFacts DEF Adding, Linked, TimersTypeOK
<1>3. expires'[who] = expires[who] - expires[list[le]] /\ expires'[who] \in Nat
  BY <1>1 DEF TimersTypeOK
<1>4. TimersTypeOK'
  BY <1>1, <1>3, ListFacts DEF TimersTypeOK
<1>5. Distinct' /\ Sorted' /\ Positive' /\ OffList'
  BY <1>1 DEF Distinct, Sorted, Positive, OffList, Linked
<1>6. left[list[le]] = expires[list[le]] + Before(le) /\ left[who] = expires[who] + Before(le)
  BY <1>1 DEF DeltaExact
<1>7. Before(le) \in Nat
  <2>1. le = 1 \/ le - 1 \in DOMAIN list
    BY <1>1, ListFacts
  <2> QED BY <2>1, ListFacts DEF Before
<1>8. left[who] = expires'[who] + left[list[le]] /\ left[list[le]] <= left[who]
  BY SMTT(30), <1>1, <1>3, <1>6, <1>7, ListFacts DEF TimersTypeOK
<1>9. DeltaExact'
  <2>1. le + 1 # 1 /\ (le + 1) - 1 = le
    BY <1>1, ListFacts
  <2>2. Before(le)' = left[list[le]]
    BY <1>1, <2>1 DEF Before
  <2>3. \A i \in DOMAIN list : Before(i)' = Before(i)
    BY <1>1 DEF Before
  <2>4. left'[who'] = expires'[who'] + Before(le)'
    BY <1>1, <1>8, <2>2
  <2>5. \A i \in DOMAIN list' : left'[list'[i]] = expires'[list'[i]] + Before(i)'
    BY <1>1, <1>2, <2>3 DEF DeltaExact
  <2> QED BY <2>4, <2>5 DEF DeltaExact
<1>10. Adding'
  <2>1. le + 1 \in 1..(Len(list) + 1)
    BY <1>1, ListFacts
  <2>2. \A i \in DOMAIN list : i < le + 1 => left[list[i]] <= left[who]
    BY <1>1, <1>8, ListFacts DEF Adding
  <2> QED BY <1>1, <2>1, <2>2 DEF Adding, Linked
<1> QED BY <1>4, <1>5, <1>9, <1>10

LEMMA AddInsertsStep ==
    ASSUME DeltaInv, AddInserts
    PROVE  DeltaInv'
<1> DEFINE n == Len(list)
           Ix == 1..n
           M == 1..(n + 1)
<1>a. TimersTypeOK /\ Distinct /\ DeltaExact /\ Sorted /\ OffList /\ Positive /\ Adding
  BY DEF DeltaInv
<1>b. /\ op = "add" /\ op' = "none" /\ who' = who /\ le' = le /\ left' = left
      /\ list' = list_add_before(list, le, who)
  BY DEF AddInserts
<1>c. /\ ~Linked(who) /\ le \in M /\ left[who] > 0
      /\ \A i \in DOMAIN list : i < le => left[list[i]] <= left[who]
  BY <1>a, <1>b DEF Adding
<1>d. who \in Owner /\ list \in Seq(Owner) /\ left \in [Owner -> Nat] /\ expires \in [Owner -> Nat]
  BY <1>a DEF TimersTypeOK
<1>1. n \in Nat /\ DOMAIN list = Ix
  BY <1>a, ListFacts
<1>2. \A i \in Ix : list[i] # who /\ list[i] \in Owner
  BY <1>a, <1>c, <1>1, ListFacts DEF Linked
<1>e. /\ list' \in Seq(Owner) /\ DOMAIN list' = M /\ Len(list') = n + 1
      /\ \A k \in M : list'[k] = IF k < le THEN list[k] ELSE IF k = le THEN who ELSE list[k - 1]
  <2>1. le \in 1..(Len(list) + 1)
    BY <1>c
  <2> HIDE DEF n, Ix, M
  <2>2. /\ list_add_before(list, le, who) \in Seq(Owner)
        /\ Len(list_add_before(list, le, who)) = Len(list) + 1
        /\ DOMAIN list_add_before(list, le, who) = 1..(Len(list) + 1)
        /\ \A k \in 1..(Len(list) + 1) :
              list_add_before(list, le, who)[k]
                = IF k < le THEN list[k] ELSE IF k = le THEN who ELSE list[k - 1]
    BY <1>d, <2>1, AddBefore
  <2> QED BY <1>b, <2>2 DEF n, M
<1> HIDE DEF n
<1>3. /\ \A k \in M : k < le => k \in Ix /\ list'[k] = list[k]
      /\ list'[le] = who
      /\ \A k \in M : k > le => k - 1 \in Ix /\ list'[k] = list[k - 1]
  BY <1>c, <1>1, <1>e
<1>f. \A i, j \in Ix : list[i] = list[j] => i = j
  BY <1>a, <1>1 DEF Distinct
<1>g. \A i, j \in Ix : i < j => left[list[i]] <= left[list[j]]
  BY <1>a, <1>1 DEF Sorted
<1>4. /\ expires' \in [Owner -> Nat] /\ expires'[who] = expires[who]
      /\ \A i \in Ix : i # le => expires'[list[i]] = expires[list[i]]
      /\ le \in Ix => /\ expires'[list[le]] = expires[list[le]] - expires[who]
                     /\ expires[who] < expires[list[le]]
  <2>1. CASE le \in DOMAIN list /\ GoesBefore(who, list[le]) /\ expires' = Shortened(list[le], who)
    <3>1. /\ expires[who] < expires[list[le]] /\ le \in Ix
          /\ expires' = [expires EXCEPT ![list[le]] = expires[list[le]] - expires[who]]
      BY <1>1, <2>1 DEF GoesBefore, Shortened
    <3>2. expires[list[le]] - expires[who] \in Nat
      BY <1>d, <1>2, <3>1
    <3>3. \A i \in Ix : i # le => list[i] # list[le]
      BY <1>f, <3>1
    <3>4. list[le] \in Owner /\ list[le] # who
      BY <1>2, <3>1
    <3> QED BY <1>d, <1>2, <3>1, <3>2, <3>3, <3>4
  <2>2. CASE le = Len(list) + 1 /\ expires' = expires
    <3>1. le \notin Ix
      BY <1>1, <2>2 DEF n
    <3> QED BY <1>d, <2>2, <3>1
  <2> QED BY <2>1, <2>2 DEF AddInserts
<1>5. /\ \A i \in Ix : left[list[i]] = expires[list[i]] + Before(i)
      /\ left[who] = expires[who] + Before(le)
  BY <1>a, <1>b, <1>1 DEF DeltaExact
<1>6. \A i \in M : /\ i = 1 => Before(i) = 0
                  /\ i # 1 => i - 1 \in Ix /\ Before(i) = left[list[i - 1]]
                  /\ Before(i) \in Nat
  <2> SUFFICES ASSUME NEW i \in M
               PROVE  /\ i = 1 => Before(i) = 0
                      /\ i # 1 => i - 1 \in Ix /\ Before(i) = left[list[i - 1]]
                      /\ Before(i) \in Nat
    OBVIOUS
  <2>1. i # 1 => i - 1 \in Ix
    BY <1>1
  <2>2. i # 1 => left[list[i - 1]] \in Nat
    BY <1>d, <1>2, <2>1
  <2> QED BY <2>1, <2>2 DEF Before
<1>h. Before(le) \in Nat
  <2>1. le # 1 => le - 1 \in Ix
    BY <1>1, <1>c
  <2>2. le # 1 => left[list[le - 1]] \in Nat
    BY <1>d, <1>2, <2>1
  <2> QED BY <2>2 DEF Before
<1>7. le \in Ix => left[who] < left[list[le]]
  <2> SUFFICES ASSUME le \in Ix PROVE left[who] < left[list[le]]
    OBVIOUS
  <2>1. left[list[le]] = expires[list[le]] + Before(le) /\ left[who] = expires[who] + Before(le)
    BY <1>5
  <2>2. expires[who] < expires[list[le]] /\ Before(le) \in Nat
    BY <1>4, <1>h
  <2>3. expires[who] \in Nat /\ expires[list[le]] \in Nat
    BY <1>d, <1>2
  <2> QED BY <2>1, <2>2, <2>3
<1>8. \A i \in Ix : i >= le => left[who] < left[list[i]]
  <2> SUFFICES ASSUME NEW i \in Ix, i >= le PROVE left[who] < left[list[i]]
    OBVIOUS
  <2>1. le \in Ix
    BY <1>1, <1>c
  <2>2. i = le \/ left[list[le]] <= left[list[i]]
    BY <1>1, <1>c, <1>g, <2>1
  <2>3. left[who] \in Nat /\ left[list[le]] \in Nat /\ left[list[i]] \in Nat
    BY <1>d, <1>2, <2>1
  <2> QED BY <1>7, <2>1, <2>2, <2>3
<1>9. TimersTypeOK'
  BY <1>a, <1>b, <1>4, <1>e DEF TimersTypeOK
<1>10. Distinct'
  <2> SUFFICES ASSUME NEW i \in M, NEW j \in M, list'[i] = list'[j]
               PROVE  i = j
    BY <1>e DEF Distinct
  <2>1. i \in Nat /\ j \in Nat /\ le \in Nat
    BY <1>1, <1>c
  <2>2. CASE i < le
    BY <1>2, <1>3, <1>f, <2>1, <2>2
  <2>3. CASE i = le
    BY <1>2, <1>3, <2>1, <2>3
  <2>4. CASE i > le
    <3>1. list'[i] = list[i - 1] /\ i - 1 \in Ix
      BY <1>3, <2>4
    <3>2. j > le
      <4>1. j # le
        BY <1>2, <1>3, <3>1
      <4>2. j < le => j = i - 1
        BY <1>3, <1>f, <3>1
      <4> QED BY <2>1, <2>4, <4>1, <4>2
    <3>3. list'[j] = list[j - 1] /\ j - 1 \in Ix
      BY <1>3, <3>2
    <3>4. i - 1 = j - 1
      BY <1>f, <3>1, <3>3
    <3> QED BY <2>1, <3>4
  <2> QED BY <2>1, <2>2, <2>3, <2>4
<1>11. Sorted'
  <2> SUFFICES ASSUME NEW i \in M, NEW j \in M, i < j
               PROVE  left[list'[i]] <= left[list'[j]]
    BY <1>b, <1>e DEF Sorted
  <2>1. i \in Nat /\ j \in Nat /\ le \in Nat
    BY <1>1, <1>c
  <2>2. CASE j < le
    BY <1>3, <1>g, <2>1, <2>2
  <2>3. CASE j = le
    <3>1. list'[j] = who /\ list'[i] = list[i] /\ i \in Ix
      BY <1>3, <2>1, <2>3
    <3> QED BY <1>c, <1>1, <2>3, <3>1
  <2>4. CASE j > le /\ i < le
    <3>1. list'[j] = list[j - 1] /\ list'[i] = list[i] /\ i \in Ix /\ j - 1 \in Ix /\ i < j - 1
      BY <1>3, <2>1, <2>4
    <3> QED BY <1>g, <3>1
  <2>5. CASE j > le /\ i = le
    <3>1. list'[j] = list[j - 1] /\ list'[i] = who /\ j - 1 \in Ix /\ j - 1 >= le
      BY <1>3, <2>1, <2>5
    <3>2. left[who] < left[list[j - 1]] /\ left[who] \in Nat /\ left[list[j - 1]] \in Nat
      BY <1>d, <1>2, <1>8, <3>1
    <3> QED BY <3>1, <3>2
  <2>6. CASE j > le /\ i > le
    <3>1. list'[j] = list[j - 1] /\ list'[i] = list[i - 1] /\ i - 1 \in Ix /\ j - 1 \in Ix
          /\ i - 1 < j - 1
      BY <1>3, <2>1, <2>6
    <3> QED BY <1>g, <3>1
  <2> QED BY <2>1, <2>2, <2>3, <2>4, <2>5, <2>6
<1>12. DeltaExact'
  <2> SUFFICES ASSUME NEW k \in M
               PROVE  left[list'[k]] = expires'[list'[k]] + Before(k)'
    BY <1>b, <1>e DEF DeltaExact
  <2>1. k \in Nat /\ le \in Nat /\ k >= 1 /\ le >= 1
    BY <1>1, <1>c
  <2>2. (k = 1 => Before(k)' = 0) /\ (k # 1 => Before(k)' = left[list'[k - 1]] /\ k - 1 \in M)
    BY <1>b, <1>1 DEF Before
  <2>3. CASE k < le
    <3>1. list'[k] = list[k] /\ k \in Ix /\ k # le /\ (k # 1 => list'[k - 1] = list[k - 1])
      BY <1>3, <2>1, <2>2, <2>3
    <3>2. Before(k)' = Before(k)
      BY <1>b, <3>1 DEF Before
    <3> QED BY <1>4, <1>5, <3>1, <3>2
  <2>4. CASE k = le
    <3>1. list'[k] = who /\ (k # 1 => list'[k - 1] = list[k - 1])
      BY <1>3, <2>1, <2>2, <2>4
    <3>2. Before(k)' = Before(le)
      BY <1>b, <2>4, <3>1 DEF Before
    <3> QED BY <1>4, <1>5, <3>1, <3>2
  <2>5. CASE k = le + 1
    <3>1. list'[k] = list[le] /\ le \in Ix /\ k # 1 /\ list'[k - 1] = who
      BY <1>3, <2>1, <2>5
    <3>2. left[list[le]] = expires[list[le]] + Before(le) /\ Before(le) \in Nat
      BY <1>5, <1>h, <3>1
    <3>3. expires'[list[le]] = expires[list[le]] - expires[who] /\ Before(k)' = left[who]
      BY <1>4, <2>2, <3>1
    <3>4. expires[who] \in Nat /\ expires[list[le]] \in Nat
      BY <1>d, <1>2, <3>1
    <3> QED BY <1>5, <3>1, <3>2, <3>3, <3>4
  <2>6. CASE k > le + 1
    <3>1. /\ list'[k] = list[k - 1] /\ k - 1 \in Ix /\ k - 1 # le /\ k - 1 # 1 /\ k # 1
          /\ list'[k - 1] = list[(k - 1) - 1] /\ k - 1 \in M
      BY <1>3, <2>1, <2>2, <2>6
    <3>2. Before(k - 1) = left[list[(k - 1) - 1]]
      BY <1>6, <3>1
    <3>3. Before(k)' = Before(k - 1)
      BY <2>2, <3>1, <3>2
    <3> QED BY <1>4, <1>5, <3>1, <3>3
  <2> QED BY <2>1, <2>3, <2>4, <2>5, <2>6
<1>13. /\ Linked(who)'
       /\ \A p \in Owner : Linked(p) => Linked(p)'
  <2>1. Linked(who)'
    BY <1>b, <1>c, <1>3, <1>e DEF Linked
  <2>2. ASSUME NEW p \in Owner, Linked(p) PROVE Linked(p)'
    <3>1. PICK i \in Ix : list[i] = p
      BY <1>1, <2>2 DEF Linked
    <3>2. CASE i < le
      BY <1>1, <1>3, <1>e, <3>1, <3>2 DEF Linked
    <3>3. CASE ~(i < le)
      <4>1. i + 1 \in M /\ i + 1 > le /\ (i + 1) - 1 = i
        BY <1>1, <1>c, <3>3
      <4>2. list'[i + 1] = p
        BY <1>3, <3>1, <4>1
      <4> QED BY <1>e, <4>1, <4>2 DEF Linked
    <3> QED BY <3>2, <3>3
  <2> QED BY <2>1, <2>2
<1>14. OffList'
  BY <1>a, <1>b, <1>13 DEF OffList
<1>15. Positive'
  <2> SUFFICES ASSUME NEW k \in M PROVE left[list'[k]] > 0
    BY <1>b, <1>e DEF Positive
  <2>1. \A i \in Ix : left[list[i]] > 0
    BY <1>a, <1>b, <1>1 DEF Positive
  <2>2. k < le \/ k = le \/ k > le
    BY <1>1, <1>c
  <2> QED BY <1>c, <1>3, <2>1, <2>2
<1> QED BY <1>b, <1>9, <1>10, <1>11, <1>12, <1>14, <1>15 DEF Adding, DeltaInv

\* Taking the entry at i off the list, by del_timer or by the loop of
\* run_timer_list.
LEMMA RemoveStep ==
    ASSUME DeltaInv, op # "add", NEW i \in DOMAIN list,
           list' = list_del_init(list, i), expires' = Inherits(i),
           left' = [left EXCEPT ![list[i]] = 0], op' = op, who' = who, le' = le
    PROVE  DeltaInv'
<1> DEFINE n == Len(list)
           Ix == 1..n
           M == 1..(n - 1)
<1>a. TimersTypeOK /\ Distinct /\ DeltaExact /\ Sorted /\ OffList /\ Positive
  BY DEF DeltaInv
<1>d. list \in Seq(Owner) /\ left \in [Owner -> Nat] /\ expires \in [Owner -> Nat]
  BY <1>a DEF TimersTypeOK
<1>1. n \in Nat /\ DOMAIN list = Ix /\ i \in Ix
  BY <1>a, ListFacts
<1>2. \A k \in Ix : list[k] \in Owner /\ left[list[k]] \in Nat /\ expires[list[k]] \in Nat
  BY <1>a, <1>1, ListFacts
<1>e. /\ list' \in Seq(Owner) /\ DOMAIN list' = M
      /\ \A k \in M : list'[k] = IF k < i THEN list[k] ELSE list[k + 1]
  <2> HIDE DEF n, Ix, M
  <2>1. /\ list_del_init(list, i) \in Seq(Owner)
        /\ DOMAIN list_del_init(list, i) = 1..(Len(list) - 1)
        /\ \A k \in 1..(Len(list) - 1) :
              list_del_init(list, i)[k] = IF k < i THEN list[k] ELSE list[k + 1]
    BY <1>d, DelInit
  <2> QED BY <2>1 DEF n, M
<1> HIDE DEF n
<1>f. \A j, k \in Ix : list[j] = list[k] => j = k
  BY <1>a, <1>1 DEF Distinct
<1>g. \A j, k \in Ix : j < k => left[list[j]] <= left[list[k]]
  BY <1>a, <1>1 DEF Sorted
<1>3. /\ \A k \in M : k < i => k \in Ix /\ k # i /\ list'[k] = list[k]
      /\ \A k \in M : k >= i => k + 1 \in Ix /\ k + 1 # i /\ list'[k] = list[k + 1]
  BY <1>1, <1>e
<1>4. \A k \in Ix : k # i => left'[list[k]] = left[list[k]]
  BY <1>d, <1>1, <1>2, <1>f
<1>5. \A k \in M : k \in Nat /\ i \in Nat /\ k >= 1 /\ i >= 1
  BY <1>1
<1>6. /\ expires' \in [Owner -> Nat]
      /\ \A k \in Ix : k # i + 1 => expires'[list[k]] = expires[list[k]]
      /\ i + 1 \in Ix => expires'[list[i + 1]] = expires[list[i + 1]] + expires[list[i]]
  <2>1. CASE expires[list[i]] # 0 /\ i < Len(list)
    <3>1. i + 1 \in Ix /\ i \in Ix
      BY <1>1, <2>1 DEF n
    <3>2. expires' = [expires EXCEPT ![list[i + 1]] = expires[list[i + 1]] + expires[list[i]]]
      BY <2>1 DEF Inherits
    <3>3. expires[list[i + 1]] + expires[list[i]] \in Nat /\ list[i + 1] \in Owner
      BY <1>2, <3>1
    <3>4. \A k \in Ix : k # i + 1 => list[k] # list[i + 1]
      BY <1>f, <3>1
    <3> QED BY <1>d, <1>2, <3>2, <3>3, <3>4
  <2>2. CASE ~(expires[list[i]] # 0 /\ i < Len(list))
    <3>1. expires' = expires
      BY <2>2 DEF Inherits
    <3>2. i + 1 \in Ix => expires[list[i]] = 0
      BY <1>1, <2>2 DEF n
    <3> QED BY <1>d, <1>2, <3>1, <3>2
  <2> QED BY <2>1, <2>2
<1>7. TimersTypeOK'
  BY <1>a, <1>d, <1>e, <1>6, <1>2, <1>1 DEF TimersTypeOK
<1>8. Distinct'
  <2> SUFFICES ASSUME NEW j \in M, NEW k \in M, list'[j] = list'[k]
               PROVE  j = k
    BY <1>e DEF Distinct
  <2>1. CASE j < i /\ k < i
    BY <1>3, <1>f, <2>1
  <2>2. CASE j < i /\ k >= i
    <3>1. j = k + 1
      BY <1>3, <1>f, <2>2
    <3> QED BY <1>5, <2>2, <3>1
  <2>3. CASE j >= i /\ k < i
    <3>1. j + 1 = k
      BY <1>3, <1>f, <2>3
    <3> QED BY <1>5, <2>3, <3>1
  <2>4. CASE j >= i /\ k >= i
    <3>1. j + 1 = k + 1
      BY <1>3, <1>f, <2>4
    <3> QED BY <1>5, <3>1
  <2> QED BY <1>5, <2>1, <2>2, <2>3, <2>4
<1>9. Sorted'
  <2> SUFFICES ASSUME NEW j \in M, NEW k \in M, j < k
               PROVE  left'[list'[j]] <= left'[list'[k]]
    BY <1>e DEF Sorted
  <2>1. CASE k < i
    BY <1>3, <1>4, <1>5, <1>g, <2>1
  <2>2. CASE j < i /\ k >= i
    <3>1. j \in Ix /\ k + 1 \in Ix /\ j < k + 1 /\ list'[j] = list[j] /\ list'[k] = list[k + 1]
          /\ j # i /\ k + 1 # i
      BY <1>3, <1>5, <2>2
    <3> QED BY <1>4, <1>g, <3>1
  <2>3. CASE j >= i
    <3>1. /\ j + 1 \in Ix /\ k + 1 \in Ix /\ j + 1 < k + 1 /\ list'[j] = list[j + 1]
          /\ list'[k] = list[k + 1] /\ j + 1 # i /\ k + 1 # i
      BY <1>3, <1>5, <2>3
    <3> QED BY <1>4, <1>g, <3>1
  <2> QED BY <1>5, <2>1, <2>2, <2>3
<1>10. DeltaExact'
  <2> SUFFICES ASSUME NEW k \in M
               PROVE  left'[list'[k]] = expires'[list'[k]] + Before(k)'
    BY <1>e DEF DeltaExact
  <2>0. \A j \in Ix : left[list[j]] = expires[list[j]] + Before(j)
    BY <1>a, <1>1 DEF DeltaExact
  <2>1. k - 1 \in M \/ k = 1
    BY <1>1
  <2>2. CASE k < i
    <3>1. k \in Ix /\ k # i /\ k # i + 1 /\ list'[k] = list[k]
      BY <1>3, <1>5, <2>2
    <3>2. k # 1 => k - 1 \in Ix /\ k - 1 # i /\ list'[k - 1] = list[k - 1]
      BY <1>3, <1>5, <2>1, <2>2
    <3>3. Before(k)' = Before(k)
      BY <1>4, <3>2 DEF Before
    <3> QED BY <1>4, <1>6, <2>0, <3>1, <3>3
  <2>3. CASE k = i
    <3>1. k + 1 \in Ix /\ k + 1 # i /\ k + 1 # 1 /\ (k + 1) - 1 = i /\ list'[k] = list[i + 1] /\ i + 1 \in Ix
      BY <1>3, <1>5, <2>3
    <3>2. k # 1 => k - 1 \in Ix /\ k - 1 # i /\ list'[k - 1] = list[k - 1]
      BY <1>3, <1>5, <2>1, <2>3
    <3>3. Before(k)' = Before(i)
      BY <1>4, <2>3, <3>2 DEF Before
    <3>4. left[list[i + 1]] = expires[list[i + 1]] + left[list[i]]
      <4>1. left[list[i + 1]] = expires[list[i + 1]] + Before(i + 1)
        BY <2>0, <3>1
      <4> QED BY <2>3, <3>1, <4>1 DEF Before
    <3>5. left[list[i]] = expires[list[i]] + Before(i)
      BY <1>1, <2>0
    <3>6. Before(i) \in Nat
      BY <1>1, <1>2, <2>3, <3>2 DEF Before
    <3>7. left'[list[i + 1]] = left[list[i + 1]]
      BY <1>4, <2>3, <3>1
    <3>8. expires'[list[i + 1]] = expires[list[i + 1]] + expires[list[i]]
      BY <1>6, <3>1
    <3> QED BY <1>1, <1>2, <3>1, <3>3, <3>4, <3>5, <3>6, <3>7, <3>8
  <2>4. CASE k > i
    <3>1. /\ k + 1 \in Ix /\ k + 1 # i /\ k + 1 # i + 1 /\ k + 1 # 1 /\ (k + 1) - 1 = k /\ k # 1
          /\ list'[k] = list[k + 1] /\ k \in Ix /\ k # i /\ (k - 1) + 1 = k /\ k - 1 >= i
      BY <1>1, <1>3, <1>5, <2>4
    <3>2. list'[k - 1] = list[k]
      BY <1>3, <2>1, <3>1
    <3>3. Before(k)' = left[list[k]]
      BY <1>4, <3>1, <3>2 DEF Before
    <3>4. Before(k + 1) = left[list[k]]
      BY <3>1 DEF Before
    <3> QED BY <1>4, <1>6, <2>0, <3>1, <3>3, <3>4
  <2> QED BY <1>5, <2>2, <2>3, <2>4
<1>11. \A p \in Owner : Linked(p) /\ p # list[i] => Linked(p)'
  <2> SUFFICES ASSUME NEW p \in Owner, NEW k \in Ix, list[k] = p, p # list[i]
               PROVE  Linked(p)'
    BY <1>1 DEF Linked
  <2>1. CASE k < i
    <3>1. k \in M /\ list'[k] = p
      BY <1>1, <1>3, <2>1
    <3> QED BY <1>e, <3>1 DEF Linked
  <2>2. CASE k > i
    <3>1. k - 1 \in M /\ k - 1 >= i /\ (k - 1) + 1 = k
      BY <1>1, <2>2
    <3>2. list'[k - 1] = p
      BY <1>3, <3>1
    <3> QED BY <1>e, <3>1, <3>2 DEF Linked
  <2>3. k # i
    OBVIOUS
  <2> QED BY <1>1, <2>1, <2>2, <2>3
<1>12. OffList'
  <2> SUFFICES ASSUME NEW p \in Owner, ~Linked(p)' PROVE left'[p] = 0
    BY DEF OffList
  <2>1. CASE p = list[i]
    BY <1>d, <2>1
  <2>2. CASE p # list[i]
    <3>1. left[p] = 0
      BY <1>a, <1>11, <2>2 DEF OffList
    <3> QED BY <1>d, <2>2, <3>1
  <2> QED BY <2>1, <2>2
<1>13. Positive'
  <2> SUFFICES ASSUME op # "run", NEW k \in M PROVE left'[list'[k]] > 0
    BY <1>e DEF Positive
  <2>1. \A j \in Ix : left[list[j]] > 0
    BY <1>a, <1>1 DEF Positive
  <2> QED BY <1>3, <1>4, <1>5, <2>1
<1> QED BY <1>7, <1>8, <1>9, <1>10, <1>12, <1>13 DEF DeltaInv, Adding

\* A tick decrements one entry; every timer is one tick nearer.
LEMMA RunTimerListStep ==
    ASSUME DeltaInv, RunTimerList
    PROVE  DeltaInv'
<1> DEFINE n == Len(list)
           Ix == 1..n
<1>a. TimersTypeOK /\ Distinct /\ DeltaExact /\ Sorted /\ OffList /\ Positive
  BY DEF DeltaInv
<1>b. /\ op = "none" /\ op' = "run" /\ list' = list /\ who' = who /\ le' = le
      /\ expires' = [expires EXCEPT ![list[1]] = expires[list[1]] - 1]
      /\ left' = [p \in Owner |-> IF left[p] > 0 THEN left[p] - 1 ELSE 0]
  BY DEF RunTimerList
<1>1. n \in Nat /\ DOMAIN list = Ix /\ 1 \in Ix
  BY <1>a, ListFacts DEF RunTimerList
<1>2. \A k \in Ix : list[k] \in Owner /\ left[list[k]] \in Nat /\ expires[list[k]] \in Nat
  BY <1>a, <1>1, ListFacts
<1> HIDE DEF n
<1>3. \A k \in Ix : left[list[k]] > 0 /\ left'[list[k]] = left[list[k]] - 1
  <2>1. \A k \in Ix : left[list[k]] > 0
    BY <1>a, <1>b, <1>1 DEF Positive
  <2> QED BY <1>b, <1>2, <2>1
<1>4. left[list[1]] = expires[list[1]]
  <2>1. left[list[1]] = expires[list[1]] + Before(1)
    BY <1>a, <1>1 DEF DeltaExact
  <2> QED BY <1>1, <1>2, <2>1 DEF Before
<1>5. /\ expires' \in [Owner -> Nat] /\ expires'[list[1]] = expires[list[1]] - 1
      /\ \A k \in Ix : k # 1 => expires'[list[k]] = expires[list[k]]
  <2>1. expires[list[1]] - 1 \in Nat /\ list[1] \in Owner
    BY <1>1, <1>2, <1>3, <1>4
  <2>2. \A k \in Ix : k # 1 => list[k] # list[1]
    BY <1>a, <1>1 DEF Distinct
  <2> QED BY <1>a, <1>b, <1>2, <2>1, <2>2 DEF TimersTypeOK
<1>6. TimersTypeOK'
  BY <1>a, <1>b, <1>5 DEF TimersTypeOK
<1>7. Distinct' /\ OffList' /\ Positive'
  BY <1>a, <1>b DEF Distinct, OffList, Positive, Linked
<1>8. Sorted'
  <2> SUFFICES ASSUME NEW j \in Ix, NEW k \in Ix, j < k PROVE left'[list[j]] <= left'[list[k]]
    BY <1>b, <1>1 DEF Sorted
  <2>1. left[list[j]] <= left[list[k]]
    BY <1>a, <1>1 DEF Sorted
  <2> QED BY <1>2, <1>3, <2>1
<1>9. DeltaExact'
  <2> SUFFICES ASSUME NEW k \in Ix PROVE left'[list[k]] = expires'[list[k]] + Before(k)'
    BY <1>b, <1>1 DEF DeltaExact
  <2>1. CASE k = 1
    <3>1. Before(k)' = 0
      BY <2>1 DEF Before
    <3> QED BY <1>1, <1>2, <1>3, <1>4, <1>5, <2>1, <3>1
  <2>2. CASE k # 1
    <3>1. k - 1 \in Ix
      BY <1>1, <2>2
    <3>2. left[list[k]] = expires[list[k]] + left[list[k - 1]]
      <4>1. left[list[k]] = expires[list[k]] + Before(k)
        BY <1>a, <1>1 DEF DeltaExact
      <4> QED BY <2>2, <4>1 DEF Before
    <3>3. Before(k)' = left'[list[k - 1]]
      BY <1>b, <2>2 DEF Before
    <3> QED BY <1>2, <1>3, <1>5, <2>2, <3>1, <3>2, <3>3
  <2> QED BY <2>1, <2>2
<1> QED BY <1>b, <1>6, <1>7, <1>8, <1>9 DEF DeltaInv, Adding

\* The first entry counts from now.
LEMMA HeadExact ==
    ASSUME DeltaInv, list # <<>>
    PROVE  1 \in DOMAIN list /\ left[list[1]] = expires[list[1]]
<1>1. 1 \in DOMAIN list
  BY ListFacts DEF DeltaInv
<1>2. left[list[1]] = expires[list[1]] + Before(1)
  BY <1>1 DEF DeltaInv, DeltaExact
<1>3. expires[list[1]] \in Nat
  BY <1>1, ListFacts DEF DeltaInv
<1> QED BY <1>1, <1>2, <1>3 DEF Before

LEMMA RunFiresStep ==
    ASSUME DeltaInv, RunFires
    PROVE  DeltaInv'
<1>1. /\ op = "run" /\ list # <<>> /\ expires[list[1]] = 0
      /\ list' = list_del_init(list, 1) /\ UNCHANGED <<expires, op, who, le, left>>
  BY DEF RunFires, Expires
<1>2. 1 \in DOMAIN list /\ left[list[1]] = 0
  BY <1>1, HeadExact
<1>3. expires' = Inherits(1)
  BY <1>1 DEF Inherits
<1>4. left' = [left EXCEPT ![list[1]] = 0]
  BY <1>1, <1>2 DEF DeltaInv, TimersTypeOK
<1> QED BY <1>1, <1>2, <1>3, <1>4, RemoveStep

LEMMA RunEndsStep ==
    ASSUME DeltaInv, RunEnds
    PROVE  DeltaInv'
<1>1. /\ op = "run" /\ op' = "none" /\ UNCHANGED <<list, expires, who, le, left>>
      /\ (list # <<>> => expires[list[1]] # 0)
  BY DEF RunEnds, Expires
<1>2. \A k \in DOMAIN list : left[list[k]] > 0
  <2> SUFFICES ASSUME NEW k \in DOMAIN list PROVE left[list[k]] > 0
    OBVIOUS
  <2>1. list # <<>> /\ DOMAIN list = 1..Len(list) /\ Len(list) \in Nat
    BY ListFacts DEF DeltaInv
  <2>2. 1 \in DOMAIN list /\ left[list[1]] # 0
    BY <1>1, <2>1, HeadExact
  <2>3. left[list[1]] \in Nat /\ left[list[k]] \in Nat
    BY <2>2, ListFacts DEF DeltaInv
  <2>4. k = 1 \/ left[list[1]] <= left[list[k]]
    BY <2>1, <2>2 DEF DeltaInv, Sorted
  <2> QED BY <2>2, <2>3, <2>4
<1>3. TimersTypeOK' /\ Distinct' /\ Sorted' /\ OffList'
  BY <1>1 DEF DeltaInv, TimersTypeOK, Distinct, Sorted, OffList, Linked
<1>4. DeltaExact'
  BY <1>1 DEF DeltaInv, DeltaExact, Before
<1> QED BY <1>1, <1>2, <1>3, <1>4 DEF DeltaInv, Positive, Adding

-----------------------------------------------------------------------------
LEMMA DeltaInvariant == TimersSpec => []DeltaInv
<1>1. TimersInit => DeltaInv
  <2> SUFFICES ASSUME TimersInit PROVE DeltaInv
    OBVIOUS
  <2>1. list = <<>> /\ DOMAIN list = {} /\ Len(list) = 0
    BY DEF TimersInit
  <2>2. TimersTypeOK
    BY DEF TimersInit, TimersTypeOK
  <2> QED BY <2>1, <2>2
          DEF TimersInit, DeltaInv, Distinct, DeltaExact, Sorted, OffList, Positive, Adding
<1>2. DeltaInv /\ [TimersNext]_timersVars => DeltaInv'
  <2> SUFFICES ASSUME DeltaInv, [TimersNext]_timersVars PROVE DeltaInv'
    OBVIOUS
  <2>1. ASSUME NEW p \in Owner, NEW t \in 1..MaxTime, AddTimer(p, t) PROVE DeltaInv'
    BY <2>1, AddTimerStep
  <2>2. ASSUME NEW i \in DOMAIN list, DelTimer(i) PROVE DeltaInv'
    BY <2>2, RemoveStep DEF DelTimer
  <2>3. CASE RunTimerList
    BY <2>3, RunTimerListStep
  <2>4. CASE Loop
    BY <2>4, AddPassesStep, AddInsertsStep, RunFiresStep, RunEndsStep DEF Loop
  <2>5. CASE UNCHANGED timersVars
    BY <2>5 DEF timersVars, DeltaInv, TimersTypeOK, Distinct, DeltaExact, Before, Sorted, OffList,
                Positive, Adding, Linked
  <2> QED BY <2>1, <2>2, <2>3, <2>4, <2>5 DEF TimersNext
<1> QED BY <1>1, <1>2, PTL DEF TimersSpec

\* Each entry of the list counts from the one before it, for every sequence of
\* add_timer, del_timer and ticks.
THEOREM DeltaCorrect == TimersSpec => []DeltaExact
<1>1. DeltaInv => DeltaExact
  BY DEF DeltaInv
<1> QED BY <1>1, DeltaInvariant, PTL

\* The assertion of run_timer_list: the first timer is never already expired.
THEOREM HeadCorrect == TimersSpec => []HeadNotExpired
<1>1. DeltaInv => HeadNotExpired
  <2> SUFFICES ASSUME DeltaInv, op \in {"none", "add"}, list # <<>>
               PROVE  expires[list[1]] > 0
    BY DEF HeadNotExpired
  <2>1. 1 \in DOMAIN list /\ left[list[1]] = expires[list[1]]
    BY HeadExact
  <2> QED BY <2>1 DEF DeltaInv, Positive
<1> QED BY <1>1, DeltaInvariant, PTL

\* A step of the list is a step of TimerSpec, or changes nothing of it.
LEMMA ServiceStep ==
    ASSUME DeltaInv, [TimersNext]_timersVars
    PROVE  [Service!TimerNext]_(Service!timerVars)
<1> DEFINE due == {p \in Owner : op = "run" /\ Linked(p) /\ left[p] = 0}
<1>0. /\ left \in [Owner -> Nat] /\ OffList /\ Positive
      /\ \A i \in DOMAIN list : list[i] \in Owner
  BY ListFacts DEF DeltaInv, TimersTypeOK
<1>1. ASSUME NEW p \in Owner, NEW t \in 1..MaxTime, AddTimer(p, t)
      PROVE  Service!Set(p, t)
  <2>1. op = "none" /\ op' = "add" /\ ~Linked(p) /\ left' = [left EXCEPT ![p] = t]
    BY <1>1 DEF AddTimer
  <2>2. left[p] = 0
    BY <1>0, <2>1 DEF OffList
  <2>3. due = {} /\ due' = {}
    BY <2>1
  <2> QED BY <2>1, <2>2, <2>3 DEF Service!Set
<1>2. ASSUME NEW i \in DOMAIN list, DelTimer(i) PROVE Service!Cancel(list[i])
  <2>1. op = "none" /\ op' = "none" /\ left' = [left EXCEPT ![list[i]] = 0]
    BY <1>2 DEF DelTimer
  <2>2. due = {} /\ due' = {}
    BY <2>1
  <2> QED BY <2>1, <2>2 DEF Service!Cancel
<1>3. ASSUME RunTimerList PROVE Service!Tick
  <2>1. /\ op = "none" /\ op' = "run" /\ list' = list
        /\ left' = [p \in Owner |-> IF left[p] > 0 THEN left[p] - 1 ELSE 0]
    BY <1>3 DEF RunTimerList
  <2>2. ASSUME NEW p \in Owner PROVE Linked(p)' /\ left'[p] = 0 <=> left[p] = 1
    <3>1. Linked(p)' <=> Linked(p)
      BY <2>1 DEF Linked
    <3>2. Linked(p) <=> left[p] > 0
      BY <1>0, <2>1 DEF OffList, Positive, Linked
    <3> QED BY <1>0, <2>1, <3>1, <3>2
  <2>3. due' = {p \in Owner : left[p] = 1}
    BY <2>1, <2>2
  <2> QED BY <2>1, <2>3 DEF Service!Tick
<1>4. ASSUME RunFires PROVE Service!Fire(list[1]) /\ list[1] \in Owner
  <2>1. /\ op = "run" /\ op' = "run" /\ list # <<>> /\ expires[list[1]] = 0 /\ left' = left
        /\ list' = list_del_init(list, 1)
    BY <1>4 DEF RunFires, Expires
  <2>2. 1 \in DOMAIN list /\ left[list[1]] = 0 /\ list[1] \in Owner
    BY <1>0, <2>1, HeadExact
  <2>3. Linked(list[1])
    BY <2>2 DEF Linked
  <2>4. list \in Seq(Owner) /\ DOMAIN list = 1..Len(list) /\ Len(list) \in Nat
    BY ListFacts DEF DeltaInv, TimersTypeOK
  <2>5. /\ DOMAIN list' = 1..(Len(list) - 1)
        /\ \A k \in 1..(Len(list) - 1) : list'[k] = IF k < 1 THEN list[k] ELSE list[k + 1]
    BY <2>1, <2>2, <2>4, DelInit
  <2>6. \A k \in DOMAIN list' : k + 1 \in DOMAIN list /\ k + 1 # 1 /\ list'[k] = list[k + 1]
    BY <2>4, <2>5
  <2>7. ASSUME NEW p \in Owner PROVE Linked(p)' <=> Linked(p) /\ p # list[1]
    <3>1. ASSUME Linked(p)' PROVE Linked(p) /\ p # list[1]
      <4>1. PICK k \in DOMAIN list' : list'[k] = p
        BY <3>1 DEF Linked
      <4>2. k + 1 \in DOMAIN list /\ list[k + 1] = p /\ k + 1 # 1
        BY <2>6, <4>1
      <4> QED BY <2>2, <4>2 DEF Linked, DeltaInv, Distinct
    <3>2. ASSUME Linked(p), p # list[1] PROVE Linked(p)'
      <4>1. PICK k \in DOMAIN list : list[k] = p
        BY <3>2 DEF Linked
      <4>2. k - 1 \in DOMAIN list' /\ (k - 1) + 1 = k
        BY <2>4, <2>5, <3>2, <4>1
      <4> QED BY <2>6, <4>1, <4>2 DEF Linked
    <3> QED BY <3>1, <3>2
  <2>8. due' = due \ {list[1]} /\ list[1] \in due
    BY <2>1, <2>2, <2>3, <2>7
  <2> QED BY <2>1, <2>2, <2>8 DEF Service!Fire
<1>5. ASSUME RunEnds PROVE Service!TickDone
  <2>1. op = "run" /\ op' = "none" /\ left' = left /\ list' = list
    BY <1>5 DEF RunEnds
  <2>2. DeltaInv'
    BY <1>5, RunEndsStep
  <2>3. \A k \in DOMAIN list : left[list[k]] > 0
    BY <2>1, <2>2 DEF DeltaInv, Positive
  <2>4. due = {} /\ due' = {}
    BY <2>1, <2>3 DEF Linked
  <2> QED BY <2>1, <2>4 DEF Service!TickDone
<1>6. ASSUME AddPasses \/ AddInserts \/ UNCHANGED timersVars PROVE UNCHANGED Service!timerVars
  <2>1. CASE AddPasses \/ AddInserts
    <3>1. op # "run" /\ op' # "run" /\ left' = left
      BY <2>1 DEF AddPasses, AddInserts
    <3>2. due = {} /\ due' = {}
      BY <3>1
    <3> QED BY <3>1, <3>2 DEF Service!timerVars
  <2>2. CASE UNCHANGED timersVars
    BY <2>2 DEF timersVars, Linked, Service!timerVars
  <2> QED BY <1>6, <2>1, <2>2
<1>7. CASE \E p \in Owner, t \in 1..MaxTime : AddTimer(p, t)
  BY <1>1, <1>7 DEF Service!TimerNext
<1>8. CASE \E i \in DOMAIN list : DelTimer(i)
  <2>1. PICK i \in DOMAIN list : DelTimer(i)
    BY <1>8
  <2>2. list[i] \in Owner
    BY <1>0, <2>1
  <2>3. Service!Cancel(list[i])
    BY <1>2, <2>1
  <2>4. \E p \in Owner : Service!Cancel(p)
    BY <2>2, <2>3, Zenon
  <2> QED BY <2>4, Zenon DEF Service!TimerNext
<1>9. CASE RunFires
  <2>0. list[1] \in Owner /\ Service!Fire(list[1])
    BY <1>4, <1>9
  <2>1. \E p \in Owner : Service!Fire(p)
    BY <2>0 DEF Service!Fire
  <2> QED BY <2>1, Zenon DEF Service!TimerNext
<1>10. CASE RunTimerList \/ RunEnds
  BY <1>3, <1>5, <1>10 DEF Service!TimerNext
<1>11. CASE AddPasses \/ AddInserts \/ UNCHANGED timersVars
  BY <1>6, <1>11
<1> QED BY <1>7, <1>8, <1>9, <1>10, <1>11 DEF TimersNext, Loop

\* The delta list keeps the promise of TimerSpec: every timer is fired by exactly
\* the tick its owner asked for, whatever else is on the list.
THEOREM TimersImplement == TimersSpec => ServiceSafety
<1>1. TimersInit => Service!TimerInit
  BY DEF TimersInit, Service!TimerInit
<1>2. DeltaInv /\ [TimersNext]_timersVars => [Service!TimerNext]_(Service!timerVars)
  BY ServiceStep
<1> QED BY <1>1, <1>2, DeltaInvariant, PTL DEF TimersSpec, ServiceSafety, Service!TimerSafety
=============================================================================
