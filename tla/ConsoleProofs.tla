---------------------------- MODULE ConsoleProofs ---------------------------
(***************************************************************************)
(* Proofs about the way of a character to its reader, for any number of    *)
(* readers and any sizes of the three buffers.                             *)
(***************************************************************************)
EXTENDS Console, SequenceTheorems, TLAPS

\* The readers on the wait queue, and those inside dev_stdin_read that no character
\* has woken.
Queued == {queue[i] : i \in DOMAIN queue}
Waiting == {r \in Reader : pc[r] = "wait" /\ flags[r] # "WT_KBD"}

ReaderType ==
    /\ mode \in {"on", "off", "com", "timer", "tail"}
    /\ cpu \in Reader \cup {Idle}
    /\ queue \in Seq(Reader) /\ asleep \in SUBSET Reader
    /\ flags \in [Reader -> {"WT_INTERRUPTED", "WT_KBD"}]
    /\ pc \in [Reader -> {"user", "read", "wait", "gone"}]

\* Who has the CPU is awake and where the mode says: a process in user mode when an
\* interrupt handler or trap()'s tail runs, one inside dev_stdin_read in a system call.
OnCpu ==
    /\ cpu \notin asleep
    /\ mode \in {"off", "tail"} => cpu \in Reader
    /\ mode = "off" => pc[cpu] \in {"read", "wait"}
    /\ mode # "off" /\ cpu \in Reader => pc[cpu] = "user"

\* The inductive invariant of the readers.
ReaderInv == ReaderType /\ OnCpu /\ WaitQueueExact

\* Characters in the console buffer.
Held(r, w) == (w - r) % ConsSize

BufferType ==
    /\ rx \in Seq(Nat) /\ out \in Seq(Nat) /\ typed \in Nat
    /\ lost \in SUBSET {"com", "cons", "stdin"}
    /\ cons \in [buf : [0..(ConsSize - 1) -> Nat],
                 rpos : 0..(ConsSize - 1), wpos : 0..(ConsSize - 1)]
    /\ stdin \in [buf : [0..(StdinSize - 1) -> Nat], rpos : Nat, wpos : Nat]
    /\ stdin.rpos <= stdin.wpos /\ stdin.wpos - stdin.rpos <= StdinSize

\* Each buffer goes on where the one behind it ends: o has been read, s is the stdin
\* buffer between sr and sw, c the console's between cr and cw, x the device's, and t
\* characters have been typed.
Line(o, s, sr, sw, c, cr, cw, x, t) ==
    /\ Len(o) = sr
    /\ \A i \in 1..sr : o[i] = i
    /\ \A j \in 0..(sw - sr - 1) : s[(sr + j) % StdinSize] = sr + j + 1
    /\ \A j \in 0..(Held(cr, cw) - 1) : c[(cr + j) % ConsSize] = sw + j + 1
    /\ \A j \in 1..Len(x) : x[j] = sw + Held(cr, cw) + j
    /\ t = sw + Held(cr, cw) + Len(x)

Contents ==
    Line(out, stdin.buf, stdin.rpos, stdin.wpos, cons.buf, cons.rpos, cons.wpos, rx, typed)

\* The inductive invariant of the buffers.
BufferInv == BufferType /\ (lost = {} => Contents)

-----------------------------------------------------------------------------
(* The readers and the wait queue *)

LEMMA QueueIs ==
    WaitQueueExact <=> /\ \A i, j \in DOMAIN queue : queue[i] = queue[j] => i = j
                       /\ Queued = Waiting /\ asleep \subseteq Queued
BY DEF WaitQueueExact, Queued, Waiting

\* schedule() takes a process that is awake and not gone, or idle.
LEMMA SwitchFacts ==
    ASSUME ReaderType, NEW S, Switch(S), S \subseteq Runnable
    PROVE  /\ cpu' \in S \cup {Idle}
           /\ mode' \in {"on", "off"}
           /\ cpu' = Idle => mode' = "on"
           /\ cpu' \in S => /\ cpu' \in Reader \ asleep
                            /\ mode' = "on" => pc[cpu'] = "user"
                            /\ mode' = "off" => pc[cpu'] \in {"read", "wait"}
<1>1. PICK p \in IF S = {} THEN {Idle} ELSE S :
        /\ cpu' = p
        /\ mode' = IF p = Idle \/ pc[p] = "user" THEN "on" ELSE "off"
  BY DEF Switch
<1>2. p \in S \cup {Idle}
  BY <1>1
<1>3. p \in S => p \in Reader \ asleep /\ p # Idle /\ pc[p] # "gone"
  BY ConsoleAssumption DEF Runnable
<1> QED BY <1>1, <1>2, <1>3 DEF ReaderType

\* A step that leaves the queue, the sleepers and the places of the readers alone.
LEMMA StillReaders ==
    ASSUME ReaderInv, UNCHANGED <<queue, asleep, flags, pc>>,
           mode' \in {"on", "off", "com", "timer", "tail"}, cpu' \in Reader \cup {Idle}, OnCpu'
    PROVE  ReaderInv'
BY DEF ReaderInv, ReaderType, WaitQueueExact

LEMMA HardwareReaders ==
    ASSUME ReaderInv, CharArrives \/ TimerFires \/ Interrupted
    PROVE  ReaderInv'
<1>1. UNCHANGED <<queue, asleep, flags, pc, cpu>>
  BY DEF CharArrives, TimerFires, Interrupted, TakeIrq, rdVars
<1>2. mode' = mode \/ (mode = "on" /\ mode' \in {"on", "timer", "com"})
  BY DEF CharArrives, TimerFires, Interrupted, TakeIrq
<1>3. mode' \in {"on", "off", "com", "timer", "tail"} /\ cpu' \in Reader \cup {Idle}
  BY <1>1, <1>2 DEF ReaderInv, ReaderType
<1>4. OnCpu'
  BY <1>1, <1>2 DEF ReaderInv, OnCpu
<1> QED BY <1>1, <1>3, <1>4, StillReaders

LEMMA QuietReaders ==
    ASSUME ReaderInv, ComPolls \/ IrqReturns \/ \E r \in Reader : ReadTakes(r)
    PROVE  ReaderInv'
<1>1. UNCHANGED <<queue, asleep, flags, pc, cpu>>
  BY DEF ComPolls, IrqReturns, ReadTakes, rdVars
<1>2. \/ mode' = mode
      \/ mode \in {"com", "timer"} /\ mode' = IF cpu = Idle THEN "on" ELSE "tail"
  BY DEF ComPolls, IrqReturns, ReadTakes, ComNone
<1>3. mode' \in {"on", "off", "com", "timer", "tail"} /\ cpu' \in Reader \cup {Idle}
  BY <1>1, <1>2 DEF ReaderInv, ReaderType
<1>4. OnCpu'
  BY <1>1, <1>2, ConsoleAssumption DEF ReaderInv, OnCpu, ReaderType
<1> QED BY <1>1, <1>3, <1>4, StillReaders

\* A character for stdin: everyone on the queue is woken.
LEMMA ComFeedsReaders ==
    ASSUME ReaderInv, ComFeeds
    PROVE  ReaderInv'
<1>1. /\ mode = "com" /\ queue' = <<>> /\ asleep' = asleep \ Queued
      /\ flags' = [r \in Reader |-> IF r \in Queued THEN "WT_KBD" ELSE flags[r]]
      /\ UNCHANGED <<pc, mode, cpu>>
  BY DEF ComFeeds, Woken, Queued
<1>2. ReaderType'
  BY <1>1 DEF ReaderInv, ReaderType
<1>3. OnCpu'
  BY <1>1 DEF ReaderInv, OnCpu
<1>4. Queued' = {} /\ asleep' = {}
  BY <1>1, QueueIs DEF ReaderInv, Queued
<1>5. Waiting' = {}
  BY <1>1, QueueIs DEF ReaderInv, Waiting
<1>6. \A i, j \in DOMAIN queue' : queue'[i] = queue'[j] => i = j
  BY <1>1
<1>7. WaitQueueExact'
  BY <1>4, <1>5, <1>6 DEF WaitQueueExact, Queued, Waiting
<1> QED BY <1>2, <1>3, <1>7 DEF ReaderInv

LEMMA SchedulesReaders ==
    ASSUME ReaderInv, IdleSchedules \/ TailReturns
    PROVE  ReaderInv'
<1>1. UNCHANGED <<queue, asleep, flags, pc>>
  BY DEF IdleSchedules, TailReturns, rdVars
<1>2. Switch(Runnable) \/ (mode = "tail" /\ Switch({cpu}))
  BY DEF IdleSchedules, TailReturns
<1>3. mode = "tail" => {cpu} \subseteq Runnable
  BY DEF ReaderInv, OnCpu, Runnable
<1>4. PICK S : S \subseteq Runnable /\ Switch(S)
  BY <1>2, <1>3
<1>5. /\ cpu' \in S \cup {Idle} /\ mode' \in {"on", "off"}
      /\ cpu' = Idle => mode' = "on"
      /\ cpu' \in S => /\ cpu' \in Reader \ asleep
                       /\ mode' = "on" => pc[cpu'] = "user"
                       /\ mode' = "off" => pc[cpu'] \in {"read", "wait"}
  BY <1>4, SwitchFacts DEF ReaderInv
<1>6. Idle \notin asleep
  BY ConsoleAssumption DEF ReaderInv, ReaderType
<1>7. cpu' \in Reader \cup {Idle} /\ OnCpu'
  BY <1>1, <1>5, <1>6, ConsoleAssumption DEF OnCpu
<1> QED BY <1>1, <1>5, <1>7, StillReaders

\* A killed process leaves at trap()'s tail, where it is on no wait queue.
LEMMA TailExitsReaders ==
    ASSUME ReaderInv, TailExits
    PROVE  ReaderInv'
<1>1. /\ mode = "tail" /\ pc' = [pc EXCEPT ![cpu] = "gone"] /\ Switch(Runnable \ {cpu})
      /\ UNCHANGED <<queue, asleep, flags>>
  BY DEF TailExits
<1>2. cpu \in Reader /\ pc[cpu] = "user"
  BY <1>1 DEF ReaderInv, OnCpu
<1>3. /\ cpu' \in (Runnable \ {cpu}) \cup {Idle} /\ mode' \in {"on", "off"}
      /\ cpu' = Idle => mode' = "on"
      /\ cpu' \in Runnable \ {cpu} => /\ cpu' \in Reader \ asleep
                                      /\ mode' = "on" => pc[cpu'] = "user"
                                      /\ mode' = "off" => pc[cpu'] \in {"read", "wait"}
  BY <1>1, SwitchFacts DEF ReaderInv
<1>4. cpu' # cpu
  BY <1>2, <1>3, ConsoleAssumption
<1>5. cpu' \in Reader => pc'[cpu'] = pc[cpu']
  BY <1>1, <1>4 DEF ReaderInv, ReaderType
<1>6. Idle \notin Reader /\ Idle \notin asleep
  BY ConsoleAssumption DEF ReaderInv, ReaderType
<1>7. cpu' \in Reader \cup {Idle}
  BY <1>3
<1>8. OnCpu'
  BY <1>1, <1>3, <1>5, <1>6, <1>7 DEF OnCpu
<1>9. ReaderType'
  BY <1>1, <1>3, <1>7 DEF ReaderInv, ReaderType
<1>10. Waiting' = Waiting
  BY <1>1, <1>2 DEF Waiting, ReaderInv, ReaderType
<1>11. WaitQueueExact'
  BY <1>1, <1>10 DEF ReaderInv, WaitQueueExact, Waiting
<1> QED BY <1>8, <1>9, <1>11 DEF ReaderInv

LEMMA BeginsReaders ==
    ASSUME ReaderInv, NEW r \in Reader, NEW n, ReadBegins(r, n)
    PROVE  ReaderInv'
<1>1. /\ cpu = r /\ pc[r] = "user" /\ mode' = "off" /\ cpu' = cpu
      /\ pc' = [pc EXCEPT ![r] = "read"] /\ UNCHANGED <<queue, asleep, flags>>
  BY DEF ReadBegins, InUser
<1>2. ReaderType' /\ OnCpu'
  BY <1>1 DEF ReaderInv, ReaderType, OnCpu
<1>3. Waiting' = Waiting
  BY <1>1 DEF Waiting, ReaderInv, ReaderType
<1>4. WaitQueueExact'
  BY <1>1, <1>3 DEF ReaderInv, WaitQueueExact, Waiting
<1> QED BY <1>2, <1>4 DEF ReaderInv

LEMMA ReturnsReaders ==
    ASSUME ReaderInv, NEW r \in Reader, ReadReturns(r)
    PROVE  ReaderInv'
<1>1. /\ cpu = r /\ pc[r] = "read" /\ mode' = "tail" /\ cpu' = cpu
      /\ pc' = [pc EXCEPT ![r] = "user"] /\ UNCHANGED <<queue, asleep, flags>>
  BY DEF ReadReturns, Reading
<1>2. ReaderType' /\ OnCpu'
  BY <1>1 DEF ReaderInv, ReaderType, OnCpu
<1>3. Waiting' = Waiting
  BY <1>1 DEF Waiting, ReaderInv, ReaderType
<1>4. WaitQueueExact'
  BY <1>1, <1>3 DEF ReaderInv, WaitQueueExact, Waiting
<1> QED BY <1>2, <1>4 DEF ReaderInv

\* A kill wakes the victim and leaves it on the queue.
LEMMA KillReaders ==
    ASSUME ReaderInv, NEW r \in Reader, NEW q \in Reader, Kill(r, q)
    PROVE  ReaderInv'
<1>1. /\ cpu = r /\ pc[r] = "user" /\ mode' = "tail" /\ cpu' = cpu
      /\ asleep' = asleep \ {q} /\ UNCHANGED <<queue, flags, pc>>
  BY DEF Kill, InUser
<1>2. ReaderType' /\ OnCpu'
  BY <1>1 DEF ReaderInv, ReaderType, OnCpu
<1>3. WaitQueueExact'
  BY <1>1 DEF ReaderInv, WaitQueueExact
<1> QED BY <1>2, <1>3 DEF ReaderInv

\* No input: the reader joins the queue, where it is not yet, and gives up the CPU.
LEMMA SleepsReaders ==
    ASSUME ReaderInv, NEW r \in Reader, ReadSleeps(r)
    PROVE  ReaderInv'
<1>1. /\ cpu = r /\ pc[r] = "read" /\ queue' = Append(queue, r)
      /\ asleep' = asleep \cup {r} /\ flags' = [flags EXCEPT ![r] = "WT_INTERRUPTED"]
      /\ pc' = [pc EXCEPT ![r] = "wait"] /\ Switch(Runnable \ {r})
  BY DEF ReadSleeps, Reading
<1>2. /\ cpu' \in (Runnable \ {r}) \cup {Idle} /\ mode' \in {"on", "off"}
      /\ cpu' = Idle => mode' = "on"
      /\ cpu' \in Runnable \ {r} => /\ cpu' \in Reader \ asleep
                                    /\ mode' = "on" => pc[cpu'] = "user"
                                    /\ mode' = "off" => pc[cpu'] \in {"read", "wait"}
  BY <1>1, SwitchFacts DEF ReaderInv
<1>3. cpu' # r /\ Idle \notin Reader /\ Idle \notin asleep
  BY <1>2, ConsoleAssumption DEF ReaderInv, ReaderType
<1>4. cpu' \in Reader => pc'[cpu'] = pc[cpu']
  BY <1>1, <1>3 DEF ReaderInv, ReaderType
<1>5. cpu' \in Reader \cup {Idle}
  BY <1>2
<1>6. OnCpu'
  BY <1>1, <1>2, <1>3, <1>4, <1>5 DEF OnCpu
<1>7. ReaderType'
  BY <1>1, <1>2, <1>5 DEF ReaderInv, ReaderType
<1>8. r \notin Queued
  BY <1>1, QueueIs DEF ReaderInv, Waiting
<1>9. /\ queue \in Seq(Reader) /\ Len(queue) \in Nat /\ DOMAIN queue = 1..Len(queue)
      /\ DOMAIN queue' = 1..(Len(queue) + 1) /\ queue'[Len(queue) + 1] = r
      /\ \A i \in 1..Len(queue) : queue'[i] = queue[i]
  BY <1>1 DEF ReaderInv, ReaderType
<1>10. Queued' = Queued \cup {r}
  <2>1. \A i \in DOMAIN queue' : i = Len(queue) + 1 \/ i \in DOMAIN queue
    BY <1>9
  <2>2. \A i \in DOMAIN queue : i \in DOMAIN queue' /\ queue'[i] = queue[i]
    BY <1>9
  <2>3. Len(queue) + 1 \in DOMAIN queue'
    BY <1>9
  <2> QED BY <2>1, <2>2, <2>3, <1>9 DEF Queued
<1>11. Waiting' = Waiting \cup {r}
  BY <1>1 DEF Waiting, ReaderInv, ReaderType
<1>12. \A i, j \in DOMAIN queue' : queue'[i] = queue'[j] => i = j
  <2> SUFFICES ASSUME NEW i \in DOMAIN queue', NEW j \in DOMAIN queue', queue'[i] = queue'[j]
               PROVE  i = j
    OBVIOUS
  <2>1. \A k \in DOMAIN queue : queue[k] # r
    BY <1>8 DEF Queued
  <2>2. CASE i = Len(queue) + 1 \/ j = Len(queue) + 1
    BY <2>1, <2>2, <1>9
  <2>3. CASE i # Len(queue) + 1 /\ j # Len(queue) + 1
    <3>1. i \in DOMAIN queue /\ j \in DOMAIN queue /\ queue[i] = queue[j]
      BY <2>3, <1>9
    <3> QED BY <3>1 DEF ReaderInv, WaitQueueExact
  <2> QED BY <2>2, <2>3
<1>13. asleep' \subseteq Queued'
  BY <1>1, <1>10, QueueIs DEF ReaderInv
<1>14. Queued' = Waiting'
  BY <1>10, <1>11, QueueIs DEF ReaderInv
<1>15. WaitQueueExact'
  BY <1>12, <1>13, <1>14 DEF WaitQueueExact, Queued, Waiting
<1> QED BY <1>6, <1>7, <1>15 DEF ReaderInv

\* wait_current_del takes one entry out and keeps the others in their order.
LEMMA DequeuedFacts ==
    ASSUME ReaderInv, NEW r \in Reader, NEW d, d = Dequeued(r)
    PROVE  /\ d \in Seq(Reader)
           /\ \A i, j \in DOMAIN d : d[i] = d[j] => i = j
           /\ {d[i] : i \in DOMAIN d} = Queued \ {r}
<1>1. /\ queue \in Seq(Reader) /\ Len(queue) \in Nat /\ DOMAIN queue = 1..Len(queue)
      /\ \A i \in 1..Len(queue) : queue[i] \in Reader
      /\ \A i, j \in 1..Len(queue) : queue[i] = queue[j] => i = j
  BY DEF ReaderInv, ReaderType, WaitQueueExact
<1>2. CASE \A i \in DOMAIN queue : queue[i] # r
  <2>1. d = queue
    BY <1>2 DEF Dequeued
  <2> QED BY <2>1, <1>1, <1>2 DEF Queued
<1>3. CASE \E i \in DOMAIN queue : queue[i] = r
  <2> DEFINE k == CHOOSE i \in DOMAIN queue : queue[i] = r
  <2>1. k \in DOMAIN queue /\ queue[k] = r
    BY <1>3
  <2>2. d = [i \in 1..(Len(queue) - 1) |-> IF i < k THEN queue[i] ELSE queue[i + 1]]
    BY <1>3 DEF Dequeued
  <2> HIDE DEF k
  <2>3. k \in 1..Len(queue)
    BY <2>1, <1>1
  <2> DEFINE old(i) == IF i < k THEN i ELSE i + 1
  <2>4. /\ DOMAIN d = 1..(Len(queue) - 1)
        /\ \A i \in DOMAIN d : old(i) \in (1..Len(queue)) \ {k} /\ d[i] = queue[old(i)]
    BY <2>2, <2>3, <1>1
  <2>5. d \in Seq(Reader)
    <3>1. Len(queue) - 1 \in Nat
      BY <2>3, <1>1
    <3>2. \A i \in 1..(Len(queue) - 1) : d[i] \in Reader
      <4> HIDE DEF old
      <4> QED BY <2>4, <1>1
    <3>3. d = [i \in 1..(Len(queue) - 1) |-> d[i]]
      BY <2>2
    <3> QED BY <3>1, <3>2, <3>3, IsASeq
  <2>6. ASSUME NEW i \in DOMAIN d, NEW j \in DOMAIN d, d[i] = d[j] PROVE i = j
    <3>1. old(i) = old(j)
      <4> HIDE DEF old
      <4> QED BY <2>4, <2>6, <1>1
    <3> QED BY <3>1, <2>3, <2>4, <1>1
  <2>7. ASSUME NEW j \in DOMAIN queue, j # k PROVE \E i \in DOMAIN d : d[i] = queue[j]
    <3>1. CASE j < k
      <4>1. j \in DOMAIN d /\ d[j] = queue[j]
        BY <3>1, <2>2, <2>3, <1>1
      <4> QED BY <4>1
    <3>2. CASE j > k
      <4>1. j - 1 \in DOMAIN d /\ d[j - 1] = queue[j]
        BY <3>2, <2>2, <2>3, <1>1
      <4> QED BY <4>1
    <3> QED BY <3>1, <3>2, <2>3, <2>7, <1>1
  <2>8. {d[i] : i \in DOMAIN d} = Queued \ {r}
    <3> HIDE DEF old
    <3>1. ASSUME NEW i \in DOMAIN d PROVE d[i] \in Queued \ {r}
      BY <2>1, <2>3, <2>4, <1>1 DEF Queued
    <3>2. ASSUME NEW x \in Queued \ {r} PROVE \E i \in DOMAIN d : d[i] = x
      <4>1. PICK j \in DOMAIN queue : x = queue[j]
        BY DEF Queued
      <4>2. j # k
        BY <4>1, <2>1
      <4> QED BY <4>1, <4>2, <2>7
    <3> QED BY <3>1, <3>2
  <2> QED BY <2>5, <2>6, <2>8
<1> QED BY <1>2, <1>3

\* A reader that runs again takes its entry off the queue, woken or killed.
LEMMA ResumesReaders ==
    ASSUME ReaderInv, NEW r \in Reader, ReadResumes(r)
    PROVE  ReaderInv'
<1>1. /\ cpu = r /\ pc[r] = "wait" /\ queue' = Dequeued(r) /\ cpu' = cpu
      /\ UNCHANGED <<asleep, flags>>
      /\ pc' = [pc EXCEPT ![r] = IF flags[r] = "WT_KBD" THEN "read" ELSE "user"]
      /\ mode' = IF flags[r] = "WT_KBD" THEN "off" ELSE "tail"
  BY DEF ReadResumes, Reading
<1>2. /\ queue' \in Seq(Reader)
      /\ \A i, j \in DOMAIN queue' : queue'[i] = queue'[j] => i = j
      /\ Queued' = Queued \ {r}
  <2>1. PICK d : d = Dequeued(r)
    OBVIOUS
  <2>2. /\ d \in Seq(Reader) /\ \A i, j \in DOMAIN d : d[i] = d[j] => i = j
        /\ {d[i] : i \in DOMAIN d} = Queued \ {r}
    BY <2>1, DequeuedFacts
  <2>3. queue' = d
    BY <2>1, <1>1
  <2>4. Queued' = {d[i] : i \in DOMAIN d}
    BY <2>3 DEF Queued
  <2> QED BY <2>2, <2>3, <2>4
<1>3. ReaderType'
  BY <1>1, <1>2 DEF ReaderInv, ReaderType
<1>4. OnCpu'
  BY <1>1 DEF ReaderInv, ReaderType, OnCpu
<1>5. Waiting' = Waiting \ {r}
  BY <1>1 DEF Waiting, ReaderInv, ReaderType
<1>6. asleep' \subseteq Queued'
  BY <1>1, <1>2, QueueIs DEF ReaderInv, OnCpu
<1>7. Queued' = Waiting'
  BY <1>2, <1>5, QueueIs DEF ReaderInv
<1>8. WaitQueueExact'
  BY <1>2, <1>6, <1>7 DEF WaitQueueExact, Queued, Waiting
<1> QED BY <1>3, <1>4, <1>8 DEF ReaderInv

LEMMA ReaderInvariant == Spec => []ReaderInv
<1>1. Init => ReaderInv
  <2> SUFFICES ASSUME Init PROVE ReaderInv
    OBVIOUS
  <2>1. /\ queue = <<>> /\ asleep = {} /\ mode = "on" /\ cpu = Idle
        /\ pc = [r \in Reader |-> "user"] /\ flags = [r \in Reader |-> "WT_INTERRUPTED"]
    BY DEF Init
  <2>2. ReaderType /\ OnCpu
    BY <2>1, ConsoleAssumption DEF ReaderType, OnCpu
  <2>3. Queued = {} /\ Waiting = {}
    BY <2>1 DEF Queued, Waiting
  <2>4. WaitQueueExact
    BY <2>1, <2>3 DEF WaitQueueExact, Queued, Waiting
  <2> QED BY <2>2, <2>4 DEF ReaderInv
<1>2. ReaderInv /\ [Next]_vars => ReaderInv'
  <2> SUFFICES ASSUME ReaderInv, [Next]_vars PROVE ReaderInv'
    OBVIOUS
  <2>1. CASE CharArrives \/ TimerFires \/ Interrupted
    BY <2>1, HardwareReaders
  <2>2. CASE KernelRuns
    BY <2>2, QuietReaders, ComFeedsReaders, SchedulesReaders, TailExitsReaders, SleepsReaders,
       ResumesReaders, ReturnsReaders DEF KernelRuns
  <2>3. CASE \E r \in Reader, n \in 1..MaxLen : ReadBegins(r, n)
    BY <2>3, BeginsReaders
  <2>4. CASE \E r, q \in Reader : Kill(r, q)
    BY <2>4, KillReaders
  <2>5. CASE UNCHANGED vars
    <3>1. UNCHANGED <<queue, asleep, flags, pc, mode, cpu>>
      BY <2>5 DEF vars, rdVars
    <3> QED BY <3>1 DEF ReaderInv, ReaderType, OnCpu, WaitQueueExact
  <2> QED BY <2>1, <2>2, <2>3, <2>4, <2>5 DEF Next
<1> QED BY <1>1, <1>2, PTL DEF Spec

\* The wait queue holds the entries of the readers inside dev_stdin_read that no
\* character has woken, once each, for any number of readers, kills included.
THEOREM WaitQueueIsExact == Spec => []WaitQueueExact
<1>1. ReaderInv => WaitQueueExact
  BY DEF ReaderInv
<1> QED BY <1>1, ReaderInvariant, PTL

-----------------------------------------------------------------------------
(* Positions in a ring of n entries *)

LEMMA ModSmall == ASSUME NEW n \in Nat \ {0}, NEW x \in 0..(n - 1) PROVE x % n = x
OBVIOUS

LEMMA ModWraps == ASSUME NEW n \in Nat \ {0}, NEW x \in n..(2 * n - 1) PROVE x % n = x - n
OBVIOUS

LEMMA ModBelow == ASSUME NEW n \in Nat \ {0}, NEW x \in (-n)..(-1) PROVE x % n = x + n
OBVIOUS

LEMMA ModRange == ASSUME NEW n \in Nat \ {0}, NEW x \in Int PROVE x % n \in 0..(n - 1)
OBVIOUS

LEMMA ModQuotient ==
    ASSUME NEW n \in Nat \ {0}, NEW x \in Int
    PROVE  x \div n \in Int /\ x = n * (x \div n) + (x % n)
<1>1. x \div n \in Int
  OBVIOUS
<1>2. x = n * (x \div n) + (x % n)
  OBVIOUS
<1> QED BY <1>1, <1>2

\* Counters less than n apart are at different positions.
LEMMA ModDiffers ==
    ASSUME NEW n \in Nat \ {0}, NEW x \in Int, NEW y \in Int, x < y, y - x < n
    PROVE  x % n # y % n
<1> SUFFICES ASSUME x % n = y % n PROVE FALSE
  OBVIOUS
<1>1. PICK a \in Int : x = n * a + (x % n)
  BY ModQuotient
<1>2. PICK b \in Int : y = n * b + (y % n)
  BY ModQuotient
<1>3. x % n \in Int /\ y % n \in Int
  BY ModRange
<1>4. n * b - n * a < n /\ n * a < n * b
  BY <1>1, <1>2, <1>3
<1>5. n * (b - a) < n /\ n * (b - a) > 0
  BY <1>4
<1>6. b - a <= 0 \/ b - a >= 1
  OBVIOUS
<1> QED BY <1>5, <1>6

\* What is between the read position r and the write position w of a ring.
LEMMA RingFacts ==
    ASSUME NEW n \in Nat \ {0}, NEW r \in 0..(n - 1), NEW w \in 0..(n - 1)
    PROVE  /\ (w - r) % n \in 0..(n - 1)
           /\ (w - r) % n = IF w >= r THEN w - r ELSE w - r + n
           /\ \A j \in 0..(n - 1) : (r + j) % n = IF r + j < n THEN r + j ELSE r + j - n
           /\ (r + 1) % n = IF r + 1 = n THEN 0 ELSE r + 1
           /\ (w + 1) % n = IF w + 1 = n THEN 0 ELSE w + 1
<1>1. (w - r) % n = IF w >= r THEN w - r ELSE w - r + n
  <2>1. CASE w >= r
    BY <2>1, ModSmall
  <2>2. CASE w < r
    <3>1. w - r \in (-n)..(-1)
      BY <2>2
    <3> QED BY <2>2, <3>1, ModBelow
  <2> QED BY <2>1, <2>2
<1>2. ASSUME NEW j \in 0..(n - 1)
      PROVE  (r + j) % n = IF r + j < n THEN r + j ELSE r + j - n
  <2>1. CASE r + j < n
    <3>1. r + j \in 0..(n - 1)
      BY <2>1
    <3> QED BY <2>1, <3>1, ModSmall
  <2>2. CASE r + j >= n
    <3>1. r + j \in n..(2 * n - 1)
      BY <2>2
    <3> QED BY SMTT(30), <2>2, <3>1, ModWraps
  <2> QED BY <2>1, <2>2
<1>3. ASSUME NEW x \in 0..(n - 1) PROVE (x + 1) % n = IF x + 1 = n THEN 0 ELSE x + 1
  <2>1. CASE x + 1 = n
    <3>1. n \in n..(2 * n - 1)
      OBVIOUS
    <3>2. n % n = n - n
      BY <3>1, ModWraps
    <3> QED BY <2>1, <3>2
  <2>2. CASE x + 1 # n
    <3>1. x + 1 \in 0..(n - 1)
      BY <2>2
    <3> QED BY <2>2, <3>1, ModSmall
  <2> QED BY <2>1, <2>2
<1>4. (w - r) % n \in 0..(n - 1)
  BY <1>1
<1> QED BY <1>1, <1>2, <1>3, <1>4

LEMMA SizeFacts ==
    ComSize \in Nat \ {0} /\ ConsSize \in Nat \ {0} /\ StdinSize \in Nat \ {0}
BY ConsoleAssumption

\* The console buffer between the positions r and w.
LEMMA ConsFacts ==
    ASSUME NEW r \in 0..(ConsSize - 1), NEW w \in 0..(ConsSize - 1)
    PROVE  /\ Held(r, w) \in 0..(ConsSize - 1)
           /\ Held(r, w) = IF w >= r THEN w - r ELSE w - r + ConsSize
           /\ \A j \in 0..(ConsSize - 1) :
                (r + j) % ConsSize = IF r + j < ConsSize THEN r + j ELSE r + j - ConsSize
           /\ NextPos(r) = IF r + 1 = ConsSize THEN 0 ELSE r + 1
           /\ NextPos(r) \in 0..(ConsSize - 1)
<1>1. /\ Held(r, w) \in 0..(ConsSize - 1)
      /\ Held(r, w) = IF w >= r THEN w - r ELSE w - r + ConsSize
  BY SizeFacts, RingFacts DEF Held
<1>2. \A j \in 0..(ConsSize - 1) :
        (r + j) % ConsSize = IF r + j < ConsSize THEN r + j ELSE r + j - ConsSize
  BY SizeFacts, RingFacts
<1>3. NextPos(r) = IF r + 1 = ConsSize THEN 0 ELSE r + 1
  BY SizeFacts, RingFacts DEF NextPos
<1>4. NextPos(r) \in 0..(ConsSize - 1)
  BY <1>3, SizeFacts
<1> QED BY <1>1, <1>2, <1>3, <1>4

\* A write: the next free position follows the last character held.
LEMMA ConsWrites ==
    ASSUME NEW r \in 0..(ConsSize - 1), NEW w \in 0..(ConsSize - 1),
           NEW h, h = Held(r, w), NEW v, v = NextPos(w), v # r
    PROVE  /\ h \in 0..(ConsSize - 1)
           /\ Held(r, v) = h + 1
           /\ (r + h) % ConsSize = w
           /\ \A j \in 0..(h - 1) : (r + j) % ConsSize # w
<1> USE SizeFacts
<1>1. h \in 0..(ConsSize - 1) /\ h = IF w >= r THEN w - r ELSE w - r + ConsSize
  BY ConsFacts
<1>2. v \in 0..(ConsSize - 1) /\ v = IF w + 1 = ConsSize THEN 0 ELSE w + 1
  BY ConsFacts
<1>3. Held(r, v) = IF v >= r THEN v - r ELSE v - r + ConsSize
  BY <1>2, ConsFacts
<1>4. \A j \in 0..(ConsSize - 1) :
        (r + j) % ConsSize = IF r + j < ConsSize THEN r + j ELSE r + j - ConsSize
  BY ConsFacts
<1>5. Held(r, v) = h + 1
  BY <1>1, <1>2, <1>3
<1>6. (r + h) % ConsSize = w
  BY <1>1, <1>4
<1>7. \A j \in 0..(h - 1) : j \in 0..(ConsSize - 1) /\ (r + j) % ConsSize # w
  BY <1>1, <1>4
<1> QED BY <1>1, <1>5, <1>6, <1>7

\* A read: the others move up by one.
LEMMA ConsReads ==
    ASSUME NEW r \in 0..(ConsSize - 1), NEW w \in 0..(ConsSize - 1), r # w,
           NEW h, h = Held(r, w), NEW u, u = NextPos(r)
    PROVE  /\ h \in 1..(ConsSize - 1)
           /\ Held(u, w) = h - 1
           /\ (r + 0) % ConsSize = r
           /\ \A j \in 0..(h - 2) : (u + j) % ConsSize = (r + (j + 1)) % ConsSize
<1> USE SizeFacts
<1>1. h \in 0..(ConsSize - 1) /\ h = IF w >= r THEN w - r ELSE w - r + ConsSize
  BY ConsFacts
<1>2. u \in 0..(ConsSize - 1) /\ u = IF r + 1 = ConsSize THEN 0 ELSE r + 1
  BY ConsFacts
<1>3. Held(u, w) = IF w >= u THEN w - u ELSE w - u + ConsSize
  BY <1>2, ConsFacts
<1>4. \A j \in 0..(ConsSize - 1) :
        (r + j) % ConsSize = IF r + j < ConsSize THEN r + j ELSE r + j - ConsSize
  BY ConsFacts
<1>5. \A j \in 0..(ConsSize - 1) :
        (u + j) % ConsSize = IF u + j < ConsSize THEN u + j ELSE u + j - ConsSize
  BY <1>2, ConsFacts
<1>6. Held(u, w) = h - 1 /\ h \in 1..(ConsSize - 1)
  BY <1>1, <1>2, <1>3
<1>7. (r + 0) % ConsSize = r
  BY <1>4
<1>8. ASSUME NEW j \in 0..(h - 2) PROVE (u + j) % ConsSize = (r + (j + 1)) % ConsSize
  <2>1. j \in 0..(ConsSize - 1) /\ j + 1 \in 0..(ConsSize - 1)
    BY <1>1
  <2>2. (u + j) % ConsSize = IF u + j < ConsSize THEN u + j ELSE u + j - ConsSize
    BY <2>1, <1>5
  <2>3. (r + (j + 1)) % ConsSize =
          IF r + (j + 1) < ConsSize THEN r + (j + 1) ELSE r + (j + 1) - ConsSize
    BY <2>1, <1>4
  <2> QED BY <2>1, <2>2, <2>3, <1>1, <1>2
<1> QED BY <1>6, <1>7, <1>8

\* A write to stdin: its position is that of no character still unread.
LEMMA StdinWrites ==
    ASSUME NEW r \in Nat, NEW w \in Nat, r <= w, w - r < StdinSize
    PROVE  /\ w % StdinSize \in 0..(StdinSize - 1)
           /\ \A j \in 0..(w - r - 1) : /\ (r + j) % StdinSize \in 0..(StdinSize - 1)
                                        /\ (r + j) % StdinSize # w % StdinSize
<1>1. w % StdinSize \in 0..(StdinSize - 1)
  BY SizeFacts, ModRange
<1>2. ASSUME NEW j \in 0..(w - r - 1)
      PROVE  /\ (r + j) % StdinSize \in 0..(StdinSize - 1)
             /\ (r + j) % StdinSize # w % StdinSize
  <2>1. r + j \in Int /\ r + j < w /\ w - (r + j) < StdinSize
    BY SizeFacts
  <2>2. PICK k \in Int : k = r + j
    BY <2>1
  <2>3. k % StdinSize # w % StdinSize
    <3>1. k < w /\ w - k < StdinSize /\ w \in Int /\ StdinSize \in Nat \ {0}
      BY <2>1, <2>2, SizeFacts
    <3> QED BY <3>1, ModDiffers
  <2>4. k % StdinSize \in 0..(StdinSize - 1)
    BY SizeFacts, ModRange
  <2> QED BY <2>2, <2>3, <2>4
<1> QED BY <1>1, <1>2

-----------------------------------------------------------------------------
(* The line of characters *)

LEMMA AppendFacts ==
    ASSUME NEW s \in Seq(Nat), NEW x \in Nat, NEW t, t = Append(s, x)
    PROVE  /\ t \in Seq(Nat) /\ Len(s) \in Nat /\ Len(t) = Len(s) + 1 /\ t[Len(s) + 1] = x
           /\ \A i \in 1..Len(s) : t[i] = s[i]
OBVIOUS

LEMMA TailFacts ==
    ASSUME NEW s \in Seq(Nat), s # <<>>, NEW t, t = Tail(s)
    PROVE  /\ Head(s) = s[1] /\ Head(s) \in Nat /\ Len(s) \in Nat /\ Len(s) >= 1
           /\ t \in Seq(Nat) /\ Len(t) = Len(s) - 1
           /\ \A i \in 1..(Len(s) - 1) : t[i] = s[i + 1]
OBVIOUS

\* The receiver appends a character.
LEMMA LineArrives ==
    ASSUME NEW o, NEW s, NEW sr \in Nat, NEW sw \in Nat, NEW c,
           NEW cr \in 0..(ConsSize - 1), NEW cw \in 0..(ConsSize - 1),
           NEW x \in Seq(Nat), NEW t \in Nat, Line(o, s, sr, sw, c, cr, cw, x, t),
           NEW y, y = Append(x, t + 1)
    PROVE  Line(o, s, sr, sw, c, cr, cw, y, t + 1)
<1>1. PICK h : h = Held(cr, cw)
  OBVIOUS
<1>2. h \in Nat
  BY <1>1, ConsFacts
<1>3. /\ Len(x) \in Nat /\ Len(y) = Len(x) + 1 /\ y[Len(x) + 1] = t + 1
      /\ \A i \in 1..Len(x) : y[i] = x[i]
  BY AppendFacts
<1>4. /\ \A j \in 1..Len(x) : x[j] = sw + h + j
      /\ t = sw + h + Len(x)
  BY <1>1 DEF Line
<1>5. t + 1 = sw + h + Len(y)
  BY <1>2, <1>3, <1>4
<1>6. ASSUME NEW j \in 1..Len(y) PROVE y[j] = sw + h + j
  <2>1. CASE j = Len(x) + 1
    BY <2>1, <1>2, <1>3, <1>4
  <2>2. CASE j # Len(x) + 1
    <3>1. j \in 1..Len(x)
      BY <2>2, <1>3
    <3> QED BY <3>1, <1>3, <1>4
  <2> QED BY <2>1, <2>2
<1> QED BY <1>1, <1>5, <1>6 DEF Line

\* cons_intr moves the device's first character to the console buffer's end.
LEMMA LinePolls ==
    ASSUME NEW o, NEW s, NEW sr \in Nat, NEW sw \in Nat,
           NEW c \in [0..(ConsSize - 1) -> Nat],
           NEW cr \in 0..(ConsSize - 1), NEW cw \in 0..(ConsSize - 1),
           NEW x \in Seq(Nat), NEW t \in Nat, Line(o, s, sr, sw, c, cr, cw, x, t),
           x # <<>>, NEW v, v = NextPos(cw), v # cr, NEW y, y = Tail(x),
           NEW d, d = [c EXCEPT ![cw] = Head(x)]
    PROVE  Line(o, s, sr, sw, d, cr, v, y, t)
<1> USE SizeFacts
<1>1. PICK h : h = Held(cr, cw)
  OBVIOUS
<1>3. /\ h \in 0..(ConsSize - 1) /\ Held(cr, v) = h + 1
      /\ (cr + h) % ConsSize = cw
      /\ \A j \in 0..(h - 1) : (cr + j) % ConsSize # cw
  BY <1>1, ConsWrites
<1>4. Held(cr, v) = h + 1
  BY <1>3
<1>5. /\ Head(x) = x[1] /\ Len(x) \in Nat /\ Len(x) >= 1 /\ Len(y) = Len(x) - 1
      /\ \A i \in 1..(Len(x) - 1) : y[i] = x[i + 1]
  BY TailFacts
<1>6. /\ \A j \in 0..(h - 1) : c[(cr + j) % ConsSize] = sw + j + 1
      /\ \A j \in 1..Len(x) : x[j] = sw + h + j
      /\ t = sw + h + Len(x)
  BY <1>1 DEF Line
<1>7. ASSUME NEW j \in 0..h PROVE d[(cr + j) % ConsSize] = sw + j + 1
  <2>1. (cr + j) % ConsSize \in 0..(ConsSize - 1)
    <3>1. cr + j \in Int
      BY <1>3
    <3> QED BY <3>1, ModRange
  <2>2. CASE j = h
    <3>1. x[1] = sw + h + 1
      BY <1>5, <1>6
    <3> QED BY <2>2, <3>1, <1>3, <1>5
  <2>3. CASE j # h
    <3>1. j \in 0..(h - 1)
      BY <2>3, <1>3
    <3>2. c[(cr + j) % ConsSize] = sw + j + 1 /\ (cr + j) % ConsSize # cw
      BY <3>1, <1>3, <1>6
    <3> QED BY <2>1, <3>2
  <2> QED BY <2>2, <2>3
<1>8. \A j \in 0..((h + 1) - 1) : d[(cr + j) % ConsSize] = sw + j + 1
  <2>1. (h + 1) - 1 = h
    BY <1>3
  <2> QED BY <2>1, <1>7
<1>9. ASSUME NEW j \in 1..Len(y) PROVE y[j] = sw + (h + 1) + j
  <2>1. j \in 1..(Len(x) - 1) /\ j + 1 \in 1..Len(x)
    BY <1>5
  <2>2. y[j] = sw + h + (j + 1)
    BY <2>1, <1>5, <1>6
  <2> QED BY <2>1, <2>2, <1>3
<1>10. t = sw + (h + 1) + Len(y)
  BY <1>3, <1>5, <1>6
<1>11. /\ Len(o) = sr /\ \A i \in 1..sr : o[i] = i
       /\ \A j \in 0..(sw - sr - 1) : s[(sr + j) % StdinSize] = sr + j + 1
  BY DEF Line
<1> QED BY <1>4, <1>8, <1>9, <1>10, <1>11 DEF Line

\* cons_getc and dev_stdin_write move the console's first to the stdin buffer's end.
LEMMA LineFeeds ==
    ASSUME NEW o, NEW s \in [0..(StdinSize - 1) -> Nat], NEW sr \in Nat, NEW sw \in Nat,
           NEW c, NEW cr \in 0..(ConsSize - 1), NEW cw \in 0..(ConsSize - 1),
           NEW x \in Seq(Nat), NEW t \in Nat, Line(o, s, sr, sw, c, cr, cw, x, t),
           sr <= sw, sw - sr < StdinSize, cr # cw, NEW u, u = NextPos(cr),
           NEW d, d = [s EXCEPT ![sw % StdinSize] = c[cr]]
    PROVE  Line(o, d, sr, sw + 1, c, u, cw, x, t)
<1> USE SizeFacts
<1>1. PICK h : h = Held(cr, cw)
  OBVIOUS
<1>3. /\ h \in 1..(ConsSize - 1) /\ Held(u, cw) = h - 1
      /\ (cr + 0) % ConsSize = cr
      /\ \A j \in 0..(h - 2) : (u + j) % ConsSize = (cr + (j + 1)) % ConsSize
  BY SMTT(30), <1>1, ConsReads
<1>4. Held(u, cw) = h - 1
  BY <1>3
<1>5. /\ \A j \in 0..(sw - sr - 1) : s[(sr + j) % StdinSize] = sr + j + 1
      /\ \A j \in 0..(h - 1) : c[(cr + j) % ConsSize] = sw + j + 1
      /\ \A j \in 1..Len(x) : x[j] = sw + h + j
      /\ t = sw + h + Len(x)
  BY <1>1 DEF Line
<1>6. c[cr] = sw + 1
  <2>1. 0 \in 0..(h - 1)
    BY <1>3
  <2>2. c[(cr + 0) % ConsSize] = sw + 0 + 1
    BY <2>1, <1>5
  <2>3. (cr + 0) % ConsSize = cr
    BY <1>3
  <2>4. c[cr] = sw + 0 + 1
    BY <2>2, <2>3
  <2> QED BY <2>4
<1>7. /\ sw % StdinSize \in 0..(StdinSize - 1)
      /\ \A j \in 0..(sw - sr - 1) : /\ (sr + j) % StdinSize \in 0..(StdinSize - 1)
                                     /\ (sr + j) % StdinSize # sw % StdinSize
  BY StdinWrites
<1>8. ASSUME NEW j \in 0..(sw - sr) PROVE d[(sr + j) % StdinSize] = sr + j + 1
  <2>1. CASE j = sw - sr
    <3>1. sr + j = sw
      BY <2>1
    <3>2. d[sw % StdinSize] = sw + 1
      BY <1>6, <1>7
    <3> QED BY <3>1, <3>2
  <2>2. CASE j # sw - sr
    <3>1. j \in 0..(sw - sr - 1)
      BY <2>2
    <3>2. s[(sr + j) % StdinSize] = sr + j + 1
      BY <3>1, <1>5
    <3> QED BY <3>1, <3>2, <1>7
  <2> QED BY <2>1, <2>2
<1>9. \A j \in 0..((sw + 1) - sr - 1) : d[(sr + j) % StdinSize] = sr + j + 1
  <2>1. (sw + 1) - sr - 1 = sw - sr
    OBVIOUS
  <2> QED BY <2>1, <1>8
<1>10. ASSUME NEW j \in 0..((h - 1) - 1) PROVE c[(u + j) % ConsSize] = (sw + 1) + j + 1
  <2>1. j \in 0..(h - 2) /\ j + 1 \in 0..(h - 1)
    BY <1>3
  <2>2. c[(cr + (j + 1)) % ConsSize] = sw + (j + 1) + 1
    BY <2>1, <1>5
  <2>3. (u + j) % ConsSize = (cr + (j + 1)) % ConsSize
    BY <2>1, <1>3
  <2>4. sw + (j + 1) + 1 = (sw + 1) + j + 1
    BY <2>1
  <2> QED BY <2>2, <2>3, <2>4
<1>11. (sw + 1) + (h - 1) = sw + h
  BY <1>3
<1>12. /\ \A j \in 1..Len(x) : x[j] = (sw + 1) + (h - 1) + j
       /\ t = (sw + 1) + (h - 1) + Len(x)
  BY <1>5, <1>11
<1>13. Len(o) = sr /\ \A i \in 1..sr : o[i] = i
  BY DEF Line
<1> QED BY <1>4, <1>9, <1>10, <1>12, <1>13 DEF Line

\* dev_stdin_read takes the stdin buffer's first.
LEMMA LineTakes ==
    ASSUME NEW o \in Seq(Nat), NEW s \in [0..(StdinSize - 1) -> Nat],
           NEW sr \in Nat, NEW sw \in Nat, NEW c, NEW cr, NEW cw, NEW x, NEW t,
           Line(o, s, sr, sw, c, cr, cw, x, t), sr < sw,
           NEW p, p = Append(o, s[sr % StdinSize])
    PROVE  Line(p, s, sr + 1, sw, c, cr, cw, x, t)
<1> USE SizeFacts
<1>1. /\ Len(o) = sr /\ \A i \in 1..sr : o[i] = i
      /\ \A j \in 0..(sw - sr - 1) : s[(sr + j) % StdinSize] = sr + j + 1
  BY DEF Line
<1>2. s[sr % StdinSize] = sr + 1
  <2>1. 0 \in 0..(sw - sr - 1) /\ sr + 0 = sr
    OBVIOUS
  <2> QED BY <2>1, <1>1
<1>3. Len(p) = sr + 1 /\ p[sr + 1] = sr + 1 /\ \A i \in 1..sr : p[i] = o[i]
  <2>1. sr + 1 \in Nat
    OBVIOUS
  <2> QED BY <2>1, <1>1, <1>2, AppendFacts
<1>4. \A i \in 1..(sr + 1) : p[i] = i
  BY <1>1, <1>3
<1>5. ASSUME NEW j \in 0..(sw - (sr + 1) - 1)
      PROVE  s[((sr + 1) + j) % StdinSize] = (sr + 1) + j + 1
  <2>1. j + 1 \in 0..(sw - sr - 1) /\ sr + (j + 1) = (sr + 1) + j
    OBVIOUS
  <2>2. s[(sr + (j + 1)) % StdinSize] = sr + (j + 1) + 1
    BY <2>1, <1>1
  <2> QED BY <2>1, <2>2
<1> QED BY <1>3, <1>4, <1>5 DEF Line

-----------------------------------------------------------------------------
(* The three buffers *)

LEMMA FieldFacts ==
    ASSUME BufferType
    PROVE  /\ cons.rpos \in 0..(ConsSize - 1) /\ cons.wpos \in 0..(ConsSize - 1)
           /\ cons.buf \in [0..(ConsSize - 1) -> Nat]
           /\ stdin.rpos \in Nat /\ stdin.wpos \in Nat
           /\ stdin.buf \in [0..(StdinSize - 1) -> Nat]
           /\ rx \in Seq(Nat) /\ out \in Seq(Nat) /\ typed \in Nat
BY DEF BufferType

LEMMA StillBuffers ==
    ASSUME BufferInv, UNCHANGED <<rx, typed, cons, stdin, out, lost>>
    PROVE  BufferInv'
BY DEF BufferInv, BufferType, Contents

LEMMA ArrivesBuffers ==
    ASSUME BufferInv, CharArrives
    PROVE  BufferInv'
<1>1. BufferType /\ UNCHANGED <<cons, stdin, out>> /\ typed' = typed + 1
  BY DEF BufferInv, CharArrives, bufVars
<1>2. \/ rx' = Append(rx, typed + 1) /\ lost' = lost
      \/ rx' = rx /\ lost' = lost \cup {"com"}
  BY <1>1 DEF CharArrives
<1>3. rx \in Seq(Nat) /\ typed + 1 \in Nat
  BY <1>1 DEF BufferType
<1>4. rx' \in Seq(Nat)
  BY <1>2, <1>3, AppendFacts
<1>5. lost' \in SUBSET {"com", "cons", "stdin"}
  BY <1>1, <1>2 DEF BufferType
<1>6. BufferType'
  BY <1>1, <1>3, <1>4, <1>5 DEF BufferType
<1>7. ASSUME lost' = {} PROVE Contents'
  <2>1. rx' = Append(rx, typed + 1) /\ Contents
    BY <1>2, <1>7 DEF BufferInv
  <2>2. Line(out, stdin.buf, stdin.rpos, stdin.wpos, cons.buf, cons.rpos, cons.wpos,
             rx', typed + 1)
    BY <2>1, <1>1, FieldFacts, LineArrives DEF Contents
  <2> QED BY <2>2, <1>1 DEF Contents
<1> QED BY <1>6, <1>7 DEF BufferInv

LEMMA PollsBuffers ==
    ASSUME BufferInv, ComPolls
    PROVE  BufferInv'
<1> DEFINE w == NextPos(cons.wpos)
<1>1. /\ BufferType /\ UNCHANGED <<typed, stdin, out>> /\ rx # <<>> /\ rx' = Tail(rx)
      /\ cons' = [cons EXCEPT !.buf[cons.wpos] = Head(rx), !.wpos = w]
      /\ lost' = IF w = cons.rpos THEN lost \cup {"cons"} ELSE lost
  BY DEF BufferInv, ComPolls
<1>2. w \in 0..(ConsSize - 1)
  BY <1>1, FieldFacts, ConsFacts
<1> HIDE DEF w
<1>3. Head(rx) \in Nat /\ rx' \in Seq(Nat)
  <2>1. rx \in Seq(Nat)
    BY <1>1, FieldFacts
  <2> QED BY <2>1, <1>1, TailFacts
<1>4. /\ cons'.buf = [cons.buf EXCEPT ![cons.wpos] = Head(rx)]
      /\ cons'.rpos = cons.rpos /\ cons'.wpos = w
      /\ cons' \in [buf : [0..(ConsSize - 1) -> Nat], rpos : 0..(ConsSize - 1),
                    wpos : 0..(ConsSize - 1)]
  BY <1>1, <1>2, <1>3 DEF BufferType
<1>5. lost' \in SUBSET {"com", "cons", "stdin"}
  BY <1>1 DEF BufferType
<1>6. BufferType'
  BY <1>1, <1>3, <1>4, <1>5 DEF BufferType
<1>7. ASSUME lost' = {} PROVE Contents'
  <2>1. Contents /\ w # cons.rpos
    BY <1>1, <1>7 DEF BufferInv
  <2>2. Line(out, stdin.buf, stdin.rpos, stdin.wpos, cons'.buf, cons.rpos, w, rx', typed)
    BY <2>1, <1>1, <1>4, FieldFacts, LinePolls DEF Contents, w
  <2> QED BY <2>2, <1>1, <1>4 DEF Contents
<1> QED BY <1>6, <1>7 DEF BufferInv

LEMMA FeedsBuffers ==
    ASSUME BufferInv, ComFeeds
    PROVE  BufferInv'
<1> DEFINE u == NextPos(cons.rpos)
           ch == cons.buf[cons.rpos]
           at == stdin.wpos % StdinSize
           wp == IF StdinFull THEN stdin.wpos ELSE stdin.wpos + 1
<1>1. /\ BufferType /\ UNCHANGED <<rx, typed, out>> /\ cons.rpos # cons.wpos
      /\ cons' = [cons EXCEPT !.rpos = u]
      /\ stdin' = [stdin EXCEPT !.buf[at] = ch, !.wpos = wp]
      /\ lost' = IF StdinFull THEN lost \cup {"stdin"} ELSE lost
  BY DEF BufferInv, ComFeeds, hwVars
<1>2. u \in 0..(ConsSize - 1)
  BY <1>1, FieldFacts, ConsFacts
<1>3. ch \in Nat
  BY <1>1, FieldFacts
<1>4. at \in 0..(StdinSize - 1)
  <2>1. stdin.wpos \in Int
    BY <1>1, FieldFacts
  <2> QED BY <2>1, SizeFacts, ModRange
<1> HIDE DEF u, ch, at
<1>5. PICK sr \in Nat, sw \in Nat :
        sr = stdin.rpos /\ sw = stdin.wpos /\ sr <= sw /\ sw - sr <= StdinSize
  BY <1>1 DEF BufferType
<1>6. /\ wp \in Nat /\ sr <= wp /\ wp - sr <= StdinSize
      /\ ~StdinFull => wp = sw + 1 /\ sw - sr < StdinSize
  <2>1. wp = IF sw - sr >= StdinSize THEN sw ELSE sw + 1
    BY <1>5 DEF StdinFull
  <2>2. StdinFull <=> sw - sr >= StdinSize
    BY <1>5 DEF StdinFull
  <2> HIDE DEF wp
  <2> QED BY <2>1, <2>2, <1>5, SizeFacts
<1> HIDE DEF wp
<1>7. /\ cons'.buf = cons.buf /\ cons'.rpos = u /\ cons'.wpos = cons.wpos
      /\ cons' \in [buf : [0..(ConsSize - 1) -> Nat], rpos : 0..(ConsSize - 1),
                    wpos : 0..(ConsSize - 1)]
  BY <1>1, <1>2 DEF BufferType
<1>8. /\ stdin'.buf = [stdin.buf EXCEPT ![at] = ch] /\ stdin'.rpos = stdin.rpos
      /\ stdin'.wpos = wp
      /\ stdin' \in [buf : [0..(StdinSize - 1) -> Nat], rpos : Nat, wpos : Nat]
  BY <1>1, <1>3, <1>4, <1>6 DEF BufferType
<1>9. lost' \in SUBSET {"com", "cons", "stdin"}
  BY <1>1 DEF BufferType
<1>10. BufferType'
  BY <1>1, <1>5, <1>6, <1>7, <1>8, <1>9 DEF BufferType
<1>11. ASSUME lost' = {} PROVE Contents'
  <2>1. Contents /\ ~StdinFull
    BY <1>1, <1>11 DEF BufferInv
  <2>2. Line(out, stdin.buf, sr, sw, cons.buf, cons.rpos, cons.wpos, rx, typed)
    BY <2>1, <1>5 DEF Contents
  <2>3. stdin'.buf = [stdin.buf EXCEPT ![sw % StdinSize] = cons.buf[cons.rpos]]
    BY <1>5, <1>8 DEF at, ch
  <2>4. u = NextPos(cons.rpos) /\ sr <= sw /\ sw - sr < StdinSize
    BY <2>1, <1>5, <1>6 DEF u
  <2>5. Line(out, stdin'.buf, sr, sw + 1, cons.buf, u, cons.wpos, rx, typed)
    <3>1. /\ cons.rpos \in 0..(ConsSize - 1) /\ cons.wpos \in 0..(ConsSize - 1)
          /\ stdin.buf \in [0..(StdinSize - 1) -> Nat] /\ rx \in Seq(Nat) /\ typed \in Nat
          /\ cons.rpos # cons.wpos
      BY <1>1, FieldFacts
    <3> QED BY <2>2, <2>3, <2>4, <3>1, LineFeeds
  <2> QED BY <2>1, <2>5, <1>1, <1>5, <1>6, <1>7, <1>8 DEF Contents
<1> QED BY <1>10, <1>11 DEF BufferInv

LEMMA TakesBuffers ==
    ASSUME BufferInv, NEW r \in Reader, ReadTakes(r)
    PROVE  BufferInv'
<1> DEFINE ch == stdin.buf[stdin.rpos % StdinSize]
<1>1. /\ BufferType /\ UNCHANGED <<rx, typed, cons, lost>> /\ stdin.rpos < stdin.wpos
      /\ out' = Append(out, ch) /\ stdin' = [stdin EXCEPT !.rpos = @ + 1]
  BY DEF BufferInv, ReadTakes, HasInput, NextChar, hwVars
<1>2. ch \in Nat
  <2>1. stdin.rpos \in Int
    BY <1>1, FieldFacts
  <2>2. stdin.rpos % StdinSize \in 0..(StdinSize - 1)
    BY <2>1, SizeFacts, ModRange
  <2> QED BY <2>2, <1>1, FieldFacts
<1> HIDE DEF ch
<1>3. PICK sr \in Nat, sw \in Nat :
        sr = stdin.rpos /\ sw = stdin.wpos /\ sr < sw /\ sw - sr <= StdinSize
  BY <1>1 DEF BufferType
<1>4. PICK rp \in Nat : rp = sr + 1 /\ rp <= sw /\ sw - rp <= StdinSize
  BY <1>3, SizeFacts
<1>5. stdin' = [stdin EXCEPT !.rpos = rp]
  BY <1>1, <1>3, <1>4
<1>6. /\ stdin'.buf = stdin.buf /\ stdin'.rpos = rp /\ stdin'.wpos = sw
      /\ stdin' \in [buf : [0..(StdinSize - 1) -> Nat], rpos : Nat, wpos : Nat]
  BY <1>1, <1>3, <1>5 DEF BufferType
<1>7. out' \in Seq(Nat)
  <2>1. out \in Seq(Nat)
    BY <1>1, FieldFacts
  <2> QED BY <2>1, <1>1, <1>2, AppendFacts
<1>8. BufferType'
  BY <1>1, <1>4, <1>6, <1>7 DEF BufferType
<1>9. ASSUME lost' = {} PROVE Contents'
  <2>1. Line(out, stdin.buf, sr, sw, cons.buf, cons.rpos, cons.wpos, rx, typed)
    BY <1>1, <1>3, <1>9 DEF BufferInv, Contents
  <2>2. out' = Append(out, stdin.buf[sr % StdinSize])
    BY <1>1, <1>3 DEF ch
  <2>3. Line(out', stdin.buf, sr + 1, sw, cons.buf, cons.rpos, cons.wpos, rx, typed)
    BY <2>1, <2>2, <1>1, <1>3, FieldFacts, LineTakes
  <2> QED BY <2>3, <1>1, <1>3, <1>4, <1>6 DEF Contents
<1> QED BY <1>8, <1>9 DEF BufferInv

LEMMA BufferInvariant == Spec => []BufferInv
<1>1. Init => BufferInv
  <2> SUFFICES ASSUME Init PROVE BufferInv
    OBVIOUS
  <2>1. /\ rx = <<>> /\ out = <<>> /\ typed = 0 /\ lost = {}
        /\ cons = [buf |-> [i \in 0..(ConsSize - 1) |-> 0], rpos |-> 0, wpos |-> 0]
        /\ stdin = [buf |-> [i \in 0..(StdinSize - 1) |-> 0], rpos |-> 0, wpos |-> 0]
    BY DEF Init
  <2>2. BufferType
    BY <2>1, SizeFacts DEF BufferType
  <2>3. Held(0, 0) = 0
    <3>1. 0 \in 0..(ConsSize - 1)
      BY SizeFacts
    <3> QED BY <3>1, ConsFacts
  <2>4. Line(<<>>, stdin.buf, 0, 0, cons.buf, 0, 0, <<>>, 0)
    BY <2>3 DEF Line
  <2>5. Contents
    BY <2>1, <2>4 DEF Contents
  <2> QED BY <2>2, <2>5 DEF BufferInv
<1>2. BufferInv /\ [Next]_vars => BufferInv'
  <2> SUFFICES ASSUME BufferInv, [Next]_vars PROVE BufferInv'
    OBVIOUS
  <2>1. CASE CharArrives
    BY <2>1, ArrivesBuffers
  <2>2. CASE ComPolls
    BY <2>2, PollsBuffers
  <2>3. CASE ComFeeds
    BY <2>3, FeedsBuffers
  <2>4. CASE \E r \in Reader : ReadTakes(r)
    BY <2>4, TakesBuffers
  <2>5. CASE UNCHANGED <<rx, typed, cons, stdin, out, lost>>
    BY <2>5, StillBuffers
  <2>6. CASE TimerFires \/ Interrupted \/ UNCHANGED vars
    BY <2>5, <2>6 DEF TimerFires, Interrupted, TakeIrq, vars, hwVars, bufVars
  <2>7. CASE IrqReturns \/ IdleSchedules \/ TailExits \/ TailReturns
    BY <2>5, <2>7 DEF IrqReturns, IdleSchedules, TailExits, TailReturns, hwVars, bufVars
  <2>8. CASE \E r \in Reader : ReadSleeps(r) \/ ReadResumes(r) \/ ReadReturns(r)
    BY <2>5, <2>8 DEF ReadSleeps, ReadResumes, ReadReturns, hwVars, bufVars
  <2>9. CASE \/ \E r \in Reader, n \in 1..MaxLen : ReadBegins(r, n)
             \/ \E r, q \in Reader : Kill(r, q)
    BY <2>5, <2>9 DEF ReadBegins, Kill, bufVars
  <2> QED BY <2>1, <2>2, <2>3, <2>4, <2>6, <2>7, <2>8, <2>9 DEF Next, KernelRuns
<1> QED BY <1>1, <1>2, PTL DEF Spec

\* Two sequences in a row.
LEMMA ConcatFacts ==
    ASSUME NEW s \in Seq(Nat), NEW t \in Seq(Nat), NEW k \in Nat,
           \A i \in 1..Len(s) : s[i] = i, Len(s) = k,
           \A i \in 1..Len(t) : t[i] = k + i
    PROVE  /\ s \o t \in Seq(Nat) /\ Len(s \o t) = k + Len(t)
           /\ \A i \in 1..Len(s \o t) : (s \o t)[i] = i
<1>1. Len(s) \in Nat /\ Len(t) \in Nat
  OBVIOUS
<1>2. /\ s \o t \in Seq(Nat) /\ Len(s \o t) = Len(s) + Len(t)
      /\ \A i \in 1..(Len(s) + Len(t)) :
           (s \o t)[i] = IF i <= Len(s) THEN s[i] ELSE t[i - Len(s)]
  BY ConcatProperties
<1>3. ASSUME NEW i \in 1..(k + Len(t)) PROVE (s \o t)[i] = i
  <2>1. CASE i <= k
    BY <2>1, <1>1, <1>2
  <2>2. CASE i > k
    <3>1. i - k \in 1..Len(t)
      BY <2>2, <1>1
    <3>2. (s \o t)[i] = t[i - k]
      BY <2>2, <3>1, <1>1, <1>2
    <3> QED BY <3>1, <3>2
  <2> QED BY <2>1, <2>2, <1>1
<1> QED BY <1>1, <1>2, <1>3

\* For any sizes of the buffers and any number of readers and characters: as long as
\* no buffer has overflowed, what was read and what waits is what was typed, in order.
THEOREM InputIsExact == Spec => []InputExact
<1>1. BufferInv => InputExact
  <2> SUFFICES ASSUME BufferInv, lost = {}
               PROVE  ((out \o StdinUnread) \o ConsUnread) \o rx = [i \in 1..typed |-> i]
    BY DEF InputExact
  <2>1. PICK sr \in Nat, sw \in Nat :
          sr = stdin.rpos /\ sw = stdin.wpos /\ sr <= sw
    BY DEF BufferInv, BufferType
  <2>2. PICK cr \in 0..(ConsSize - 1), cw \in 0..(ConsSize - 1) :
          cr = cons.rpos /\ cw = cons.wpos
    BY DEF BufferInv, BufferType
  <2>3. PICK h : h = Held(cr, cw)
    OBVIOUS
  <2>4. h \in Nat /\ rx \in Seq(Nat) /\ out \in Seq(Nat) /\ typed \in Nat
    <3>1. h \in Nat
      BY <2>2, <2>3, ConsFacts
    <3> QED BY <3>1, FieldFacts DEF BufferInv
  <2>5. Line(out, stdin.buf, sr, sw, cons.buf, cr, cw, rx, typed)
    BY <2>1, <2>2 DEF BufferInv, Contents
  <2>6. /\ Len(out) = sr /\ \A i \in 1..sr : out[i] = i
        /\ \A j \in 0..(sw - sr - 1) : stdin.buf[(sr + j) % StdinSize] = sr + j + 1
        /\ \A j \in 0..(h - 1) : cons.buf[(cr + j) % ConsSize] = sw + j + 1
        /\ \A j \in 1..Len(rx) : rx[j] = sw + h + j
        /\ typed = sw + h + Len(rx)
    BY <2>3, <2>5 DEF Line
  <2> DEFINE A == StdinUnread
             B == ConsUnread
  <2>7. A \in Seq(Nat) /\ Len(A) = sw - sr /\ \A i \in 1..Len(A) : A[i] = sr + i
    <3>1. A = [i \in 1..(sw - sr) |-> stdin.buf[(sr + i - 1) % StdinSize]]
      BY <2>1 DEF StdinUnread
    <3>2. ASSUME NEW i \in 1..(sw - sr)
          PROVE  stdin.buf[(sr + i - 1) % StdinSize] = sr + i
      <4>1. i - 1 \in 0..(sw - sr - 1) /\ sr + (i - 1) = sr + i - 1
        BY <2>1
      <4>2. stdin.buf[(sr + (i - 1)) % StdinSize] = sr + (i - 1) + 1
        BY <4>1, <2>6
      <4> QED BY <4>1, <4>2
    <3>3. A = [i \in 1..(sw - sr) |-> sr + i]
      BY <3>1, <3>2
    <3>4. sw - sr \in Nat /\ \A i \in 1..(sw - sr) : sr + i \in Nat
      BY <2>1
    <3> QED BY <3>3, <3>4, IsASeq
  <2>8. B \in Seq(Nat) /\ Len(B) = h /\ \A i \in 1..Len(B) : B[i] = sw + i
    <3>1. B = [i \in 1..h |-> cons.buf[(cr + i - 1) % ConsSize]]
      BY <2>2, <2>3 DEF ConsUnread, Held
    <3>2. ASSUME NEW i \in 1..h
          PROVE  cons.buf[(cr + i - 1) % ConsSize] = sw + i
      <4>1. i - 1 \in 0..(h - 1) /\ cr + (i - 1) = cr + i - 1
        BY <2>2, <2>4
      <4>2. cons.buf[(cr + (i - 1)) % ConsSize] = sw + (i - 1) + 1
        BY <4>1, <2>6
      <4> QED BY <4>1, <4>2
    <3>3. B = [i \in 1..h |-> sw + i]
      BY <3>1, <3>2
    <3>4. \A i \in 1..h : sw + i \in Nat
      BY <2>1, <2>4
    <3> QED BY <2>4, <3>3, <3>4, IsASeq
  <2> HIDE DEF A, B
  <2>9. /\ out \o A \in Seq(Nat) /\ Len(out \o A) = sw
        /\ \A i \in 1..Len(out \o A) : (out \o A)[i] = i
    <3>1. sr + (sw - sr) = sw
      BY <2>1
    <3>2. PICK n : n = Len(A)
      OBVIOUS
    <3>3. sr + n = sw
      BY <2>7, <3>1, <3>2
    <3>4. /\ out \o A \in Seq(Nat) /\ Len(out \o A) = sr + n
          /\ \A i \in 1..Len(out \o A) : (out \o A)[i] = i
      BY <2>4, <2>6, <2>7, <3>2, ConcatFacts
    <3> QED BY <3>3, <3>4
  <2>10. PICK P : P = out \o A
    OBVIOUS
  <2>11. /\ P \o B \in Seq(Nat) /\ Len(P \o B) = sw + h
         /\ \A i \in 1..Len(P \o B) : (P \o B)[i] = i
    BY ZenonT(30), <2>8, <2>9, <2>10, ConcatFacts
  <2>12. PICK Q : Q = P \o B
    OBVIOUS
  <2>13. /\ Q \o rx \in Seq(Nat) /\ Len(Q \o rx) = typed
         /\ \A i \in 1..Len(Q \o rx) : (Q \o rx)[i] = i
    <3>1. PICK k \in Nat : k = sw + h
      BY <2>1, <2>4
    <3> QED BY ZenonT(30), <3>1, <2>4, <2>6, <2>11, <2>12, ConcatFacts
  <2>14. PICK R : R = Q \o rx
    OBVIOUS
  <2>15. R \in Seq(Nat) /\ Len(R) = typed /\ \A i \in 1..typed : R[i] = i
    BY <2>13, <2>14
  <2>16. R = [i \in 1..typed |-> R[i]]
    <3>1. DOMAIN R = 1..typed /\ R = [i \in DOMAIN R |-> R[i]]
      BY <2>15
    <3> QED BY <3>1
  <2>17. R = [i \in 1..typed |-> i]
    BY <2>15, <2>16
  <2> QED BY <2>10, <2>12, <2>14, <2>17 DEF A, B
<1> QED BY <1>1, BufferInvariant, PTL
=============================================================================
