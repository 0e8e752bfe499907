------------------------------- MODULE Console ------------------------------
(***************************************************************************)
(* The way of a character from the serial line to a process that reads     *)
(* stdin:                                                                  *)
(*   phy_mem.vhd   the receive buffer ComBuffer and its line com_int       *)
(*   cpu.vhd       an interrupt taken between two instructions             *)
(*   trap.c        the COM1 interrupt: cons_getc, dev_stdin_write          *)
(*   console.c     the console buffer                                      *)
(*   dev_stdin.c   the stdin buffer, its readers and their wait queue      *)
(*                                                                         *)
(* Characters are 1, 2, ... in the order typed.  One CPU; mode is          *)
(*   "on"     interrupts enabled: a user program or idle runs              *)
(*   "off"    in a system call   "com", "timer"  in an interrupt handler   *)
(*   "tail"   at the end of trap()                                         *)
(* The scheduler picks any runnable process, a superset of its round robin;*)
(* what the timer handler does is module Proc.                             *)
(***************************************************************************)
EXTENDS Integers, Sequences, FiniteSets

CONSTANTS
    Reader,     \* processes that read stdin
    Idle,       \* idleproc
    ComSize,    \* entries of ComBuffer (1024)
    ConsSize,   \* CONSBUFSIZE (512)
    StdinSize,  \* STDIN_BUFSIZE (4096)
    MaxChars,   \* bound: characters typed
    MaxLen      \* bound: the longest read

ASSUME ConsoleAssumption ==
    /\ Idle \notin Reader
    /\ {ComSize, ConsSize, StdinSize} \subseteq Nat \ {0}
    /\ {MaxChars, MaxLen} \subseteq Nat

VARIABLES
    rx,         \* ComBuffer between tail and head
    timer_int,  \* the timer's request
    mode, cpu,  \* what the CPU does, and for which process
    cons,       \* [buf, rpos, wpos]
    stdin,      \* [buf, rpos, wpos]: stdin_buffer, p_rpos, p_wpos
    queue,      \* stdin's wait_queue
    asleep,     \* readers in state SLEEPING, wait_state WT_KBD
    flags,      \* wait->wakeup_flags
    pc,         \* "user", "read": dev_stdin_read, "wait": in its schedule(), "gone"
    need,       \* characters the read still wants
    exiting,    \* PF_EXITING
    panic,      \* the kernel panicked
    typed, fed, out, \* history: characters typed, the last fed to stdin, those read
    lost        \* history: the buffers that have dropped a character

hwVars  == <<rx, timer_int, typed>>
bufVars == <<cons, stdin, fed, out>>
rdVars  == <<queue, asleep, flags, pc, need, exiting>>
vars == <<hwVars, bufVars, rdVars, mode, cpu, panic, lost>>

-----------------------------------------------------------------------------
(* Hardware *)

\* The receiver stores a character; a full buffer keeps head where it is.
CharArrives ==
    /\ ~panic /\ typed < MaxChars
    /\ typed' = typed + 1
    /\ IF Len(rx) < ComSize - 1
         THEN rx' = Append(rx, typed') /\ UNCHANGED lost
         ELSE lost' = lost \cup {"com"} /\ UNCHANGED rx
    /\ UNCHANGED <<timer_int, bufVars, rdVars, mode, cpu, panic>>

TimerFires ==
    /\ ~panic /\ timer_int' = TRUE
    /\ UNCHANGED <<rx, typed, bufVars, rdVars, mode, cpu, panic, lost>>

\* Step 0 of an instruction with a request pending.  The exception sets EXL, which
\* clears timer_int.  Both causes together are no case of trap_dispatch's switch.
TakeIrq(timer, com) ==
    /\ ~panic /\ mode = "on"
    /\ timer_int = timer /\ (rx # <<>>) = com
    /\ timer_int' = FALSE
    /\ mode' = IF timer /\ com THEN mode ELSE IF timer THEN "timer" ELSE "com"
    /\ panic' = (timer /\ com)
    /\ UNCHANGED <<rx, typed, bufVars, rdVars, cpu, lost>>

-----------------------------------------------------------------------------
(* The COM1 interrupt *)

NextPos(pos) == (pos + 1) % ConsSize

\* A round of cons_intr's loop: the console buffer takes what the device has.
ComPolls ==
    /\ ~panic /\ mode = "com" /\ rx # <<>>
    /\ LET w == NextPos(cons.wpos)
       IN /\ cons' = [cons EXCEPT !.buf[cons.wpos] = Head(rx), !.wpos = w]
          /\ lost' = IF w = cons.rpos THEN lost \cup {"cons"} ELSE lost
    /\ rx' = Tail(rx)
    /\ UNCHANGED <<timer_int, typed, stdin, fed, out, rdVars, mode, cpu, panic>>

\* dev_stdin_write's wakeup_queue: everyone on the queue leaves it.
Woken == {queue[i] : i \in DOMAIN queue}

StdinFull == stdin.wpos - stdin.rpos >= StdinSize

\* cons_getc returns a character and dev_stdin_write takes it.
ComFeeds_NoWakeup ==
    /\ ~panic /\ mode = "com" /\ rx = <<>> /\ cons.rpos # cons.wpos
    /\ cons' = [cons EXCEPT !.rpos = NextPos(@)]
    /\ fed' = cons.buf[cons.rpos]
    /\ stdin' = [stdin EXCEPT !.buf[stdin.wpos % StdinSize] = fed',
                              !.wpos = IF StdinFull THEN @ ELSE @ + 1]
    /\ lost' = IF StdinFull THEN lost \cup {"stdin"} ELSE lost
    /\ UNCHANGED <<hwVars, out, rdVars, mode, cpu, panic>>
ComFeeds ==
    /\ ~panic /\ mode = "com" /\ rx = <<>> /\ cons.rpos # cons.wpos
    /\ cons' = [cons EXCEPT !.rpos = NextPos(@)]
    /\ fed' = cons.buf[cons.rpos]
    /\ stdin' = [stdin EXCEPT !.buf[stdin.wpos % StdinSize] = fed',
                              !.wpos = IF StdinFull THEN @ ELSE @ + 1]
    /\ lost' = IF StdinFull THEN lost \cup {"stdin"} ELSE lost
    /\ queue' = <<>>
    /\ flags' = [r \in Reader |-> IF r \in Woken THEN "WT_KBD" ELSE flags[r]]
    /\ asleep' = asleep \ Woken
    /\ UNCHANGED <<hwVars, out, pc, need, exiting, mode, cpu, panic>>

\* cons_getc returns 0.
ComNone == mode = "com" /\ rx = <<>> /\ cons.rpos = cons.wpos

\* The end of a handler: back to idle, or to trap()'s tail.
IrqReturns ==
    /\ ~panic /\ (ComNone \/ mode = "timer")
    /\ mode' = IF cpu = Idle THEN "on" ELSE "tail"
    /\ UNCHANGED <<hwVars, bufVars, rdVars, cpu, panic, lost>>

-----------------------------------------------------------------------------
(* Scheduling *)

\* schedule() switches to a process of S, or to idle.  A process that goes on in
\* user mode gets there through __trapret, which sets EXL.
Switch(S) ==
    \E p \in IF S = {} THEN {Idle} ELSE S :
        /\ cpu' = p
        /\ mode' = IF p = Idle \/ pc[p] = "user" THEN "on" ELSE "off"
        /\ timer_int' = (timer_int /\ (p = Idle \/ pc[p] # "user"))

Runnable == {r \in Reader \ asleep : pc[r] # "gone"}

IdleSchedules ==
    /\ ~panic /\ mode = "on" /\ cpu = Idle
    /\ Runnable # {} /\ Switch(Runnable)
    /\ UNCHANGED <<rx, typed, bufVars, rdVars, panic, lost>>

\* trap()'s tail: a killed process exits.
TailExits ==
    /\ ~panic /\ mode = "tail" /\ cpu \in exiting
    /\ pc' = [pc EXCEPT ![cpu] = "gone"]
    /\ Switch(Runnable \ {cpu})
    /\ UNCHANGED <<rx, typed, bufVars, queue, asleep, flags, need, exiting, panic, lost>>

\* ... another goes on, or another process does.
TailReturns ==
    /\ ~panic /\ mode = "tail" /\ cpu \notin exiting
    /\ Switch({cpu}) \/ Switch(Runnable)
    /\ UNCHANGED <<rx, typed, bufVars, rdVars, panic, lost>>

-----------------------------------------------------------------------------
(* System calls *)

InUser(r) == ~panic /\ mode = "on" /\ cpu = r /\ pc[r] = "user"

\* read(stdin) of n characters enters dev_stdin_read.
ReadBegins(r, n) ==
    /\ InUser(r)
    /\ pc' = [pc EXCEPT ![r] = "read"]
    /\ need' = [need EXCEPT ![r] = n]
    /\ mode' = "off" /\ timer_int' = FALSE
    /\ UNCHANGED <<rx, typed, bufVars, queue, asleep, flags, exiting, cpu, panic, lost>>

Reading(r, l) == ~panic /\ mode = "off" /\ cpu = r /\ pc[r] = l

HasInput == stdin.rpos < stdin.wpos

NextChar_Ahead == stdin.buf[(stdin.rpos + 1) % StdinSize]
NextChar == stdin.buf[stdin.rpos % StdinSize]

ReadTakes(r) ==
    /\ Reading(r, "read") /\ need[r] > 0 /\ HasInput
    /\ out' = Append(out, NextChar)
    /\ stdin' = [stdin EXCEPT !.rpos = @ + 1]
    /\ need' = [need EXCEPT ![r] = @ - 1]
    /\ UNCHANGED <<hwVars, cons, fed, queue, asleep, flags, pc, exiting, mode, cpu, panic, lost>>

\* No input: wait_current_set, schedule().
ReadSleeps(r) ==
    /\ Reading(r, "read") /\ need[r] > 0 /\ ~HasInput
    /\ queue' = Append(queue, r)
    /\ asleep' = asleep \cup {r}
    /\ flags' = [flags EXCEPT ![r] = "WT_INTERRUPTED"]
    /\ pc' = [pc EXCEPT ![r] = "wait"]
    /\ Switch(Runnable \ {r})
    /\ UNCHANGED <<rx, typed, bufVars, need, exiting, panic, lost>>

\* After its schedule(): wait_current_del, and again unless interrupted.
Dequeued_Not(r) == queue
Dequeued(r) ==
    IF \A i \in DOMAIN queue : queue[i] # r THEN queue
    ELSE LET k == CHOOSE i \in DOMAIN queue : queue[i] = r
         IN [i \in 1..(Len(queue) - 1) |-> IF i < k THEN queue[i] ELSE queue[i + 1]]

ReadResumes(r) ==
    /\ Reading(r, "wait")
    /\ queue' = Dequeued(r)
    /\ pc' = [pc EXCEPT ![r] = IF flags[r] = "WT_KBD" THEN "read" ELSE "user"]
    /\ need' = [need EXCEPT ![r] = IF flags[r] = "WT_KBD" THEN @ ELSE 0]
    /\ mode' = IF flags[r] = "WT_KBD" THEN "off" ELSE "tail"
    /\ UNCHANGED <<hwVars, bufVars, asleep, flags, exiting, cpu, panic, lost>>

ReadReturns(r) ==
    /\ Reading(r, "read") /\ need[r] = 0
    /\ pc' = [pc EXCEPT ![r] = "user"]
    /\ mode' = "tail"
    /\ UNCHANGED <<hwVars, bufVars, queue, asleep, flags, need, exiting, cpu, panic, lost>>

\* kill(q) by r: q leaves its sleep, but stays on the wait queue until it runs.
Kill(r, q) ==
    /\ InUser(r) /\ pc[q] # "gone" /\ q \notin exiting
    /\ exiting' = exiting \cup {q}
    /\ asleep' = asleep \ {q}
    /\ mode' = "tail" /\ timer_int' = FALSE
    /\ UNCHANGED <<rx, typed, bufVars, queue, flags, pc, need, cpu, panic, lost>>

-----------------------------------------------------------------------------
Init ==
    /\ rx = <<>> /\ timer_int = FALSE
    /\ mode = "on" /\ cpu = Idle
    /\ cons = [buf |-> [i \in 0..(ConsSize - 1) |-> 0], rpos |-> 0, wpos |-> 0]
    /\ stdin = [buf |-> [i \in 0..(StdinSize - 1) |-> 0], rpos |-> 0, wpos |-> 0]
    /\ queue = <<>> /\ asleep = {}
    /\ flags = [r \in Reader |-> "WT_INTERRUPTED"]
    /\ pc = [r \in Reader |-> "user"]
    /\ need = [r \in Reader |-> 0]
    /\ exiting = {} /\ panic = FALSE
    /\ typed = 0 /\ fed = 0 /\ out = <<>> /\ lost = {}

\* What the kernel does by itself.
KernelRuns ==
    \/ ComPolls \/ ComFeeds \/ IrqReturns
    \/ IdleSchedules \/ TailExits \/ TailReturns
    \/ \E r \in Reader : ReadTakes(r) \/ ReadSleeps(r) \/ ReadResumes(r) \/ ReadReturns(r)

Interrupted == TakeIrq(TRUE, FALSE) \/ TakeIrq(FALSE, TRUE) \/ TakeIrq(TRUE, TRUE)

Next ==
    \/ CharArrives \/ TimerFires \/ Interrupted \/ KernelRuns
    \/ \E r \in Reader, n \in 1..MaxLen : ReadBegins(r, n)
    \/ \E r, q \in Reader : Kill(r, q)
    \/ panic /\ UNCHANGED vars

Spec == Init /\ [][Next]_vars

\* The kernel runs on, and com_int stays up until the buffer is empty: an
\* interrupt that is possible again and again is taken.
FairSpec == Spec /\ WF_vars(KernelRuns) /\ SF_vars(Interrupted)

-----------------------------------------------------------------------------
ConsUnread ==
    [i \in 1..((cons.wpos - cons.rpos) % ConsSize) |-> cons.buf[(cons.rpos + i - 1) % ConsSize]]
StdinUnread ==
    [i \in 1..(stdin.wpos - stdin.rpos) |-> stdin.buf[(stdin.rpos + i - 1) % StdinSize]]

\* As long as no buffer has overflowed, every character typed is read once and in
\* order, whatever the readers' lengths and whoever of them is killed: read
\* already, or waiting in one of the three buffers.
InputExact ==
    lost = {} => out \o StdinUnread \o ConsUnread \o rx = [i \in 1..typed |-> i]

\* The wait queue links the wait_t of the readers inside dev_stdin_read that no
\* character has woken, once each: an entry never outlives the stack frame it is
\* in, killed readers included.
WaitQueueExact ==
    /\ \A i, j \in DOMAIN queue : queue[i] = queue[j] => i = j
    /\ {queue[i] : i \in DOMAIN queue} = {r \in Reader : pc[r] = "wait" /\ flags[r] # "WT_KBD"}
    /\ asleep \subseteq {queue[i] : i \in DOMAIN queue}

\* A reader that sleeps while a character waits in the device wakes up, unless the
\* console buffer overflows (cons_intr has no full test) or the kernel panics on a
\* tick and a character together.
InputWakes ==
    \A r \in Reader :
        (r \in asleep /\ rx # <<>>) ~> (r \notin asleep \/ panic \/ "cons" \in lost)

=============================================================================
