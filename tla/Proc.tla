-------------------------------- MODULE Proc --------------------------------
(***************************************************************************)
(* The process manager of the ucore kernel (lab8): proc.c, sched.c, the    *)
(* round-robin class of default_sched.c and the part of trap.c that enters *)
(* and leaves them.                                                        *)
(*                                                                         *)
(* One CPU.  Every trap clears IE on entry (trapentry.S), so the kernel    *)
(* code a user process runs is interrupted by nobody and gives the CPU up  *)
(* only in schedule().  The two kernel threads, idle and init, run with    *)
(* interrupts on: a timer interrupt may come between any two of their      *)
(* steps, but trap() reschedules only on the way back to user mode.        *)
(*                                                                         *)
(* pc[p] is where p continues when it has the CPU:                         *)
(*   "user"   in user mode          "tail"   at the end of trap()          *)
(*   "wait"   at do_wait's repeat   "woken"  after do_wait's schedule()    *)
(*   "sleep"  after do_sleep's schedule()                                  *)
(*   "boot", "mark", "flag", "block", "loop": steps of init_main, below    *)
(*                                                                         *)
(* A timer is the number of ticks left (0: none); the delta list that      *)
(* implements it is module Timers.  Child lists are the parent relation;   *)
(* the cptr/optr/yptr pointers that implement it are module Family.        *)
(***************************************************************************)
EXTENDS Integers, Sequences, FiniteSets

CONSTANTS
    Users,        \* proc_struct slots a user process can occupy
    Idle,         \* idleproc, pid 0 (do_wait's pid 0 means "any child")
    InitP,        \* initproc, pid 1
    MaxProcess,   \* MAX_PROCESS
    MaxTimeSlice, \* MAX_TIME_SLICE
    TickNum,      \* TICK_NUM
    MaxSleep      \* bound: the longest sleep a program asks for

Proc == Users \cup {Idle, InitP}

ASSUME ProcAssumption ==
    /\ Idle \notin Users /\ InitP \notin Users /\ Idle # InitP
    /\ IsFiniteSet(Users)
    /\ MaxProcess \in Nat
    /\ MaxTimeSlice \in Nat \ {0}
    /\ TickNum \in Nat \ {0}
    /\ MaxSleep \in Nat

VARIABLES
    state,        \* proc->state; "FREE" is a slot with no proc_struct
    wait_state,   \* proc->wait_state; "none" is 0
    exiting,      \* the processes whose flags have PF_EXITING
    parent,       \* proc->parent
    need_resched, \* proc->need_resched
    time_slice,   \* proc->time_slice
    rq,           \* the run queue's run_list, first to last
    current,      \* the process that has the CPU
    timer,        \* ticks left of the timer p sleeps on, 0 when none
    due,          \* expired timers run_timer_list has still to handle
    irq,          \* "timers" inside the timer interrupt's handler
    ticks,        \* ticks % TICK_NUM
    pc,           \* where each process continues
    waitfor,      \* do_wait's pid argument (Idle: any child)
    nr_process,   \* the number of processes
    halted        \* "done": init finished; "panic": the kernel panicked

taskVars  == <<state, wait_state, exiting, parent, nr_process>>
schedVars == <<need_resched, time_slice, rq, current>>
timeVars  == <<timer, due, irq, ticks>>
ctlVars   == <<pc, waitfor, halted>>
vars == <<taskVars, schedVars, timeVars, ctlVars>>

States == {"FREE", "SLEEPING", "RUNNABLE", "ZOMBIE"}
WaitStates == {"none", "WT_CHILD", "WT_TIMER"}
PCs == {"none", "user", "tail", "wait", "woken", "sleep",
        "boot", "mark", "flag", "block", "loop"}

TypeOK ==
    /\ state \in [Proc -> States]
    /\ wait_state \in [Proc -> WaitStates]
    /\ exiting \subseteq Proc
    /\ parent \in [Proc -> Proc]
    /\ need_resched \in [Proc -> BOOLEAN]
    /\ time_slice \in [Proc -> 0..MaxTimeSlice]
    /\ rq \in Seq(Proc)
    /\ current \in Proc
    /\ timer \in [Proc -> 0..MaxSleep]
    /\ due \subseteq Proc
    /\ irq \in {"none", "timers"}
    /\ ticks \in 0..(TickNum - 1)
    /\ pc \in [Proc -> PCs]
    /\ waitfor \in [Proc -> Proc]
    /\ nr_process \in Int
    /\ halted \in {"no", "done", "panic"}

-----------------------------------------------------------------------------
(* The run queue and the scheduler *)

\* RR_enqueue on the list: at the back.
RR_enqueue_AtFront(q, p) == <<p>> \o q
RR_enqueue(q, p) == Append(q, p)

\* RR_enqueue on proc->time_slice: an exhausted slice is refilled.
RefillSlice_OffByOne(ts, S) ==
    [p \in Proc |-> IF p \in S /\ ts[p] = 0 THEN MaxTimeSlice + 1 ELSE ts[p]]
RefillSlice(ts, S) ==
    [p \in Proc |-> IF p \in S /\ ts[p] = 0 THEN MaxTimeSlice ELSE ts[p]]

\* schedule(), with q, st and ts the run queue, the states and the slices at
\* the call: a runnable current goes to the back, the front gets the CPU.
Schedule(q, st, ts) ==
    LET back == st[current] = "RUNNABLE" /\ current # Idle
        full == IF back THEN RR_enqueue(q, current) ELSE q
    IN  /\ need_resched' = [need_resched EXCEPT ![current] = FALSE]
        /\ time_slice' = RefillSlice(ts, IF back THEN {current} ELSE {})
        /\ \/ full = <<>> /\ current' = Idle /\ rq' = full
           \/ full # <<>> /\ current' = Head(full) /\ rq' = Tail(full)

\* wakeup_proc(p) puts p on the queue: not a RUNNABLE one (it warns), and not
\* the current process.
Enqueues_Always(p) == p # current
Enqueues(p) == state[p] # "RUNNABLE" /\ p # current

\* wakeup_proc(p) as a whole.
WakeupProc_KeepsWaitState(p) ==
    /\ state' = [state EXCEPT ![p] = "RUNNABLE"]
    /\ rq' = IF Enqueues(p) THEN RR_enqueue(rq, p) ELSE rq
    /\ time_slice' = RefillSlice(time_slice, {x \in {p} : Enqueues(x)})
    /\ UNCHANGED wait_state
WakeupProc(p) ==
    /\ state' = [state EXCEPT ![p] = "RUNNABLE"]
    /\ wait_state' = [wait_state EXCEPT ![p] = IF state[p] # "RUNNABLE" THEN "none" ELSE @]
    /\ rq' = IF Enqueues(p) THEN RR_enqueue(rq, p) ELSE rq
    /\ time_slice' = RefillSlice(time_slice, {x \in {p} : Enqueues(x)})

-----------------------------------------------------------------------------
(* Interrupts *)

InKernel(p) == p \in {Idle, InitP}

\* The CPU takes an interrupt: in user mode or in a kernel thread.
IntrEnabled ==
    /\ halted = "no" /\ irq = "none"
    /\ InKernel(current) \/ pc[current] = "user"

\* The current process p may take a step of its own at label l.
At(p, l) == halted = "no" /\ irq = "none" /\ current = p /\ pc[p] = l

\* The timers that reach 0 at this tick; run_timer_list's loop takes them all.
Expired_First == LET S == {p \in Proc : timer[p] = 1}
                 IN {p \in S : p = CHOOSE x \in S : TRUE}
Expired == {p \in Proc : timer[p] = 1}

\* The timer trap up to run_timer_list's loop: every timer is one tick older.
TimerIrq ==
    /\ IntrEnabled
    /\ ticks' = (ticks + 1) % TickNum
    /\ need_resched' = [need_resched EXCEPT ![current] = @ \/ ticks' = 0]
    /\ timer' = [p \in Proc |-> IF timer[p] > 0 THEN timer[p] - 1 ELSE 0]
    /\ due' = Expired
    /\ irq' = "timers"
    /\ UNCHANGED <<taskVars, time_slice, rq, current, ctlVars>>

\* One round of run_timer_list's loop: wake the sleeper, drop its timer.
RunTimer(p) ==
    /\ halted = "no" /\ irq = "timers" /\ p \in due
    /\ WakeupProc(p)
    /\ due' = due \ {p}
    /\ UNCHANGED <<exiting, parent, nr_process, need_resched, current,
                   timer, irq, ticks, ctlVars>>

\* The end of run_timer_list, sched_class_proc_tick(current), and the return
\* from the interrupt: trap()'s tail only for a trap from user mode.
RunTimerDone ==
    /\ halted = "no" /\ irq = "timers" /\ due = {}
    /\ LET left == IF current # Idle /\ time_slice[current] > 0
                   THEN time_slice[current] - 1 ELSE time_slice[current]
       IN /\ time_slice' = [time_slice EXCEPT ![current] = left]
          /\ need_resched' = [need_resched EXCEPT ![current] =
                                 @ \/ current = Idle \/ left = 0]
    /\ irq' = "none"
    /\ pc' = [pc EXCEPT ![current] = IF InKernel(current) THEN @ ELSE "tail"]
    /\ UNCHANGED <<taskVars, rq, current, timer, due, ticks, waitfor, halted>>

-----------------------------------------------------------------------------
(* Process creation and end *)

Kids(p) == {c \in Users : state[c] # "FREE" /\ parent[c] = p}

\* do_fork by the current process, once the memory for c is there: alloc_proc,
\* set_links, wakeup_proc(c).
DoFork(c) ==
    /\ nr_process < MaxProcess
    /\ state[c] = "FREE"
    /\ state' = [state EXCEPT ![c] = "RUNNABLE"]
    /\ parent' = [parent EXCEPT ![c] = current]
    /\ nr_process' = nr_process + 1
    /\ rq' = RR_enqueue(rq, c)
    /\ time_slice' = RefillSlice(time_slice, {c})

\* do_exit's loop over the children of p, which init inherits.
Inherited(p) == [x \in Proc |-> IF x \in Kids(p) THEN InitP ELSE parent[x]]

\* ... one of which init could have been waiting for.
OrphanZombie_Ignored(p) == FALSE
OrphanZombie(p) == \E c \in Kids(p) : state[c] = "ZOMBIE"

\* ... and the parent waits for a child.
ParentWaits_Missed(p) == FALSE
ParentWaits(p) == wait_state[parent[p]] = "WT_CHILD"

\* do_exit of the current user process p: zombie, wake a parent that waits for
\* a child, give the children to init, wake init for a zombie among them.
DoExit(p) ==
    LET q == parent[p]
        wakeParent == ParentWaits(p)
        wakeInit == /\ wait_state[InitP] = "WT_CHILD" /\ ~(wakeParent /\ q = InitP)
                    /\ OrphanZombie(p)
        woken == {x \in {q} : wakeParent} \cup {x \in {InitP} : wakeInit}
        st == [x \in Proc |-> IF x = p THEN "ZOMBIE"
                              ELSE IF x \in woken THEN "RUNNABLE" ELSE state[x]]
        rq1 == IF wakeParent /\ Enqueues(q) THEN RR_enqueue(rq, q) ELSE rq
        rq2 == IF wakeInit /\ Enqueues(InitP) THEN RR_enqueue(rq1, InitP) ELSE rq1
    IN /\ state' = st
       /\ wait_state' = [x \in Proc |-> IF x \in woken THEN "none" ELSE wait_state[x]]
       /\ parent' = Inherited(p)
       /\ Schedule(rq2, st, RefillSlice(time_slice, woken))
       /\ UNCHANGED <<exiting, nr_process, timeVars, ctlVars>>

\* do_wait's found: the zombie c is unlinked and freed.  Nobody reads a freed
\* slot, so it takes at once the values alloc_proc's memset will give it.
Reap(c) ==
    /\ state' = [state EXCEPT ![c] = "FREE"]
    /\ exiting' = exiting \ {c}
    /\ parent' = [parent EXCEPT ![c] = Idle]
    /\ time_slice' = [time_slice EXCEPT ![c] = 0]
    /\ nr_process' = nr_process - 1

-----------------------------------------------------------------------------
(* System calls.  Each ends at trap()'s tail. *)

Trapped(p, l) == pc' = [pc EXCEPT ![p] = l]

SysFork(p, c) ==
    /\ At(p, "user")
    /\ DoFork(c)
    /\ pc' = [pc EXCEPT ![p] = "tail", ![c] = "user"]
    /\ UNCHANGED <<wait_state, exiting, need_resched, current, timeVars, waitfor, halted>>

\* A call that changes nothing here: do_fork's -E_NO_FREE_PROC at the limit and
\* -E_NO_MEM at any time, do_kill of no process, do_sleep(0), sys_getpid.
SysReturns(p) ==
    /\ At(p, "user")
    /\ Trapped(p, "tail")
    /\ UNCHANGED <<taskVars, schedVars, timeVars, waitfor, halted>>

\* sys_exit, and a fault trap() cannot handle.
SysExit(p) == At(p, "user") /\ DoExit(p)

\* proc->wait_state & WT_INTERRUPTED, of WT_CHILD and WT_TIMER.
Interruptible(q) == wait_state[q] # "none"

\* sys_kill of q: a new PF_EXITING, and the end of an interruptible wait.
SysKill(p, q) ==
    /\ At(p, "user")
    /\ state[q] # "FREE"
    /\ exiting' = exiting \cup {q}
    /\ IF q \notin exiting /\ Interruptible(q)
         THEN WakeupProc(q)
         ELSE UNCHANGED <<state, wait_state, rq, time_slice>>
    /\ Trapped(p, "tail")
    /\ UNCHANGED <<parent, nr_process, need_resched, current, timeVars, waitfor, halted>>

SysYield(p) ==
    /\ At(p, "user")
    /\ need_resched' = [need_resched EXCEPT ![p] = TRUE]
    /\ Trapped(p, "tail")
    /\ UNCHANGED <<taskVars, time_slice, rq, current, timeVars, waitfor, halted>>

\* sys_sleep(t) up to schedule(): the timer is set with interrupts off.
SysSleep(p, t) ==
    /\ At(p, "user")
    /\ t > 0
    /\ timer' = [timer EXCEPT ![p] = t]
    /\ LET st == [state EXCEPT ![p] = "SLEEPING"]
       IN state' = st /\ Schedule(rq, st, time_slice)
    /\ wait_state' = [wait_state EXCEPT ![p] = "WT_TIMER"]
    /\ Trapped(p, "sleep")
    /\ UNCHANGED <<exiting, parent, nr_process, due, irq, ticks, waitfor, halted>>

\* The rest of do_sleep: del_timer.
SleepReturns_KeepsTimer(p) ==
    /\ At(p, "sleep")
    /\ Trapped(p, "tail")
    /\ UNCHANGED <<taskVars, schedVars, timeVars, waitfor, halted>>
SleepReturns(p) ==
    /\ At(p, "sleep")
    /\ timer' = [timer EXCEPT ![p] = 0]
    /\ Trapped(p, "tail")
    /\ UNCHANGED <<taskVars, schedVars, due, irq, ticks, waitfor, halted>>

\* sys_wait of the child w, or of any child (Idle).
SysWait(p, w) ==
    /\ At(p, "user")
    /\ waitfor' = [waitfor EXCEPT ![p] = w]
    /\ Trapped(p, "wait")
    /\ UNCHANGED <<taskVars, schedVars, timeVars, halted>>

\* The children do_wait looks at.
Waited_Zombies(p) ==
    {c \in Kids(p) : waitfor[p] \in {Idle, c} /\ state[c] = "ZOMBIE"}
Waited(p) == {c \in Kids(p) : waitfor[p] \in {Idle, c}}

WaitFound(p, c) ==
    /\ c \in Waited(p) /\ state[c] = "ZOMBIE"
    /\ Reap(c)
    /\ UNCHANGED <<wait_state, need_resched, rq, current, timeVars, halted>>

WaitNoZombie(p) == Waited(p) # {} /\ \A c \in Waited(p) : state[c] # "ZOMBIE"

\* do_wait from repeat, in a user process: reap, fail, or sleep.
DoWaitReaps(p, c) ==
    /\ At(p, "wait") /\ p \in Users
    /\ WaitFound(p, c)
    /\ pc' = [pc EXCEPT ![p] = "tail", ![c] = "none"]
    /\ waitfor' = [waitfor EXCEPT ![p] = Idle, ![c] = Idle]

DoWaitFails(p) ==
    /\ At(p, "wait") /\ p \in Users
    /\ Waited(p) = {}
    /\ Trapped(p, "tail")
    /\ waitfor' = [waitfor EXCEPT ![p] = Idle]
    /\ UNCHANGED <<taskVars, schedVars, timeVars, halted>>

DoWaitSleeps(p) ==
    /\ At(p, "wait") /\ p \in Users
    /\ WaitNoZombie(p)
    /\ LET st == [state EXCEPT ![p] = "SLEEPING"]
       IN state' = st /\ Schedule(rq, st, time_slice)
    /\ wait_state' = [wait_state EXCEPT ![p] = "WT_CHILD"]
    /\ Trapped(p, "woken")
    /\ UNCHANGED <<exiting, parent, nr_process, timeVars, waitfor, halted>>

\* do_wait after its schedule(): a killed process exits, another looks again.
DoWaitKilled(p) == At(p, "woken") /\ p \in Users /\ p \in exiting /\ DoExit(p)

DoWaitRepeats(p) ==
    /\ At(p, "woken")
    /\ p \notin exiting
    /\ Trapped(p, "wait")
    /\ UNCHANGED <<taskVars, schedVars, timeVars, waitfor, halted>>

\* The tail of trap() before it returns to user mode.
TailKilled(p) == At(p, "tail") /\ p \in exiting /\ DoExit(p)

TailReschedules(p) ==
    /\ At(p, "tail")
    /\ p \notin exiting /\ need_resched[p]
    /\ Schedule(rq, state, time_slice)
    /\ Trapped(p, "user")
    /\ UNCHANGED <<taskVars, timeVars, waitfor, halted>>

TailReturns(p) ==
    /\ At(p, "tail")
    /\ p \notin exiting /\ ~need_resched[p]
    /\ Trapped(p, "user")
    /\ UNCHANGED <<taskVars, schedVars, timeVars, waitfor, halted>>

-----------------------------------------------------------------------------
(* The kernel threads, step by step: interrupts come in between. *)

\* cpu_idle's loop.
CpuIdle ==
    /\ halted = "no" /\ irq = "none" /\ current = Idle
    /\ need_resched[Idle]
    /\ Schedule(rq, state, time_slice)
    /\ UNCHANGED <<taskVars, timeVars, ctlVars>>

\* init_main creates user_main, the first user process.
InitMain(c) ==
    /\ At(InitP, "boot")
    /\ DoFork(c)
    /\ pc' = [pc EXCEPT ![InitP] = "wait", ![c] = "user"]
    /\ UNCHANGED <<wait_state, exiting, need_resched, current, timeVars, waitfor, halted>>

\* ... or panics when there is no memory for it.
InitMainFails ==
    /\ At(InitP, "boot")
    /\ halted' = "panic"
    /\ UNCHANGED <<taskVars, schedVars, timeVars, pc, waitfor>>

InitReaps(c) ==
    /\ At(InitP, "wait")
    /\ WaitFound(InitP, c)
    /\ pc' = [pc EXCEPT ![InitP] = "loop", ![c] = "none"]
    /\ waitfor' = [waitfor EXCEPT ![c] = Idle]

\* do_wait found no child at all: init_main's loop ends, fs_cleanup, shutdown.
InitFinishes ==
    /\ At(InitP, "wait")
    /\ Waited(InitP) = {}
    /\ halted' = "done"
    /\ UNCHANGED <<taskVars, schedVars, timeVars, pc, waitfor>>

\* haskid, no zombie: the three stores and calls of do_wait, one by one.
InitHasKid ==
    /\ At(InitP, "wait")
    /\ WaitNoZombie(InitP)
    /\ Trapped(InitP, "mark")
    /\ UNCHANGED <<taskVars, schedVars, timeVars, waitfor, halted>>

InitMarks ==
    /\ At(InitP, "mark")
    /\ state' = [state EXCEPT ![InitP] = "SLEEPING"]
    /\ Trapped(InitP, "flag")
    /\ UNCHANGED <<wait_state, exiting, parent, nr_process, schedVars, timeVars,
                   waitfor, halted>>

InitFlags ==
    /\ At(InitP, "flag")
    /\ wait_state' = [wait_state EXCEPT ![InitP] = "WT_CHILD"]
    /\ Trapped(InitP, "block")
    /\ UNCHANGED <<state, exiting, parent, nr_process, schedVars, timeVars,
                   waitfor, halted>>

InitBlocks ==
    /\ At(InitP, "block")
    /\ Schedule(rq, state, time_slice)
    /\ Trapped(InitP, "woken")
    /\ UNCHANGED <<taskVars, timeVars, waitfor, halted>>

\* A killed init calls do_exit, which panics.
InitKilled ==
    /\ At(InitP, "woken") /\ InitP \in exiting
    /\ halted' = "panic"
    /\ UNCHANGED <<taskVars, schedVars, timeVars, pc, waitfor>>

\* The schedule() in init_main's loop, after each child reaped.
InitYields ==
    /\ At(InitP, "loop")
    /\ Schedule(rq, state, time_slice)
    /\ Trapped(InitP, "wait")
    /\ UNCHANGED <<taskVars, timeVars, waitfor, halted>>

\* After shutdown or a panic the kernel does nothing more.
Halted == halted # "no" /\ UNCHANGED vars

-----------------------------------------------------------------------------
\* proc_init is over: idle has the CPU, init waits for it in the run queue.
Init ==
    /\ state = [p \in Proc |-> IF p \in Users THEN "FREE" ELSE "RUNNABLE"]
    /\ wait_state = [p \in Proc |-> "none"]
    /\ exiting = {}
    /\ parent = [p \in Proc |-> Idle]
    /\ need_resched = [p \in Proc |-> p = Idle]
    /\ time_slice = [p \in Proc |-> IF p = InitP THEN MaxTimeSlice ELSE 0]
    /\ rq = <<InitP>>
    /\ current = Idle
    /\ timer = [p \in Proc |-> 0]
    /\ due = {}
    /\ irq = "none"
    /\ ticks = 0
    /\ pc = [p \in Proc |-> IF p = InitP THEN "boot" ELSE "none"]
    /\ waitfor = [p \in Proc |-> Idle]
    /\ nr_process = 2
    /\ halted = "no"

\* What a program may ask for.
SysCall(p) ==
    \/ \E c \in Users : SysFork(p, c)
    \/ SysReturns(p)
    \/ SysExit(p)
    \/ \E q \in Proc \ {Idle} : SysKill(p, q)
    \/ SysYield(p)
    \/ \E t \in 1..MaxSleep : SysSleep(p, t)
    \/ \E w \in Users \cup {Idle} : SysWait(p, w)

\* The rest of a system call or a trap of a user process.
KernelPath(p) ==
    \/ SleepReturns(p)
    \/ \E c \in Users : DoWaitReaps(p, c)
    \/ DoWaitFails(p)
    \/ DoWaitSleeps(p)
    \/ DoWaitKilled(p)
    \/ DoWaitRepeats(p)
    \/ TailKilled(p)
    \/ TailReschedules(p)
    \/ TailReturns(p)

InitThread ==
    \/ \E c \in Users : InitMain(c)
    \/ InitMainFails
    \/ \E c \in Users : InitReaps(c)
    \/ InitFinishes
    \/ InitHasKid
    \/ InitMarks
    \/ InitFlags
    \/ InitBlocks
    \/ DoWaitRepeats(InitP)
    \/ InitKilled
    \/ InitYields

TimerTrap == (\E p \in Proc : RunTimer(p)) \/ RunTimerDone

Next ==
    \/ \E p \in Users : SysCall(p) \/ KernelPath(p)
    \/ InitThread
    \/ CpuIdle
    \/ TimerIrq
    \/ TimerTrap
    \/ Halted

Spec == Init /\ [][Next]_vars

(* Fairness.  The kernel runs on (weak fairness of its own steps); a user      *)
(* program need never make another call.  A tick that comes inside a trap is   *)
(* lost (cpu.vhd drops the request while EXL is set), but the counter starts   *)
(* over at every tick, whatever the program does, so user mode or a kernel     *)
(* thread that is there again and again is met by one: strong fairness.        *)
(* Compare is 0x20000 cycles, so between two interrupts a kernel thread gets   *)
(* on: strong fairness of its steps, which each interrupt disables for a while.*)
FairSpec ==
    /\ Spec
    /\ SF_vars(TimerIrq)
    /\ WF_vars(TimerTrap)
    /\ SF_vars(CpuIdle)
    /\ SF_vars(InitThread)
    /\ \A p \in Users : WF_vars(KernelPath(p))

-----------------------------------------------------------------------------
(* Safety *)

RunnableWaiting == {p \in Proc \ {Idle} : state[p] = "RUNNABLE" /\ p # current}

\* The sequence q has each element of S once, and no other.
Lists(q, S) ==
    /\ \A i, j \in DOMAIN q : q[i] = q[j] => i = j
    /\ {q[i] : i \in DOMAIN q} = S

\* The run queue holds every RUNNABLE process that does not have the CPU, once,
\* and nothing else: the assertions of RR_enqueue and RR_dequeue never fail, and
\* no process is lost or run twice, whatever order of exits, kills, timer wake-ups
\* and preemptions leads there.
RunQueueExact == Lists(rq, RunnableWaiting)

\* A process that sleeps says on what, and only a sleeping one does, except for
\* init between its two stores in do_wait: do_fork's assert(current->wait_state
\* == 0) holds, and so does wakeup_proc's and run_timer_list's use of the two
\* fields.
SleepHasReason ==
    \A p \in Proc :
        (state[p] = "SLEEPING") <=> (wait_state[p] # "none"
                                    \/ (p = InitP /\ pc[p] = "flag"))

\* A timer is on the list only for a process inside do_sleep, asleep or already
\* woken by a kill: run_timer_list never wakes a zombie (wakeup_proc's assert) or
\* a process that sleeps on something else, and no timer outlives the kernel
\* stack it lies on.
TimerInSleep ==
    \A p \in Proc : timer[p] > 0 \/ p \in due =>
        /\ pc[p] = "sleep" /\ state[p] \in {"SLEEPING", "RUNNABLE"}
        /\ wait_state[p] \in {"WT_TIMER", "none"}

\* No lost wake-up in do_wait: a process asleep on WT_CHILD has a child that can
\* still end its wait and none that has already ended, orphans handed to init by
\* do_exit included.
NoLostChildWakeup ==
    \A p \in Proc : wait_state[p] = "WT_CHILD" =>
        Waited(p) # {} /\ \A c \in Waited(p) : state[c] # "ZOMBIE"

\* When init_main's loop ends there is no user process left, asleep, runnable or
\* zombie: the assertions of init_main on cptr, nr_process and proc_list.
CleanShutdown ==
    halted = "done" => nr_process = 2 /\ \A u \in Users : state[u] = "FREE"

-----------------------------------------------------------------------------
(* Liveness *)

\* The round robin starves nobody: a RUNNABLE process gets the CPU.
RunnableRuns ==
    \A p \in Users : (state[p] = "RUNNABLE") ~> (current = p \/ halted # "no")

\* Once every user process has ended, its zombies are all reaped, however deep
\* the family was, and the kernel shuts down.
AllExitedThenShutdown ==
    (halted = "no" /\ pc[InitP] # "boot" /\ \A u \in Users : state[u] \in {"FREE", "ZOMBIE"})
        ~> (halted # "no")

\* A sleeper wakes: do_sleep returns.
SleeperWakes ==
    \A p \in Users : (wait_state[p] = "WT_TIMER") ~> (wait_state[p] # "WT_TIMER" \/ halted # "no")

=============================================================================
