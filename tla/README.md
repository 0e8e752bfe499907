# A verification of the ucore kernel and its computer

The repository is a MIPS computer built by students: a multi-cycle CPU
(`computer_experiment/`), a pipelined one (`cpu_final/`), keyboard and display
logic, a boot loader, and the teaching kernel ucore ported to it
(`cspro2014_os/ucore/lab1` to `lab8`). lab8 is the last stage of the kernel and the one that
runs on the board; paths below without a directory are under
`src/cspro2014_os/ucore/lab8/kern/`.

The modules model the parts in which several actors share state or a long
history of calls builds it up: processes, scheduler, timers, semaphores, monitors,
the input path from the serial port to a reader, memory from page frames to the TLB,
open files down to the blocks of the disk, and below all of it the CPU with its memory
controller. TLC checks small instances of each; TLAPS proves every safety property of those
runs for every size, among them that four detailed modules implement their abstract ones.

## 1. The system's parts

| Part | State | Operations | Used by |
|---|---|---|---|
| Process manager (`process/proc.c`) | `proc_struct`: state, wait_state, flags, parent and sibling pointers, need_resched; `proc_list`, hash list, `nr_process`, `last_pid`, `next_safe` | do_fork, do_execve, do_exit, do_wait, do_kill, do_yield, do_sleep, init_main, cpu_idle | system calls, traps |
| Scheduler (`schedule/sched.c`, `default_sched.c`) | run list, time slices, `current` | schedule, wakeup_proc, the round-robin class, its tick | everything that sleeps or wakes |
| Timers (`schedule/sched.c`) | `timer_list`, a list of deltas | add_timer, del_timer, run_timer_list | do_sleep, the timer interrupt |
| Traps (`trap/trap.c`, `trapentry.S`) | trap frame, Status and Cause | dispatch, system calls, the tail that exits or reschedules | hardware |
| Semaphores, wait queues (`sync/sem.c`, `wait.c`) | value, queue of `wait_t` on the sleepers' stacks | down, up, try_down, wakeup_wait, wakeup_queue | all kernel locks, stdin |
| Monitor (`sync/monitor.c`) and philosophers (`sync/check_sync.c`) | mutex, next, condition semaphores, counters | cond_wait, cond_signal | check_sync, whose call is commented out |
| Console and stdin (`driver/console.c`, `fs/devs/dev_stdin.c`) | the 512-byte console ring, the 4096-byte stdin ring, its wait queue | cons_intr, cons_getc, dev_stdin_write, dev_stdin_read | COM1 interrupt, read() |
| Memory controller (`computer_experiment/phy_mem.vhd`, `network.vhd`) | step, ready and error of an access, the 1024-entry receive buffer, the network chip's bus | accesses to RAM, flash, serial port, display, network chip | CPU |
| Physical memory (`mm/pmm.c`, `default_pmm.c`) | sorted free list, page reference counts, page tables | alloc_pages, free_pages, page_insert, page_remove | everything |
| Kernel heap (`mm/kmalloc.c`) | SLOB free list, big blocks | kmalloc, kfree | kernel |
| Address spaces (`mm/vmm.c`) | vma lists, mm counts, mm_sem | mm_map, dup_mmap, exit_mmap, do_pgfault | fork, exec, exit, TLB misses |
| TLB (`mm/tlb.c`, `mmu.vhd`) | TLB entries, TLB_P and index bits in PTEs, free slots | tlb_miss_handler, tlb_invalidate, load_pgdir | page tables, context switch |
| Replacement (`mm/swap.c`, `swap_fifo.c`, `fs/swap/swapfs.c`) | FIFO list of pages | swap_in, swap_out | alloc_pages; initialised, but swapfs moves no data and alloc_pages reaches it only to crash (pmm.c:94) |
| Files and VFS (`fs/file.c`, `fs/sysfile.c`, `fs/vfs/*`) | descriptor table, open counts, inode reference counts, device list | open, close, dup, read, write, lookup | system calls |
| SFS (`fs/sfs/*`) | inode cache, free map, block maps, two locks | load, reclaim, read, write, truncate | VFS |
| Network (`driver/ethernet.c`, `arp.c`, `ip.c`, `icmp.c`, `tcp.c`) | ARP cache, TCP connection state, buffers | receive, send, the TCP state machine | nobody: its interrupt handler is not called |
| CPUs (`computer_experiment/cpu.vhd`, `cpu_final/*.vhd`) | registers, CP0, instruction steps or pipeline latches | instructions, exceptions, hazards | all software |
| Keyboard and display (`PS2KB_to_VGA/`), CPLD, boot loader | shift registers, text memory | receive a key, draw | board |

How they interact. There is one CPU. A trap disables interrupts, so a user
process inside the kernel is interrupted by nobody and gives the CPU up only in
`schedule()`. The kernel threads idle and init run with interrupts on: a timer
or serial interrupt may come between any two of their instructions, but `trap()`
reschedules only on the way back to user mode. Sleepers are woken through
`wakeup_proc` by timers, exits, kills, `up()` and characters. Wait-queue entries
and timers live on the sleeper's kernel stack, so they must be unlinked before
the sleeper returns. `schedule()` switches the page table, which empties the TLB; misses
refill it from the page table and, for a page not there yet, from the page allocator. fork
copies an address space and shares open files; exec and exit give them back. All kernel
objects come from kmalloc, and that from the same page allocator. The CPU sees memory and devices
only through the controller's ready and error lines.

What is hard to test: orders of exits, kills, ticks and reaps around one sleep;
orphans handed over while init looks for zombies; timers that expire together
with a kill; the direct hand-off in `up()`; the monitor's three semaphores;
buffers at their limit; two interrupts in one instruction; memory or disk running out
between two allocations of one call; page tables that name TLB slots of an earlier time; inode
counts over fork, dup, exec and exit; faults in the middle of an instruction. `PROJECT.json` lists each hazard at its line with the
properties that would catch it, or the reason why none does yet.

## 2. Modules

| Module | Models | Correspondence |
|---|---|---|
| `Proc` | proc.c, sched.c, default_sched.c, tail of trap.c | A variable per field of `proc_struct`, functions of the process. `pc` says where a process continues: after do_wait's or do_sleep's `schedule()`, at the end of `trap()`, in user mode. A user process's path through the kernel is one action up to the next `schedule()` or loop head. init's do_wait is cut at each store, since interrupts are on there. The handler of the tick is cut at each expired timer. |
| `Family` | set_links, remove_links, do_exit's loop, do_wait's scan | The pointers `cptr`, `optr`, `yptr`, `parent` themselves; one step per child. Proc uses only the parent relation they represent. |
| `Pid` | get_pid | One step per entry of `proc_list`; the early return and the two ways to start the scan over. |
| `ProcTable` | do_fork's and do_wait's changes of the process table | Composes `Pid` and `Family`: a fork is a get_pid, then hash_proc and set_links; a reap is unhash_proc and remove_links. |
| `TimerSpec`, `Timers` | the promise of the timer list, and add_timer, del_timer, run_timer_list | A step per loop round. `left` is history: what the owner asked for, less the ticks since. |
| `Sem` | sem.c with wait.c | Operators on records `[value, queue]`, used by two modules. |
| `SemSpec`, `Lock` | a counting semaphore; threads that use down, up and are killed while they wait | `Lock` is the use of `lock_mm`, `lock_files`, `lock_sfs_fs`, `lock_sin`, `lock_vdev_list`, `lock_disk0`. |
| `PhiloMonitor` | monitor.c and check_sync.c with condition variables | A step per store and semaphore operation; both counters and all three kinds of semaphore. |
| `Console` | phy_mem.vhd's receive buffer, interrupt acceptance of cpu.vhd, the COM1 case of trap.c, console.c, dev_stdin.c | Characters are numbers in the order typed. `lost` records which buffer has overflowed. |
| `PageSpec`, `FirstFit` | the promise of a page allocator; default_pmm.c | Operators on a record: the free list by page numbers, `property`, PG_property, nr_free. |
| `Heap` | kmalloc.c over alloc_pages, next to other users of pages | The SLOB ring by addresses, one step per call of alloc_pages. A failed alloc_page after swap_init stops the kernel (`halted`), as swap_out(NULL) does. |
| `Vm` | copy_mm, do_execve and load_icode, do_exit, do_pgfault, proc_run's page table, tlb.c, mmu.vhd's matching | Page directories by frame; TLB_P and index in each PTE; the hardware entries and tlb_algo's lists. The instruction at EPC needs a code page and a data page. |
| `Sfs`, `Files` | SFS's inodes, block lists and free map with the VFS's counts; file.c, fs.c, vfs_open, the files of fork, exec, exit | `Sfs` is operators on the file system's memory; `Files` an action per call; an open may truncate through a descriptor that cannot write (O_RDONLY with O_CREAT). |
| `Isa`, `Cpu` | the instruction set; cpu.vhd, phy_mem.vhd, network.vhd, mmu.vhd, registers.vhd, multiplication.vhd | A step of `Cpu` is a clock edge of CPU and controller together. `Isa` has one step per instruction or exception. |
| `ProcProofs`, `TableProofs`, `SyncProofs`, `ConsoleProofs`, `HeapProofs`, `VmProofs`, `FilesProofs`, `CpuProofs` | the theorems | section 5 |

How they compose. `Proc` takes a timer to be a number of ticks left, which is
what `TimerSpec` promises and `Timers` is shown to implement. `Proc` takes a child list to
be the parent relation, which is `ChildListExact` of `Family` inside `ProcTable`. `Lock`
and `PhiloMonitor` share `Sem`, and assume of the scheduler that a
runnable thread runs, which is `RunnableRuns` of `Proc`. In these two a thread
may be switched out between any two steps. lab8 switches kernel threads less often, so
they cover more than it can do, and what they show holds of it. `Heap` runs on `FirstFit` and shows
that it keeps `PageSpec`; `Vm` takes a page to be the lowest free frame, which is what
`FirstFit` gives for single pages. `Vm` and all the kernel models take instructions and exceptions as
atomic, which is `CpuImplements`. `Files` is built on `Sfs`.

Abstractions. A freed slot takes at once the values `alloc_proc` will give it
(nobody reads it in between). In `Proc` a failing allocation of do_fork is a call that
returns an error, and page faults and file calls have no effect. In `Vm` the user area is one vma under one
page table, mm_count is one (no system call passes CLONE_VM), and an
allocation waits for a free frame, since without one the kernel stops (`Heap`). In `Files` tables are
never shared (no CLONE_FS), sizes count blocks, and a call whose assertion fails is not taken: the
kernel panics there. In `Cpu` a word is named by its address, so that a wrong word is seen wherever it is used,
but what the ALU computes is left open; one register is followed. The software is assumed to use the devices as the drivers do (`Asks`): it loads
from the serial port only after the state register has announced a character, never from the display, and selects a register of the network
chip before each access to its data. So nothing is said of a load from the empty serial buffer, where the CPU would wait for the next character,
nor of ethernet_send, which selects once and transfers many words (ethernet.c:124) and is not reached (section 7). Time is
counted in delivered ticks.

Operators with names such as `RR_enqueue_AtFront` or `Woken_First` stand before the definition
they vary; they are plausible slips in that line of code, kept to show that the
property named for them in `PROJECT.json` notices. Nothing else refers to them.

## 3. Runs

| Run | Instance | Checks |
|---|---|---|
| `proc_safety` | 3 user slots, slice 1, TICK_NUM 2, sleeps up to 2; symmetric slots | `TypeOK`, `RunQueueExact`, `SleepHasReason`, `TimerInSleep`, `NoLostChildWakeup`, `CleanShutdown` |
| `proc_live` | 2 user slots, slice 2, sleep 1, fair | `RunnableRuns`, `SleeperWakes`, `AllExitedThenShutdown` |
| `table` | 3 user slots, MAX_PID 6, MAX_PROCESS 5, fair | `NoDangling`, `ChildListExact`, `PidUnique`, `PidNamesOne`, `WalksEnd` |
| `timers` | 4 timers of up to 4 ticks, fair | `DeltaExact`, `HeadNotExpired`, `ServiceSafety` (implements `TimerSpec`), `TimerEnds` |
| `lock` | 4 threads, 2 permits, kills, fair | `Exclusion`, `Fifo`, `CounterSafety` (implements `SemSpec`), `DownEnds` |
| `monitor` | 4 philosophers, 2 meals, fair | `OneActive`, `ConditionHolds`, `CountsExact`, `EveryoneDines`, no deadlock |
| `console` | 2 readers, 6 characters, buffers of 6, 3 and 2, fair | `InputExact`, `WaitQueueExact`, `InputWakes` |
| `heap` | 4 pages of 5 units, objects of 2 and of 5 units, blocks of up to 2 pages, 4 held at a time | `MemoryPartition`, `RingExact`, `FreeListExact`, `PagesSafety` (implements `PageSpec`) |
| `vm` | 2 processes, 3 virtual pages of which 2 are a TLB pair, 7 frames, 1 TLB slot | `TlbCoherent`, `FramesExact`, `OwnSpace` |
| `tlb_livelock` | 1 process, two pairs of pages, 3 TLB slots, fair | violates `InstructionRetires` (section 6) |
| `files` | 2 processes, a file, two directories, 1 disk block, 2 descriptors each | `RefsExact`, `BlocksKept` |
| `cpu` | a user word, a kernel word, a word that is any device; 3 clocks per multiplication; fair | `CpuImplements` (implements `Isa`), `InstructionEnds` |

Run one with `tlc -workers 2 -config MCProcSafety.cfg MCProc`; the longest, `cpu`, takes
about two minutes. Deadlock is checked except in `heap`, where the kernel stops when it calls
swap_out without an address space.

Why the bounds are enough. *proc*: with three user processes there are a
grandparent, a parent and a child, so an orphan (dead or alive) goes to init
while init sleeps, scans or runs, and two processes can sleep on timers that
expire at the same tick while a third kills one of them. Slice 1 makes every
tick a preemption; slice 2, in the liveness run, lets a refill matter. TICK_NUM 2 makes the periodic
reschedule happen apart from the slice. *table*: with init three user processes give a
list with a first, a middle and a last child, and an exiting process with children while init has
some; MAX_PID = MAX_PROCESS + 1 leaves the smallest number of
free pids the code's `static_assert` allows, and every history of forks and exits, wrapping any number
of times, is in the graph. *timers*: with four timers the new one can fall
before, between, behind and on equal entries, and three can expire at once.
*lock*: with two permits and four threads two wait while two are inside, so a
hand-off, a newcomer and a kill meet. *philosophers*: with four of them a
philosopher's two neighbours are different and not neighbours of each other, as with five.
*console*: the receive buffer keeps its two-to-one ratio to the console ring (1024 and 512), which
is what its overflow depends on; six characters go around both rings of the kernel and past the end of the receive buffer.
*heap*: a page holds one small object with its header and a rest too small for a second one; four pages let blocks merge on the left,
on the right and on both sides, and memory runs out at every call. *vm*: with one slot for two pairs every miss takes the
free slot, shares one or evicts, and a stale index names a slot that is free or another page's; seven frames let one address space grow
into frames that another has just given up, and run out. *files*: a growth to two blocks
fails half way on a disk of one; a descriptor that exec keeps and one that it closes. With one file `BlocksKept` is about the descriptors
of one inode; that no two of any number of files share a block is `MapKept` (section 5). *cpu*: one word of each kind of
address is enough, as nothing in the state machines depends on which one; instructions of the same kind are one.

## 4. Fairness

- `Proc`: the kernel's own steps are weakly fair; a user program is not, it may
  compute for ever. The tick is strongly fair, since `cpu.vhd`'s counter restarts at every tick whatever
  the program does and the request is dropped only while EXL is set; a place
  with interrupts on that is visited again and again is met by one. The steps of idle and init are strongly
  fair: each interrupt disables them for a while, and Compare is 0x20000 cycles, far
  longer than the handler.
- `ProcTable`: a loop inside the kernel, with nobody else running, goes on.
- `Timers`: ticks keep coming, and loops end.
- `Lock`: a runnable thread gets the CPU and critical sections end. A thread that never
  calls down again is allowed.
- `PhiloMonitor`: each thread's next step is taken once it stays
  possible; do_sleep returns (`SleeperWakes`).
- `Console`: the kernel runs on, and a pending interrupt that can be taken again
  and again is taken: `com_int` stays up until the buffer is empty. Typing is not fair.
- `Vm`, for `tlb_livelock` only: a miss of the running process traps and is handled, an
  instruction whose pages are in the TLB retires. The process is alone, so the scheduler's help is not assumed and would not come:
  `schedule()` does not switch to the process that runs already.
- `Cpu`: both clocks run; a flash that is asked again and again whether it is busy
  says no at last (strong fairness, since the status is read only now and then).

## 5. Theorems

Proved by TLAPS for every value of the constants that satisfies the modules'
assumptions: distinct idle and init, finitely many user slots, positive slice
and TICK_NUM; MAX_PID > MAX_PROCESS > 1; any set of timers and any longest time; finitely many threads and
at least one permit; at least three philosophers and any number of meals; any readers and
buffers of positive size; any processes, virtual pages, frames and TLB slots, at least one slot; any positive number of pages, of units
in a page and any longest block, small objects that fit in a page with their header, big ones of at least a page; finitely many processes with any files, directories, devices
and descriptors, with NULL not an inode; any address space of the CPU with a user part below a kernel part
that holds the exception vector and the devices. Each inductive invariant was first
checked by TLC as an invariant of the module's run.

**Processes** (`ProcProofs`). Every invariant of `proc_safety` is a theorem.

- `TypeCorrect`: `TypeOK` is inductive; a lemma per helper
  (schedule, wakeup_proc, do_fork, do_exit, reaping), a step per action.
- `RunQueueCorrect`: the run queue lists exactly the
  RUNNABLE processes that do not have the CPU, each once. On its own this is not inductive:
  a fork could put the running process on the queue if its slot were free, and schedule() could
  leave the CPU with a process that is not RUNNABLE. `RunQueueInv` adds that idle always is
  RUNNABLE and that the current process is, except for init between the stores of its do_wait.
  The lemmas on `Lists` say what appending at the back and taking
  from the front do to a list without repetition.
- `SleepersSayWhy`, `TimersInSleep`: `LifeInv` lists the stages a user process and init can be in (state, wait_state, timer and
  where it continues). It needs that init keeps the CPU between the stores of its do_wait, and that a tick finds no user
  process inside a system call.
- `NoLostChildWakeups`, `ShutdownIsClean`: `FamilyInv` says that a parent is init or a process that has not ended, that no set of
  processes is closed under `parent`, that nr_process counts the processes, and that whoever has searched its children, asleep or still on the
  way there, would find no zombie now either. A step is first shown to be a fork, an exit, a reap or none of these
  (`StepKinds`); one lemma for each kind keeps the invariant. That init's children are gone when it stops gives, without a
  cycle, that everybody is.

**Process table** (`TableProofs`).

- `PidUniqueCorrect`, `SafeRangeCorrect`: in the scan, the
  entries already passed are outside the range from the candidate to `next_safe`
  (`PidInv`); at the end all are. Between calls the range beyond `last_pid` stays free, since exits only remove
  pids and a fork adds the one just given out.
- `PidNamesOneCorrect`, `TablePidsCorrect`: in the composed table a pid names one
  process from fork to wait. `TableInv` adds to `PidInv` that every existing process but idle has its pid on `proc_list`, that every
  entry belongs to one, and that nobody shares: a fork's pid is new because `PidInv` makes the finished scan exact,
  and a reap removes one process and one entry together. The proof uses `Pid`'s lemmas as they stand, since each step of
  the table is a step of `Pid` or leaves its variables alone.
- `NoDanglingPointers`, `ChildListsExact`: `LinksInv` says of the pointers alone that `cptr` leads to a child, that every child but the
  first is the `optr` of its younger sibling, that `yptr` is the inverse of `optr` except at the first child do_exit's
  loop has still to move, and that `optr` has no ring. The list as such appears nowhere in it, so every store of set_links, remove_links and
  do_exit's loop is local. That the walk of do_wait then visits each child once and ends follows from `LinksInv` by looking at the first
  place where it would fail (`LeastNumber`), and a set of slots cannot hold more children than it has elements.

**Timers** (`SyncProofs`).

- `DeltaCorrect`, `HeadCorrect`: the inductive invariant
  `DeltaInv` adds to `DeltaExact` that no timer is linked twice, that the list is sorted by remaining time
  (this is why run_timer_list may stop at the first entry that is not zero), that a timer off the list has
  nothing left, that outside a tick all entries are positive, and that everything before add_timer's cursor
  expires no later than the new timer.
- `TimersImplement`: the initial state of `Timers` maps to one of
  `TimerSpec`, and every step to a step or a stutter. `rem` is `left`; during a tick `due` is the set of linked timers
  with nothing left.

**Semaphores** (`SyncProofs`). `LockInv`: the queue holds exactly the threads that wait and have no grant, each once; the value is
positive only without a waiter; free permits, permits on their way to a woken thread and threads inside add up to `Permits`. From it
`MutualExclusion`, `SemAssertions` (the assertions in `__down` and `__up`; for the code's panic the model has the place `"panic"`),
`FirstComeFirstServed` (an action property) and `ImplementsCounter`, the refinement of `SemSpec`, where a grant on its way counts as a free permit.

**Monitor** (`SyncProofs`). `MonitorInv`: the right to be active is in one place, with the one active thread or as the value 1 of
exactly one of the semaphores (`OneToken`); where a thread sleeps follows from its place in the code; whoever is signalled or about to be may eat
(`Promised`). `OneActiveThread` and `WaitersFindCondition` need these together: that nobody runs between `up(cv.sem)` and the
waiter's return is what keeps its condition true. `CountsAreExact` is a cardinality argument, one lemma per way a count changes. `NeighboursApart`
is what the monitor is for.

**Input** (`ConsoleProofs`). `ReaderInv` (who has the CPU is awake and where the interrupt mode says) carries `WaitQueueIsExact`.
`BufferInv` says where each character is: reading stdin's ring from `rpos` on gives the numbers after the last one read, the console's ring goes on
where it ends, and the device's buffer after that. Both rings are modular arithmetic, for which the module has lemmas (`ModSmall` to
`RingFacts`). `InputIsExact` then puts the four pieces together.

**Page frames and kernel heap** (`HeapProofs`).

- `ListExact`, `PagesImplement`: `HeapInv` says that the blocks of the free list are apart, that the list names their heads in
  rising order with a page in use between any two of them (so that they are merged as far as they can be), that nr_free counts their
  pages, and that nobody's pages are free. The merging loop of
  default_free_pages gets its own loop invariant (`Merging`). A refused request really finds no run of free
  pages (`Unfit`, because free blocks are maximal), which is what `PageSpec` promises; every step of `Heap` is a step of `PageSpec` or a stutter.
- `RingSorted`: `SlobInv` adds the heap above. The free blocks form one ring that climbs by address except at
  its last (`Cyclic`), no two of them touch (`RingOK`), blocks never overlap (`Loose`), the units are those of the pages the heap holds
  (`UnitsExact`), and every block that is not on the ring is claimed by one object, one descriptor or the call under way (`Claims`).
  `Cut`, `Insert` and `RingWalk` say what the two loops of slob_alloc and slob_free do wherever `slobfree` points when they
  begin.
- `Partition`: pages and units together cover memory once, and each object has the room it asked for. The room is proved
  for big sizes up to two pages or of a power of two of pages (`Fits`), since for others it is false: find_order (kmalloc.c:210) halves the size and drops
  the remainder, so that 8193 bytes get two pages. The kernel's big requests are one page (files_struct, IOBUF_SIZE)
  and four (DISK0_BUFSIZE).

**Address spaces and TLB** (`VmProofs`). `VmInv`: every frame is free or has one use (`Separate`), every address space one holder (`Holders`), which spaces a process has
follows from where it is (`Spaces`), and the TLB is empty unless the running process may use its own directory (`Switched`). One lemma per
operator on memory (`SetupPgdir`, `PgdirAllocPage`, `DupMmap`, `ExitMmap`, `LoadPgdir`); dup_mmap takes frames by rank among the free ones, so it needs
that a finite set of numbers has an element of each rank (`Rank`). Stale TLB_P bits and slot numbers are in no conjunct:
`TlbIsCoherent` holds whatever they are, since a refill writes each half of an entry from the page table in use or leaves it empty.

**Files** (`FilesProofs`). `FilesInv` is `RefsExact` with the types and the fact that a slot without a process holds no descriptor. Reference
and open counts are cardinalities of sets of descriptors and working directories; a lemma for each way a descriptor comes or goes (open, dup,
close, and the copies and closings of whole tables by fork and exit) says how the two sets change. From it `CountsExact` and
`MapKept`, the action property that free map and block lists, once in agreement, stay so until an inode is read again from the ignored disk (section 6).

**CPU** (`CpuProofs`). `CpuInv` has one part for each value of `condi` (`Stage0` to `Stage7`): what has been fetched, read from the register, answered by memory and
found to be an exception so far, and how far the controller is with the access under way (`InAccess`: counting down, selecting a register of the
network chip, running). It says above all that nothing the program can see has changed
since the instruction began but what its write-back is writing right now (`Under`), which is why an exception may abandon an instruction at any stage before. `AccessStep`, `AccessEnds` and
`NetClockStep` are about the controller; one lemma per stage (`FromStage0` to `FromStage7`) shows that a clock edge leaves `Isa`'s state alone, completes the
instruction as `Isa`'s `Execute`, or takes the exception. From these `CpuInvariant` and `Implements`, the refinement of `Isa`.

**Only model-checked.** The liveness properties: `RunnableRuns`, `SleeperWakes`, `AllExitedThenShutdown`, `WalksEnd`, `TimerEnds`, `DownEnds`,
`EveryoneDines`, `InputWakes`, `InstructionEnds`, the monitor's freedom from deadlock, and the violation of `InstructionRetires`. The prover handles neither fairness nor ENABLED.
The library's induction theorems take an operator and cannot be used either; where a recursive function had to be
reasoned about (the walks of a list, ring or table), its value is fixed by a property that a least counterexample would contradict (`LeastNumber`).

## 6. Findings

**An instruction can miss in the TLB for ever** (`tlb_livelock`, tlb.c:69). `load_pgdir` empties the TLB and its
list of used slots, but the page table keeps TLB_P and the slot number of every page that was once loaded. The
miss handler trusts them: a page whose neighbour has TLB_P goes into the neighbour's old slot, which is still on
the free list. If the instruction's other page then gets that same slot from the free list, or through a stale number of its own,
each refill overwrites the other and the instruction never retires. No wrong frame is ever loaded
(`TlbCoherent`), so only speed and, here, progress are lost.

Other behaviours that the models reach and the properties except or allow for:

- A kill can stay undelivered (proc.c:865): a process flagged while it is preempted in `trap()` can still go to sleep.
- cons_intr has no full test (console.c:79): after 512 characters in one call the ring looks empty.
- A tick and a character at the same instruction panic (trap.c:118).
- vfs_open with O_CREAT and O_EXCL keeps a reference (vfsfile.c:47); `RefsExact` counts them in `lost`.
- Writes to disk0 are ignored, so an inode read again has blocks the free map gave away (sfs_inode.c:289);
  `BlocksKept` excepts that step. Truncating below another writer's position, and a full disk, end in assertions.
- A page allocation without memory calls swap_out(NULL) (pmm.c:94).
- A request that is not a power of two of pages can get too few (kmalloc.c:210, see `Partition`).
- The first character ever stored to the display is drawn twice (phy_mem.vhd:794).

## 7. Not modelled

- *Page replacement*: unfinished (swapfs moves no data) and unreachable without a crash (pmm.c:94).
- *Network stack*: nobody calls ethernet_intr, and the chip's interrupt ends in `panic("unknown int.")`.
- *Pipelined CPU* (`cpu_final`): unfinished; several control signals are not connected (the decode stage's
  exception code, the alignment of memory accesses), SW stores the wrong register and register jumps go to the wrong place, so there is no
  behaviour it could be shown to implement. ucore runs on the multi-cycle CPU.
- *Files*: indirect blocks, directory contents, path parsing, fstat, byte offsets within a block; create, link, unlink and rename have no
  SFS operation and end in a NULL call.
- *Semaphore philosophers*: the other half of check_sync adds nothing to `Lock` and `PhiloMonitor`. The call of check_sync is commented out in
  init_main (proc.c:928), so neither half runs in lab8; the monitor is modelled as the code it would run.
- *Hardware*: ALU results, byte lanes of LB and SB, bits on the serial line, VGA timing, CPLD wiring, the PS/2 exercise.
- *Other*: boot loader (straight-line copying), formatted output, kernel monitor and debugger, the boot-time checks of pmm.c, vmm.c and swap.c,
  host tools, user programs, and lab1 to lab7, which are stages of the same code.

The last item is most of the repository: eight stages of one kernel, of which the last is modelled, and the
generated cores and test benches of the FPGA projects. What is mapped is the control logic that runs on the board.

## 8. Plan

Done: Proc, Timers, Pid, Sem and Lock, the monitor, Console, Family; the table that composes
Pid and Family; memory (FirstFit, Heap, Vm); files (Sfs, Files); the CPU against its instruction set.

Proved: every invariant and every action property of every run, and the refinements of TimerSpec, SemSpec, PageSpec and Isa. What
no theorem states is liveness.

Extensions that would tell most next: indirect blocks in `Sfs`; the contents of a page beside its owner, so that copies between address
spaces are part of `Vm`; shared file tables, should the kernel ever pass CLONE_FS.
