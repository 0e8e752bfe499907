-------------------------------- MODULE Cpu ---------------------------------
(***************************************************************************)
(* The multi-cycle CPU (cpu.vhd) and the memory controller behind it       *)
(* (phy_mem.vhd, mmu.vhd, network.vhd).  Both are clocked by CLK: a clock  *)
(* edge is one step in which each reads the other's old signals.  The      *)
(* controller drops ready and mem_error as soon as no request is up.       *)
(*                                                                         *)
(* Words are named by addresses, as in Isa: what is read at a is "a".      *)
(* Which instruction a word is, what the ALU computes and which words CP0  *)
(* registers hold is left open.  The instructions are grouped by what the  *)
(* state machine does with them; ALU and ALUI stand for 14 and 7 of them.  *)
(***************************************************************************)
EXTENDS Integers

CONSTANTS
    N,          \* addresses 0 .. N-1, PC + 4 is the next one
    UserTop,    \* those below it are translated by the TLB
    IO,         \* kernel addresses of devices, ROM, flash, or nothing
    Vector,     \* EBase + 0x180
    NoAddr,
    MultSteps   \* clocks a multiplication takes (16)

ASSUME CpuAssumption ==
    /\ N \in Nat /\ UserTop \in 1 .. N - 1
    /\ Vector \in UserTop .. N - 1 /\ IO \subseteq UserTop .. N - 1
    /\ NoAddr \notin 0 .. N - 1 /\ MultSteps \in Nat

VARIABLES
    cpu,        \* the signals cpu.vhd's process assigns
    reg,        \* registers.vhd: the register that is followed
    mem,        \* the signals of phy_mem.vhd and network.vhd
    saved,      \* history: the programs' state when the instruction began
    event       \* history: how the last instruction ended

vars == <<cpu, reg, mem, saved, event>>

Addr == 0 .. N - 1
After(a) == (a + 1) % N
Before(a) == (a + N - 1) % N
User == cpu.um /\ ~cpu.exl

Loads  == {"LW", "LB"}      \* LHU counts as LW, LBU as LB
Stores == {"SW", "SB"}
Writers == {"ALU", "ALUI", "MF", "JALR", "JAL", "MFC0", "LW", "LB"}
Op == Writers \cup Stores \cup
      {"MULT", "MT", "JR", "SYSCALL", "RI", "B", "J", "ERET", "MTC0", "TLBWI", "CACHE"}

\* op, whether its target and its source is reg, and the word it came from
Instr(w) == {i \in [op : Op, dst : BOOLEAN, src : BOOLEAN, at : {w}] :
                /\ i.dst => i.op \in Writers
                /\ i.src => i.op \in {"JR", "JALR"}}

-----------------------------------------------------------------------------
(* Which devices the software uses, and how: console.c asks the serial port's
   state before it reads a character and never reads the display, ethernet.c selects a
   register before each access to its data, bytes are used in memory only. *)

Asks(op, dev) ==
    CASE dev \in {"ram", "none"} -> TRUE
      [] dev = "flash" -> op # "SB"
      [] dev = "rom" -> op \in {"fetch", "LW", "LB", "SW"}
      [] dev = "sector" -> op = "SW"
      [] dev = "com" -> op \in {"LW", "SW"}
      [] dev = "state" -> op = "LW"
      [] dev = "vga" -> op = "SW"
      [] dev = "index" -> op \in {"LW", "SW"} /\ mem.net = 0
      [] dev = "data" -> op \in {"LW", "SW"} /\ mem.net = 3

Devices == {"ram", "none", "flash", "sector", "rom", "com", "state", "vga", "index", "data"}

Places(op, a) ==
    {p \in [a : {a}, aligned : BOOLEAN, dev : Devices] :
        /\ p.aligned \/ op \in {"LW", "SW"}
        /\ IF a \in IO THEN Asks(op, p.dev) ELSE p.dev = "ram"}

-----------------------------------------------------------------------------
(* cpu.vhd, one operator per value of condi *)

NoInstr == [op |-> "none", dst |-> FALSE, src |-> FALSE, at |-> NoAddr]
NoPlace == [a |-> NoAddr, aligned |-> TRUE, dev |-> "ram"]

Is(ops) == cpu.IR.op \in ops
Raise(code) == cpu' = [cpu EXCEPT !.exc = code, !.condi = 7]
\* Back to step 0.  What the next instruction must not use any more is forgotten.
Done == [cpu EXCEPT !.condi = 0, !.IR = NoInstr, !.alu = NoAddr, !.addr = NoPlace,
                    !.WriteData = NoAddr, !.exc = "none", !.mult = 0]
WriteReg(v, next) == cpu' = [cpu EXCEPT !.RegWrite = TRUE, !.WriteData = v, !.condi = next]
EndWrite(target) == cpu' = [Done EXCEPT !.RegWrite = FALSE, !.PC = target]

Interrupt_SamePC ==
    /\ ~cpu.exl
    /\ cpu' = [cpu EXCEPT !.exc = "Int", !.condi = 7]
\* Step 0 with an enabled request from the timer or the serial port (module Console has
\* the request lines; here one may come at any time): PC + 4, as the exception takes 4 off.
Interrupt ==
    /\ ~cpu.exl
    /\ cpu' = [cpu EXCEPT !.exc = "Int", !.PC = After(@), !.condi = 7]

Fetch == \E p \in Places("fetch", cpu.PC) :
            cpu' = [cpu EXCEPT !.req = "read", !.addr = p, !.condi = 1]

\* exc_code for mem_error, of a load or of a store.  A load is never refused as "modified".
ErrorCode(store) ==
    CASE mem.err = "miss" -> IF store THEN "TLBS" ELSE "TLBL"
      [] mem.err = "address" -> IF store THEN "AdES" ELSE "AdEL"
      [] mem.err = "modified" -> IF store THEN "Mod" ELSE cpu.exc

\* The end of an access: an exception, or what x says.
Answered(store, x) ==
    IF ~mem.ready THEN cpu' = cpu
    ELSE cpu' = IF mem.err = "no" THEN [x EXCEPT !.req = "idle"]
                ELSE [cpu EXCEPT !.req = "idle", !.exc = ErrorCode(store), !.condi = 7]

\* Step 1: the word arrives.
Fetched ==
    IF ~mem.ready THEN cpu' = cpu
    ELSE \/ /\ mem.err # "no"
            /\ cpu' = [cpu EXCEPT !.PC = After(@), !.req = "idle",
                                  !.exc = ErrorCode(FALSE), !.condi = 7]
         \/ /\ mem.err = "no"
            /\ \E i \in Instr(mem.data) :
                 cpu' = [cpu EXCEPT !.PC = After(@), !.req = "idle", !.IR = i, !.condi = 2]

\* Step 2, opcode 000000.
Special ==
    \/ Is({"ALU"}) /\ \E v \in Addr : cpu' = [cpu EXCEPT !.alu = v, !.condi = 3]
    \/ Is({"MULT"}) /\ cpu' = [cpu EXCEPT !.mult = 0, !.condi = 3]
    \/ Is({"MF"}) /\ \E v \in Addr : WriteReg(v, 3)
    \/ Is({"MT"}) /\ cpu' = Done
    \/ Is({"JALR"}) /\ WriteReg(cpu.PC, 3)
    \/ Is({"JR"}) /\ \E t \in IF cpu.IR.src THEN {reg} ELSE Addr : cpu' = [Done EXCEPT !.PC = t]
    \/ Is({"SYSCALL"}) /\ Raise("Sys")
    \/ Is({"RI"}) /\ Raise("RI")

Branch ==
    \/ Is({"B", "J"}) /\ \E t \in Addr : cpu' = [Done EXCEPT !.PC = t]
    \/ Is({"B"}) /\ cpu' = Done
    \/ Is({"JAL"}) /\ WriteReg(cpu.PC, 3)

Immediate == Is({"ALUI"}) /\ \E v \in Addr : cpu' = [cpu EXCEPT !.alu = v, !.condi = 3]

\* mmu.vhd takes the entry while tlb_write is up.
tlb_write == \E a \in 0 .. UserTop - 1, x \in {"none", "ro", "rw"} :
                cpu' = [cpu EXCEPT !.tlb[a] = x, !.condi = 3]

Cop0Done ==
    \/ Is({"ERET"}) /\ cpu' = [Done EXCEPT !.exl = FALSE, !.PC = cpu.EPC]
    \/ Is({"MFC0"}) /\ \/ \E v \in Addr : WriteReg(v, 3)
                       \/ cpu' = Done       \* a register that does not exist
    \/ Is({"MTC0"}) /\ \/ \E e, u \in BOOLEAN : cpu' = [Done EXCEPT !.exl = e, !.um = u]
                       \/ \E a \in Addr : cpu' = [Done EXCEPT !.EPC = a]
                       \/ cpu' = Done
    \/ Is({"TLBWI"}) /\ tlb_write

\* The coprocessor instructions are the kernel's.
Cop0 ==
    \/ Is({"ERET", "MFC0", "MTC0", "TLBWI"}) /\ User /\ Raise("CpU")
    \/ ~User /\ Cop0Done

MemAddress ==
    \/ /\ Is(Loads \cup Stores)
       /\ \E a \in Addr : \E p \in Places(cpu.IR.op, a) : cpu' = [cpu EXCEPT !.alu = p, !.condi = 3]
    \/ Is({"CACHE"}) /\ cpu' = Done

mult_ready == cpu.mult = MultSteps

\* Step 3.
Special3 ==
    \/ Is({"ALU"}) /\ WriteReg(cpu.alu, 4)
    \/ Is({"MULT"}) /\ cpu' = IF mult_ready THEN Done ELSE [cpu EXCEPT !.mult = @ + 1]
    \/ Is({"MF"}) /\ EndWrite(cpu.PC)
    \/ Is({"JALR"}) /\ \E t \in IF cpu.IR.src THEN {reg} ELSE Addr : EndWrite(t)

Others3 ==
    \/ Is({"JAL"}) /\ \E t \in Addr : EndWrite(t)
    \/ Is({"ALUI"}) /\ WriteReg(cpu.alu, 4)
    \/ Is({"MFC0"}) /\ EndWrite(cpu.PC)
    \/ Is({"TLBWI"}) /\ cpu' = Done

Mem3 == Is(Loads \cup Stores) /\
    cpu' = [cpu EXCEPT !.addr = cpu.alu, !.req = IF Is({"SW"}) THEN "write" ELSE "read", !.condi = 4]

\* Step 4.
WriteBackEnds == Is({"ALU", "ALUI"}) /\ EndWrite(cpu.PC)

LoadAnswered == Is(Loads) /\
    Answered(FALSE, [cpu EXCEPT !.WriteData = mem.data, !.RegWrite = TRUE, !.condi = 5])

\* SB reads the word around its byte first.
ByteRead == Is({"SB"}) /\ Answered(TRUE, [cpu EXCEPT !.condi = 5])

StoreAnswered == Is({"SW"}) /\ Answered(TRUE, Done)

\* Step 5 and 6.
Step5 ==
    \/ Is(Loads) /\ EndWrite(cpu.PC)
    \/ Is({"SB"}) /\ cpu' = [cpu EXCEPT !.req = "write", !.condi = 6]

Step6 == Answered(TRUE, Done)

\* Step 7: the exception.
EnterException ==
    cpu' = [Done EXCEPT !.EPC = IF cpu.exl THEN @ ELSE Before(cpu.PC),
                        !.exl = TRUE, !.PC = Vector]

Step ==
    \/ cpu.condi = 0 /\ (Interrupt \/ Fetch)
    \/ cpu.condi = 1 /\ Fetched
    \/ cpu.condi = 2 /\ (Special \/ Branch \/ Immediate \/ Cop0 \/ MemAddress)
    \/ cpu.condi = 3 /\ (Special3 \/ Others3 \/ Mem3)
    \/ cpu.condi = 4 /\ (WriteBackEnds \/ LoadAnswered \/ ByteRead \/ StoreAnswered)
    \/ cpu.condi = 5 /\ Step5
    \/ cpu.condi = 6 /\ Step6
    \/ cpu.condi = 7 /\ EnterException

-----------------------------------------------------------------------------
(* phy_mem.vhd.  mem.condi is -1 for "111111", before the checks. *)

\* mmu.vhd and the checks before an access.
Refused(p, write) ==
    IF (p.a >= UserTop /\ User) \/ ~p.aligned THEN "address"
    ELSE IF p.a >= UserTop THEN "no"
    ELSE IF cpu.tlb[p.a] = "none" THEN "miss"
    ELSE IF write /\ cpu.tlb[p.a] = "ro" THEN "modified" ELSE "no"

\* The values of condi at which ready rises (last), data_read gets the word (data), and the
\* access takes effect (strobe): WE or wrn is up again, tail moves on.
At(last, data, strobe) == [last |-> last, data |-> data, strobe |-> strobe]
RamTiming(write)    == IF write THEN At(6, -1, 4) ELSE At(1, 1, -1)
FlashTiming(write)  == IF write THEN At(15, -1, 11) ELSE At(21, 20, -1)
SectorTiming        == At(32, -1, 28)       \* the first word of a block: it is erased before
SerialTiming(write) == IF write THEN At(3, -1, 3) ELSE At(1, 0, 1)
StateTiming         == At(1, 0, -1)

Timing(dev, write) ==
    CASE dev = "ram" -> RamTiming(write)
      [] dev = "flash" -> FlashTiming(write)
      [] dev = "sector" -> SectorTiming
      [] dev = "com" -> SerialTiming(write)
      [] dev = "state" -> StateTiming

\* Where the flash's status is read, and where to go back to while it is busy.
Polls(dev, write) ==
    [c \in CASE dev = "flash" /\ write -> {7, 15}
             [] dev = "sector" -> {8, 16, 24, 32}
             [] OTHER -> {} |-> c - 3]

Fail(why) == [mem EXCEPT !.ready = TRUE, !.err = why, !.bad = cpu.addr.a]

\* RAM, flash and serial port count up to their last step; busy says what the flash answers.
Counted(busy) ==
    LET w == cpu.req = "write"
        t == Timing(cpu.addr.dev, w)
        polls == Polls(cpu.addr.dev, w)
        c == mem.condi
    IN IF c > t.last THEN mem
       ELSE IF busy /\ c \in DOMAIN polls THEN [mem EXCEPT !.condi = polls[c]]
       ELSE [mem EXCEPT !.condi = c + 1, !.ready = (c = t.last),
                        !.data = IF c = t.data THEN cpu.addr.a ELSE @,
                        !.fx = IF c = t.strobe THEN @ + 1 ELSE @]

\* The display's clock vga_ctl is turned over at every edge while the store is up; it draws when it rises.
Vga == [mem EXCEPT !.vga = 1 - @, !.ready = (mem.vga = 1), !.fx = IF mem.vga = 0 THEN @ + 1 ELSE @]

\* The network chip's register or data: wait for its state machine.
Net(rest) == [mem EXCEPT !.netOn = TRUE, !.ready = (mem.net = rest),
                         !.data = IF cpu.req = "read" /\ mem.net = rest THEN cpu.addr.a ELSE @]

Access(busy) ==
    LET why == Refused(cpu.addr, cpu.req = "write") IN
    IF mem.condi = -1 THEN IF why # "no" THEN Fail(why) ELSE [mem EXCEPT !.condi = 0]
    ELSE CASE cpu.addr.dev = "none" -> Fail("address")
           [] cpu.addr.dev = "rom" -> [mem EXCEPT !.ready = TRUE, !.data = cpu.addr.a]
           [] cpu.addr.dev = "vga" -> Vga
           [] cpu.addr.dev = "index" -> Net(3)
           [] cpu.addr.dev = "data" -> Net(0)
           [] OTHER -> Counted(busy)

\* No request: the controller is reset at once, whatever the clock does.
Released_KeepsCondi(x) == [x EXCEPT !.ready = FALSE, !.err = "no", !.netOn = FALSE]
Released(x) == [x EXCEPT !.condi = -1, !.ready = FALSE, !.err = "no", !.netOn = FALSE]

MemStep(busy) ==
    LET x == IF cpu.condi = 0 THEN [mem EXCEPT !.fx = 0, !.bad = NoAddr, !.data = NoAddr]
             ELSE IF cpu.req = "idle" THEN mem ELSE Access(busy)
    IN mem' = IF cpu'.req = "idle" THEN Released(x) ELSE x

\* network.vhd: the next status, of an access to the register number, a write or a read of data
\* (status 1, 2, ... in the tuples).
next_status ==
    IF cpu.addr.dev = "index" THEN [s \in {0, 1, 2} |-> s + 1]
    ELSE IF cpu.req = "write" THEN <<2, 0, 1>> ELSE <<5, 4, 1, 0, 2>>

\* The status after which the strobe iow or ior is up again.
StrobeEnds == IF cpu.addr.dev = "index" THEN 2 ELSE IF cpu.req = "write" THEN 0 ELSE 2

NetClock ==
    /\ mem.netOn /\ mem.net \in DOMAIN next_status
    /\ LET s == next_status[mem.net]
       IN mem' = [mem EXCEPT !.net = s, !.fx = IF s = StrobeEnds THEN @ + 1 ELSE @]
    /\ UNCHANGED <<cpu, reg, saved, event>>

-----------------------------------------------------------------------------
\* registers.vhd writes as long as RegWrite is up, to the target of the instruction in IR.
RegStep == reg' = IF cpu'.RegWrite /\ cpu'.IR.dst THEN cpu'.WriteData ELSE reg

State == [pc |-> cpu.PC, epc |-> cpu.EPC, reg |-> reg, exl |-> cpu.exl, um |-> cpu.um,
          tlb |-> cpu.tlb, fresh |-> mem.vga = 0]

Report ==
    IF cpu.condi = 7 THEN [kind |-> "exception", code |-> cpu.exc, bad |-> mem.bad, fx |-> mem.fx]
    ELSE LET p == IF Is(Loads \cup Stores) THEN cpu.addr ELSE NoPlace
         IN [kind |-> "executed", op |-> cpu.IR.op, at |-> cpu.IR.at, src |-> cpu.IR.src,
             dst |-> cpu.IR.dst, a |-> p.a, dev |-> p.dev, fx |-> mem'.fx]

History ==
    /\ saved' = IF cpu'.condi = 0 THEN State' ELSE saved
    /\ event' = IF cpu.condi # 0 /\ cpu'.condi = 0 THEN Report ELSE [kind |-> "none"]

Edge(busy) == Step /\ MemStep(busy) /\ RegStep /\ History
Clock == Edge(FALSE) \/ Edge(TRUE)

\* Reset: the kernel's half of the machine, registers and EPC hold anything.
Init ==
    /\ reg \in Addr
    /\ \E e \in Addr, r \in IO :
        cpu = [condi |-> 0, PC |-> r, IR |-> NoInstr, alu |-> NoAddr, EPC |-> e, exl |-> TRUE, um |-> TRUE,
               tlb |-> [a \in 0 .. UserTop - 1 |-> "none"], exc |-> "none", RegWrite |-> FALSE,
               WriteData |-> NoAddr, mult |-> 0, req |-> "idle", addr |-> NoPlace]
    /\ mem = [condi |-> -1, ready |-> FALSE, err |-> "no", data |-> NoAddr, bad |-> NoAddr,
              fx |-> 0, vga |-> 0, net |-> 0, netOn |-> FALSE]
    /\ saved = State /\ event = [kind |-> "none"]

Next == Clock \/ NetClock

\* The flash is asked and says that it is no longer busy.
FlashReady ==
    /\ cpu.req # "idle" /\ cpu.addr.dev \in {"flash", "sector"}
    /\ mem.condi \in DOMAIN Polls(cpu.addr.dev, cpu.req = "write")
    /\ Edge(FALSE)

\* The clocks run, and a flash that is asked again and again finishes.
Spec == Init /\ [][Next]_vars /\ WF_vars(Clock) /\ WF_vars(NetClock) /\ SF_vars(FlashReady)

-----------------------------------------------------------------------------
\* Every instruction or exception ends: the CPU always gets back to step 0, whatever
\* device it waits for (cpu.vhd waits in steps 1, 4 and 6 for mem_ready).
InstructionEnds == []<>(cpu.condi = 0)

-----------------------------------------------------------------------------
I == INSTANCE Isa WITH pc <- saved.pc, epc <- saved.epc, reg <- saved.reg, exl <- saved.exl,
                       um <- saved.um, tlb <- saved.tlb, fresh <- saved.fresh

\* The state machines of cpu.vhd and phy_mem.vhd carry out an instruction as one step,
\* once, with the word that was asked for; or they take an exception whose EPC is that
\* instruction, before any of its effects.
CpuImplements == I!Spec
=============================================================================
