----------------------------- MODULE CpuProofs ------------------------------
(***************************************************************************)
(* The multi-cycle CPU with its memory controller implements Isa: for any  *)
(* number of words, any devices and any time they take.                    *)
(*                                                                         *)
(* CpuInv says where an instruction is, one operator per value of condi:   *)
(* what has been fetched, computed and answered so far, and that nothing   *)
(* the program sees has been changed before the step that ends it.         *)
(***************************************************************************)
EXTENDS Cpu, TLAPS

-----------------------------------------------------------------------------
(* The controller during an access *)

IsMem(m) == DOMAIN m = {"condi", "ready", "err", "data", "bad", "fx", "vga", "net", "netOn"}
IsCpu(c) == DOMAIN c = {"condi", "PC", "IR", "alu", "EPC", "exl", "um", "tlb", "exc",
                        "RegWrite", "WriteData", "mult", "req", "addr"}

Drawn(m, s) == m.vga = IF s.fresh THEN 0 ELSE 1

\* No request is up.
Quiet(m, s) ==
    /\ IsMem(m) /\ m.condi = -1 /\ ~m.ready /\ m.err = "no" /\ ~m.netOn
    /\ Drawn(m, s) /\ m.net \in {0, 3}

\* What is wrong with an access, for the program that is in state s.
Why(s, a, aligned, write) ==
    IF ~aligned \/ ((s.um /\ ~s.exl) /\ a >= UserTop) THEN "address"
    ELSE IF a >= UserTop THEN "no"
    ELSE IF s.tlb[a] = "none" THEN "miss"
    ELSE IF write /\ s.tlb[a] = "ro" THEN "modified" ELSE "no"

\* A place op may ask for.
PlaceOK(op, p) ==
    /\ p.a \in Addr /\ p.aligned \in BOOLEAN /\ p.dev \in Devices
    /\ p.dev # "ram" => p.a \in IO
    /\ p.aligned \/ op \in {"LW", "SW"}
    /\ p.dev = "flash" => op # "SB"
    /\ p.dev = "rom" => op \in {"fetch", "LW", "LB", "SW"}
    /\ p.dev \in {"sector", "vga"} => op = "SW"
    /\ p.dev \in {"com", "index", "data"} => op \in {"LW", "SW"}
    /\ p.dev = "state" => op = "LW"

\* The network chip waits for the register number before its data.
NetAt(m, p) == (p.dev = "index" => m.net = 0) /\ (p.dev = "data" => m.net = 3)

Waits(m) == ~m.ready /\ m.err = "no" /\ m.bad = NoAddr

Counting(m, p, w) ==
    LET t == Timing(p.dev, w) IN
    /\ m.condi \in 0 .. t.last + 1 /\ m.err = "no" /\ m.bad = NoAddr /\ ~m.netOn
    /\ m.ready <=> m.condi = t.last + 1
    /\ t.data >= 0 /\ m.condi > t.data => m.data = p.a
    /\ m.fx = IF t.strobe >= 0 /\ m.condi > t.strobe THEN 1 ELSE 0

Selecting(m, p, w) ==
    /\ m.condi = 0 /\ m.err = "no" /\ m.bad = NoAddr
    /\ m.ready => m.net = (IF p.dev = "index" THEN 3 ELSE 0) /\ m.netOn /\ (w \/ m.data = p.a)
    /\ IF p.dev = "index" THEN /\ m.net \in {0, 1, 2, 3}
                               /\ m.fx = IF m.net \in {2, 3} THEN 1 ELSE 0
       ELSE IF w THEN /\ m.net \in {0, 1, 2, 3}
                      /\ m.fx = IF m.net = 0 THEN 1 ELSE 0
       ELSE /\ m.net \in {0, 1, 2, 3, 4, 5}
            /\ m.fx = IF m.net \in {0, 2, 4} THEN 1 ELSE 0
    /\ ~m.netOn => NetAt(m, p)

Running(m, s, p, w) ==
    /\ p.dev = "none" =>
           /\ m.condi = 0 /\ m.fx = 0 /\ ~m.netOn
           /\ Waits(m) \/ (m.ready /\ m.err = "address" /\ m.bad = p.a)
    /\ p.dev = "rom" =>
           /\ m.condi = 0 /\ m.fx = 0 /\ ~m.netOn /\ m.err = "no" /\ m.bad = NoAddr
           /\ m.ready => m.data = p.a
    /\ p.dev = "vga" =>
           /\ m.condi = 0 /\ m.err = "no" /\ m.bad = NoAddr /\ ~m.netOn
           /\ \/ m.vga = 0 /\ ~m.ready /\ m.fx = 0 /\ s.fresh
              \/ m.vga = 1 /\ ~m.ready /\ m.fx = IF s.fresh THEN 1 ELSE 0
              \/ m.vga = 0 /\ m.ready /\ m.fx = IF s.fresh THEN 1 ELSE 0
    /\ p.dev \in {"index", "data"} => Selecting(m, p, w)
    /\ p.dev \in {"ram", "flash", "sector", "com", "state"} => Counting(m, p, w)

\* An access of op to p, a write or not, that has got as far as m.
InAccess(m, s, p, w) ==
    /\ IsMem(m)
    /\ p.dev # "vga" => Drawn(m, s)
    /\ p.dev \notin {"index", "data"} => m.net \in {0, 3}
    /\ \/ /\ m.condi = -1 /\ Waits(m) /\ m.fx = 0 /\ ~m.netOn /\ NetAt(m, p) /\ Drawn(m, s) /\ m.net \in {0, 3}
       \/ /\ m.condi = -1 /\ m.ready /\ m.fx = 0 /\ ~m.netOn /\ Drawn(m, s) /\ m.net \in {0, 3}
          /\ m.err = Why(s, p.a, p.aligned, w) /\ m.err # "no" /\ m.bad = p.a
       \/ Why(s, p.a, p.aligned, w) = "no" /\ Running(m, s, p, w)

-----------------------------------------------------------------------------
(* The stages of an instruction *)

\* The instruction at saved.pc has been read.
InstrOK(i, s) ==
    /\ i.op \in Op /\ i.at = s.pc /\ i.dst \in BOOLEAN /\ i.src \in BOOLEAN
    /\ (i.dst => i.op \in Writers) /\ (i.src => i.op \in {"JR", "JALR"})
    /\ Why(s, s.pc, TRUE, FALSE) = "no"

\* What the register of the instruction will be.
Wrote(i, v, s) ==
    /\ i.op \in {"ALU", "ALUI", "MF", "MFC0"} => v \in Addr
    /\ i.op \in {"JAL", "JALR"} => v = After(s.pc)

Clean(m) == m.fx = 0 /\ m.bad = NoAddr

\* Why the instruction is not carried out.
Faults(code, bad, s, a, aligned, store) ==
    LET why == Why(s, a, aligned, store) IN
    /\ bad = a
    /\ \/ why = "address" /\ code = IF store THEN "AdES" ELSE "AdEL"
       \/ why = "miss" /\ code = IF store THEN "TLBS" ELSE "TLBL"
       \/ why = "modified" /\ code = "Mod"
       \/ why = "no" /\ a \in IO /\ code = IF store THEN "AdES" ELSE "AdEL"

Cause(code, bad, s) ==
    \/ ~s.exl /\ code = "Int" /\ bad = NoAddr
    \/ Faults(code, bad, s, s.pc, TRUE, FALSE)
    \/ Why(s, s.pc, TRUE, FALSE) = "no"
       /\ \/ code \in {"Sys", "RI"} /\ bad = NoAddr
          \/ code = "CpU" /\ (s.um /\ ~s.exl) /\ bad = NoAddr
          \/ \E a \in Addr, al, st \in BOOLEAN : Faults(code, bad, s, a, al, st)

Stage2(c, m, s) == /\ c.condi = 2 /\ c.req = "idle" /\ ~c.RegWrite /\ Quiet(m, s) /\ Clean(m)
                   /\ InstrOK(c.IR, s)
Stage3(c, m, s) ==
    /\ c.condi = 3 /\ c.req = "idle" /\ Quiet(m, s) /\ Clean(m) /\ InstrOK(c.IR, s)
    /\ c.IR.op \in Writers \cup Stores \cup {"MULT", "TLBWI"}
    /\ c.IR.op \in {"MFC0", "TLBWI"} => ~(s.um /\ ~s.exl)
    /\ IF c.IR.op \in {"MF", "MFC0", "JAL", "JALR"}
       THEN c.RegWrite /\ Wrote(c.IR, c.WriteData, s) ELSE ~c.RegWrite
    /\ c.IR.op \in {"ALU", "ALUI"} => c.alu \in Addr
    /\ c.IR.op \in Loads \cup Stores => PlaceOK(c.IR.op, c.alu) /\ NetAt(m, c.alu)
Stage4(c, m, s) ==
    /\ c.condi = 4 /\ InstrOK(c.IR, s)
    /\ \/ /\ c.IR.op \in {"ALU", "ALUI"} /\ c.RegWrite /\ Wrote(c.IR, c.WriteData, s)
          /\ c.req = "idle" /\ Quiet(m, s) /\ Clean(m)
       \/ /\ c.IR.op \in Loads \cup Stores /\ ~c.RegWrite /\ PlaceOK(c.IR.op, c.addr)
          /\ c.req = IF c.IR.op = "SW" THEN "write" ELSE "read"
          /\ InAccess(m, s, c.addr, c.req = "write")

\* How often a place is reached.
Strokes(op, dev, s) ==
    IF dev = "vga" THEN IF s.fresh THEN {1, 2} ELSE {1}
    ELSE IF \/ op \in Stores /\ dev # "rom"
            \/ op = "LW" /\ dev \in {"com", "index", "data"} THEN {1} ELSE {0}

Stage5(c, m, s) ==
    /\ c.condi = 5 /\ InstrOK(c.IR, s) /\ c.req = "idle" /\ Quiet(m, s) /\ m.bad = NoAddr
    /\ c.IR.op \in Loads \cup {"SB"} /\ PlaceOK(c.IR.op, c.addr)
    /\ IF c.IR.op = "SB" THEN ~c.RegWrite /\ m.fx = 0
       ELSE /\ c.RegWrite /\ c.WriteData = c.addr.a
            /\ Why(s, c.addr.a, TRUE, FALSE) = "no" /\ m.fx \in Strokes(c.IR.op, c.addr.dev, s)
Stage6(c, m, s) ==
    /\ c.condi = 6 /\ InstrOK(c.IR, s) /\ c.IR.op = "SB" /\ ~c.RegWrite
    /\ PlaceOK("SB", c.addr) /\ c.req = "write" /\ InAccess(m, s, c.addr, TRUE)
Stage7(c, m, s) ==
    /\ c.condi = 7 /\ c.req = "idle" /\ ~c.RegWrite /\ Quiet(m, s) /\ m.fx = 0
    /\ Cause(c.exc, m.bad, s)

Stage0(c, r, m, s) ==
    /\ c.condi = 0 /\ c.req = "idle" /\ ~c.RegWrite /\ Quiet(m, s)
    /\ c.PC = s.pc /\ c.tlb = s.tlb /\ r = s.reg
Stage1(c, m, s) ==
    /\ c.condi = 1 /\ c.req = "read" /\ ~c.RegWrite /\ c.PC = s.pc
    /\ PlaceOK("fetch", c.addr) /\ c.addr.a = s.pc /\ InAccess(m, s, c.addr, FALSE)

\* What an instruction under way has not changed yet.
Under(c, r, s) ==
    /\ IsCpu(c) /\ r \in Addr /\ s.reg \in Addr /\ s.pc \in Addr /\ s.epc \in Addr /\ s.fresh \in BOOLEAN
    /\ s.exl \in BOOLEAN /\ s.um \in BOOLEAN
    /\ DOMAIN s = {"pc", "epc", "reg", "exl", "um", "tlb", "fresh"}
    /\ c.EPC = s.epc /\ c.exl = s.exl /\ c.um = s.um
    /\ c.condi > 1 => c.PC = After(s.pc)
    /\ r = IF c.RegWrite /\ c.IR.dst THEN c.WriteData ELSE s.reg
    /\ c.tlb = s.tlb \/ (c.condi = 3 /\ c.IR.op = "TLBWI")

CpuInv ==
    /\ Under(cpu, reg, saved)
    /\ cpu.condi # 0 => event = [kind |-> "none"]
    /\ \/ Stage0(cpu, reg, mem, saved) \/ Stage1(cpu, mem, saved) \/ Stage2(cpu, mem, saved)
       \/ Stage3(cpu, mem, saved) \/ Stage4(cpu, mem, saved) \/ Stage5(cpu, mem, saved)
       \/ Stage6(cpu, mem, saved) \/ Stage7(cpu, mem, saved)

-----------------------------------------------------------------------------
(* The steps of the controller *)

LEMMA Arithmetic ==
    ASSUME NEW a \in Addr
    PROVE  After(a) \in Addr /\ Before(After(a)) = a
<1>1. N \in Nat /\ N > 0 /\ a \in Nat /\ a < N
  BY CpuAssumption DEF Addr
<1>2. CASE a + 1 < N
  <2>1. (a + 1) % N = a + 1
    BY <1>1, <1>2
  <2>2. (a + 1 + N - 1) % N = a
    BY <1>1
  <2> QED BY <1>1, <1>2, <2>1, <2>2 DEF After, Before, Addr
<1>3. CASE a + 1 = N
  <2>1. (a + 1) % N = 0
    BY <1>1, <1>3
  <2>2. (0 + N - 1) % N = N - 1
    BY <1>1
  <2> QED BY <1>1, <1>3, <2>1, <2>2 DEF After, Before, Addr
<1> QED BY <1>1, <1>2, <1>3

LEMMA FailFields ==
    ASSUME NEW why, NEW x, x = Fail(why), IsMem(mem)
    PROVE  /\ IsMem(x) /\ x.ready /\ x.err = why /\ x.bad = cpu.addr.a /\ x.condi = mem.condi
           /\ x.data = mem.data /\ x.fx = mem.fx /\ x.vga = mem.vga /\ x.net = mem.net /\ (x.netOn <=> mem.netOn)
BY DEF Fail, IsMem

LEMMA ReleasedFields ==
    ASSUME NEW m, IsMem(m), NEW x, x = Released(m)
    PROVE  /\ IsMem(x) /\ ~x.ready /\ x.err = "no" /\ ~x.netOn /\ x.condi = -1
           /\ x.bad = m.bad /\ x.data = m.data /\ x.fx = m.fx /\ x.vga = m.vga /\ x.net = m.net
BY DEF Released, IsMem

LEMMA VgaFields ==
    ASSUME NEW x, x = Vga, IsMem(mem)
    PROVE  /\ IsMem(x) /\ x.vga = 1 - mem.vga /\ (x.ready <=> mem.vga = 1)
           /\ x.fx = (IF mem.vga = 0 THEN mem.fx + 1 ELSE mem.fx)
           /\ x.err = mem.err /\ x.bad = mem.bad /\ x.condi = mem.condi
           /\ x.data = mem.data /\ x.net = mem.net /\ (x.netOn <=> mem.netOn)
BY DEF Vga, IsMem

LEMMA NetFields ==
    ASSUME NEW rest, NEW x, x = Net(rest), IsMem(mem)
    PROVE  /\ IsMem(x) /\ x.netOn /\ (x.ready <=> mem.net = rest)
           /\ x.data = (IF cpu.req = "read" /\ mem.net = rest THEN cpu.addr.a ELSE mem.data)
           /\ x.err = mem.err /\ x.bad = mem.bad /\ x.condi = mem.condi /\ x.fx = mem.fx
           /\ x.vga = mem.vga /\ x.net = mem.net
BY DEF Net, IsMem

\* What an access to a counted device leaves alone, and how it goes on.
LEMMA CountedFields ==
    ASSUME NEW busy \in BOOLEAN, NEW x, x = Counted(busy), IsMem(mem),
           NEW t, t = Timing(cpu.addr.dev, cpu.req = "write")
    PROVE  /\ IsMem(x) /\ x.err = mem.err /\ x.bad = mem.bad /\ x.vga = mem.vga /\ x.net = mem.net
           /\ (x.netOn <=> mem.netOn)
           /\ mem.condi > t.last => x = mem
           /\ ~(mem.condi > t.last) =>
                 \/ /\ mem.condi \in DOMAIN Polls(cpu.addr.dev, cpu.req = "write")
                    /\ x.condi = Polls(cpu.addr.dev, cpu.req = "write")[mem.condi]
                    /\ (x.ready <=> mem.ready) /\ x.data = mem.data /\ x.fx = mem.fx
                 \/ /\ x.condi = mem.condi + 1 /\ (x.ready <=> mem.condi = t.last)
                    /\ x.data = (IF mem.condi = t.data THEN cpu.addr.a ELSE mem.data)
                    /\ x.fx = (IF mem.condi = t.strobe THEN mem.fx + 1 ELSE mem.fx)
<1>1. PICK P : P = Polls(cpu.addr.dev, cpu.req = "write")
  OBVIOUS
<1>2. x = IF mem.condi > t.last THEN mem
          ELSE IF busy /\ mem.condi \in DOMAIN P THEN [mem EXCEPT !.condi = P[mem.condi]]
          ELSE [mem EXCEPT !.condi = mem.condi + 1, !.ready = (mem.condi = t.last),
                           !.data = IF mem.condi = t.data THEN cpu.addr.a ELSE @,
                           !.fx = IF mem.condi = t.strobe THEN @ + 1 ELSE @]
  BY <1>1 DEF Counted
<1> QED BY <1>1, <1>2 DEF IsMem

\* A counted access keeps its place in the sequence.
LEMMA CountingStep ==
    ASSUME NEW busy \in BOOLEAN, NEW p, p = cpu.addr, NEW w \in BOOLEAN, w = (cpu.req = "write"), IsMem(mem),
           p.dev \in {"ram", "flash", "sector", "com", "state"}, p.dev = "sector" => w,
           Counting(mem, p, w), NEW x, x = Counted(busy)
    PROVE  Counting(x, p, w)
<1>1. PICK t : t = Timing(p.dev, w)
  OBVIOUS
<1>2. /\ x.err = mem.err /\ x.bad = mem.bad /\ (x.netOn <=> mem.netOn)
      /\ mem.condi > t.last => x = mem
      /\ ~(mem.condi > t.last) =>
            \/ /\ mem.condi \in DOMAIN Polls(p.dev, w) /\ x.condi = Polls(p.dev, w)[mem.condi]
               /\ (x.ready <=> mem.ready) /\ x.data = mem.data /\ x.fx = mem.fx
            \/ /\ x.condi = mem.condi + 1 /\ (x.ready <=> mem.condi = t.last)
               /\ x.data = (IF mem.condi = t.data THEN p.a ELSE mem.data)
               /\ x.fx = (IF mem.condi = t.strobe THEN mem.fx + 1 ELSE mem.fx)
  BY <1>1, CountedFields
<1>3. /\ mem.condi \in 0 .. t.last + 1 /\ mem.err = "no" /\ mem.bad = NoAddr /\ ~mem.netOn
      /\ mem.ready <=> mem.condi = t.last + 1
      /\ t.data >= 0 /\ mem.condi > t.data => mem.data = p.a
      /\ mem.fx = IF t.strobe >= 0 /\ mem.condi > t.strobe THEN 1 ELSE 0
  BY <1>1 DEF Counting
<1>4. /\ t.last \in Nat /\ t.data \in Int /\ t.strobe \in Int
      /\ t.data <= t.last /\ t.strobe <= t.last
  BY <1>1 DEF Timing, RamTiming, FlashTiming, SectorTiming, SerialTiming, StateTiming, At
<1>5. CASE mem.condi > t.last
  BY <1>1, <1>2, <1>3, <1>5 DEF Counting
<1>6. ASSUME ~(mem.condi > t.last), mem.condi \in DOMAIN Polls(p.dev, w), x.condi = Polls(p.dev, w)[mem.condi],
             (x.ready <=> mem.ready), x.data = mem.data, x.fx = mem.fx
      PROVE  Counting(x, p, w)
  <2>1. /\ x.condi = mem.condi - 3 /\ x.condi \in Nat /\ t.data < 0 /\ t.strobe >= 0
        /\ (mem.condi > t.strobe => x.condi > t.strobe)
    <3>1. CASE p.dev = "flash" /\ w
      <4>1. mem.condi \in {7, 15} /\ x.condi = mem.condi - 3
        BY <1>6, <3>1 DEF Polls
      <4>2. t.strobe = 11 /\ t.data = -1
        BY <1>1, <3>1 DEF Timing, FlashTiming, At
      <4> QED BY <4>1, <4>2
    <3>2. CASE p.dev = "sector"
      <4>1. mem.condi \in {8, 16, 24, 32} /\ x.condi = mem.condi - 3
        BY <1>6, <3>2 DEF Polls
      <4>2. t.strobe = 28 /\ t.data = -1
        BY <1>1, <3>2 DEF Timing, SectorTiming, At
      <4> QED BY <4>1, <4>2
    <3>3. CASE ~(p.dev = "flash" /\ w) /\ p.dev # "sector"
      BY <1>6, <3>3 DEF Polls
    <3> QED BY <3>1, <3>2, <3>3
  <2>2. mem.condi \in Nat
    BY <1>3, <1>4
  <2> QED BY <1>1, <1>2, <1>3, <1>4, <1>6, <2>1, <2>2 DEF Counting
<1>7. ASSUME ~(mem.condi > t.last), x.condi = mem.condi + 1, x.ready <=> mem.condi = t.last,
             x.data = (IF mem.condi = t.data THEN p.a ELSE mem.data),
             x.fx = (IF mem.condi = t.strobe THEN mem.fx + 1 ELSE mem.fx)
      PROVE  Counting(x, p, w)
  <2>1. PICK c : c = mem.condi /\ c \in Nat /\ c <= t.last
    BY <1>3, <1>4, <1>7
  <2>2. PICK last, data, strobe : last = t.last /\ data = t.data /\ strobe = t.strobe
    OBVIOUS
  <2>3. last \in Nat /\ data \in Int /\ strobe \in Int /\ c <= last /\ data <= last /\ strobe <= last
    BY <1>4, <2>1, <2>2
  <2>4. x.condi = c + 1 /\ x.condi \in 0 .. last + 1 /\ (x.ready <=> x.condi = last + 1)
    BY <1>7, <2>1, <2>2, <2>3
  <2>5. data >= 0 /\ c + 1 > data => x.data = p.a
    <3>1. data >= 0 /\ c > data => mem.data = p.a
      BY <1>3, <2>1, <2>2
    <3>2. x.data = IF c = data THEN p.a ELSE mem.data
      BY <1>7, <2>1, <2>2
    <3> QED BY <2>1, <2>3, <3>1, <3>2
  <2>6. x.fx = IF strobe >= 0 /\ c + 1 > strobe THEN 1 ELSE 0
    <3>1. mem.fx = IF strobe >= 0 /\ c > strobe THEN 1 ELSE 0
      BY <1>3, <2>1, <2>2
    <3>2. x.fx = IF c = strobe THEN mem.fx + 1 ELSE mem.fx
      BY <1>7, <2>1, <2>2
    <3> QED BY <2>1, <2>3, <3>1, <3>2
  <2> QED BY <1>1, <1>2, <1>3, <2>2, <2>4, <2>5, <2>6 DEF Counting
<1> QED BY <1>2, <1>5, <1>6, <1>7

\* An access under way has passed the first checks.
LEMMA RunningStarted ==
    ASSUME NEW m, NEW s, NEW p, NEW w \in BOOLEAN, NEW op, PlaceOK(op, p), Running(m, s, p, w)
    PROVE  m.condi # -1
<1>1. CASE p.dev \in {"none", "rom", "vga"}
  BY <1>1 DEF Running
<1>2. CASE p.dev \in {"index", "data"}
  BY <1>2 DEF Running, Selecting
<1>3. CASE p.dev \in {"ram", "flash", "sector", "com", "state"}
  <2>1. PICK t : t = Timing(p.dev, w)
    OBVIOUS
  <2>2. t.last \in Nat
    BY <1>3, <2>1 DEF Timing, RamTiming, FlashTiming, SectorTiming, SerialTiming, StateTiming, At
  <2>3. m.condi \in 0 .. t.last + 1
    BY <1>3, <2>1 DEF Running, Counting
  <2> QED BY <2>2, <2>3
<1> QED BY <1>1, <1>2, <1>3 DEF PlaceOK, Devices

\* A request of op is up, for the program that is in state s.
Asked(op, p, w, s) ==
    /\ p = cpu.addr /\ w = (cpu.req = "write") /\ cpu.req \in {"read", "write"}
    /\ PlaceOK(op, p) /\ (p.dev \in {"sector", "vga"} => w)
    /\ s.fresh \in BOOLEAN /\ cpu.um = s.um /\ cpu.exl = s.exl /\ cpu.tlb = s.tlb

\* A whole access, one clock on.
LEMMA AccessStep ==
    ASSUME NEW busy \in BOOLEAN, NEW op, NEW p, NEW w \in BOOLEAN, NEW s, Asked(op, p, w, s),
           InAccess(mem, s, p, w), ~mem.ready, NEW x, x = Access(busy)
    PROVE  InAccess(x, s, p, w)
<1> USE DEF Asked
<1>1. PICK why : why = Why(s, p.a, p.aligned, w)
  OBVIOUS
<1>2. Refused(p, w) = why
  BY <1>1 DEF Refused, Why, User
<1>3. IsMem(mem)
  BY DEF InAccess
<1>4. CASE mem.condi = -1
  <2>1. Waits(mem) /\ mem.fx = 0 /\ ~mem.netOn /\ NetAt(mem, p) /\ Drawn(mem, s) /\ mem.net \in {0, 3}
    BY <1>4, RunningStarted DEF InAccess
  <2>2. CASE why # "no"
    <3>1. x = Fail(why)
      BY <1>2, <1>4, <2>2 DEF Access
    <3>2. /\ IsMem(x) /\ x.ready /\ x.err = why /\ x.bad = p.a /\ x.condi = -1
          /\ x.fx = 0 /\ x.vga = mem.vga /\ x.net = mem.net /\ ~x.netOn
      BY <1>3, <1>4, <2>1, <3>1, FailFields
    <3> QED BY <1>1, <2>1, <2>2, <3>2 DEF InAccess, Drawn
  <2>3. CASE why = "no"
    <3>1. x = [mem EXCEPT !.condi = 0]
      BY <1>2, <1>4, <2>3 DEF Access
    <3>2. /\ IsMem(x) /\ x.condi = 0 /\ ~x.ready /\ x.err = "no" /\ x.bad = NoAddr /\ x.fx = 0 /\ x.vga = mem.vga
          /\ x.net = mem.net /\ ~x.netOn
      BY <1>3, <2>1, <3>1 DEF IsMem, Waits
    <3>3. Running(x, s, p, w)
      <4>1. CASE p.dev \in {"none", "rom"}
        BY <3>2, <4>1 DEF Running, Waits
      <4>2. CASE p.dev = "vga"
        BY <2>1, <3>2, <4>2 DEF Running, Drawn
      <4>3. CASE p.dev \in {"index", "data"}
        <5>1. (p.dev = "index" => x.net = 0) /\ (p.dev = "data" => x.net = 3)
          BY <2>1, <3>2 DEF NetAt
        <5> QED BY <3>2, <4>3, <5>1 DEF Running, Selecting, NetAt
      <4>4. CASE p.dev \in {"ram", "flash", "sector", "com", "state"}
        <5>1. PICK t : t = Timing(p.dev, w)
          OBVIOUS
        <5>2. t.last \in Nat /\ t.data \in Int /\ t.strobe \in Int
          BY <4>4, <5>1 DEF Timing, RamTiming, FlashTiming, SectorTiming, SerialTiming, StateTiming, At
        <5>3. Counting(x, p, w)
          BY <3>2, <5>1, <5>2 DEF Counting
        <5> QED BY <4>4, <5>3 DEF Running
      <4> QED BY <4>1, <4>2, <4>3, <4>4 DEF PlaceOK, Devices
    <3> QED BY <1>1, <2>1, <2>3, <3>2, <3>3 DEF InAccess, Drawn
  <2> QED BY <2>2, <2>3
<1>5. CASE mem.condi # -1
  <2>1. why = "no" /\ Running(mem, s, p, w)
    BY <1>1, <1>5 DEF InAccess
  <2>2. (p.dev # "vga" => Drawn(mem, s)) /\ (p.dev \notin {"index", "data"} => mem.net \in {0, 3})
    BY DEF InAccess
  <2>3. CASE p.dev = "none"
    <3>1. x = Fail("address")
      BY <1>5, <2>3 DEF Access
    <3>2. /\ IsMem(x) /\ x.ready /\ x.err = "address" /\ x.bad = p.a /\ x.condi = mem.condi
          /\ x.fx = mem.fx /\ x.vga = mem.vga /\ x.net = mem.net /\ (x.netOn <=> mem.netOn)
      BY <1>3, <3>1, FailFields
    <3>3. Running(x, s, p, w)
      BY <2>1, <2>3, <3>2 DEF Running
    <3> QED BY <1>1, <2>1, <2>2, <2>3, <3>2, <3>3 DEF InAccess, Drawn
  <2>4. CASE p.dev = "rom"
    <3>1. x = [mem EXCEPT !.ready = TRUE, !.data = cpu.addr.a]
      BY <1>5, <2>4 DEF Access
    <3>2. /\ IsMem(x) /\ x.ready /\ x.data = p.a /\ x.err = mem.err /\ x.bad = mem.bad /\ x.condi = mem.condi
          /\ x.fx = mem.fx /\ x.vga = mem.vga /\ x.net = mem.net /\ (x.netOn <=> mem.netOn)
      BY <1>3, <3>1 DEF IsMem
    <3>3. Running(x, s, p, w)
      BY <2>1, <2>4, <3>2 DEF Running
    <3> QED BY <1>1, <2>1, <2>2, <2>4, <3>2, <3>3 DEF InAccess, Drawn
  <2>5. CASE p.dev = "vga"
    <3>1. x = Vga
      BY <1>5, <2>5 DEF Access
    <3>2. /\ IsMem(x) /\ x.vga = 1 - mem.vga /\ (x.ready <=> mem.vga = 1)
          /\ x.fx = (IF mem.vga = 0 THEN mem.fx + 1 ELSE mem.fx)
          /\ x.err = mem.err /\ x.bad = mem.bad /\ x.condi = mem.condi
          /\ x.net = mem.net /\ (x.netOn <=> mem.netOn)
      BY <1>3, <3>1, VgaFields
    <3>3. Running(x, s, p, w)
      BY <2>1, <2>5, <3>2 DEF Running
    <3> QED BY <1>1, <2>1, <2>2, <2>5, <3>2, <3>3 DEF InAccess
  <2>6. CASE p.dev \in {"index", "data"}
    <3>1. PICK rest : rest = IF p.dev = "index" THEN 3 ELSE 0
      OBVIOUS
    <3>2. x = Net(rest)
      BY <1>5, <2>6, <3>1 DEF Access
    <3>3. /\ IsMem(x) /\ x.netOn /\ (x.ready <=> mem.net = rest)
          /\ x.data = (IF cpu.req = "read" /\ mem.net = rest THEN p.a ELSE mem.data)
          /\ x.err = mem.err /\ x.bad = mem.bad /\ x.condi = mem.condi /\ x.fx = mem.fx
          /\ x.vga = mem.vga /\ x.net = mem.net
      BY <1>3, <3>2, NetFields
    <3>4. Selecting(mem, p, w)
      BY <2>1, <2>6 DEF Running
    <3>5. Selecting(x, p, w)
      BY <2>6, <3>1, <3>3, <3>4 DEF Selecting
    <3>6. Running(x, s, p, w)
      BY <2>6, <3>5 DEF Running
    <3> QED BY <1>1, <2>1, <2>2, <2>6, <3>3, <3>6 DEF InAccess, Drawn
  <2>7. CASE p.dev \in {"ram", "flash", "sector", "com", "state"}
    <3>1. x = Counted(busy)
      BY <1>5, <2>7 DEF Access
    <3>2. Counting(mem, p, w)
      BY <2>1, <2>7 DEF Running
    <3>3. Counting(x, p, w)
      BY <1>3, <2>7, <3>1, <3>2, CountingStep
    <3>4. IsMem(x) /\ x.vga = mem.vga /\ x.net = mem.net
      <4>1. PICK t : t = Timing(cpu.addr.dev, cpu.req = "write")
        OBVIOUS
      <4> QED BY <1>3, <3>1, <4>1, CountedFields
    <3>5. Running(x, s, p, w)
      BY <2>7, <3>3 DEF Running
    <3> QED BY <1>1, <2>1, <2>2, <2>7, <3>4, <3>5 DEF InAccess, Drawn
  <2> QED BY <2>3, <2>4, <2>5, <2>6, <2>7 DEF PlaceOK, Devices
<1> QED BY <1>4, <1>5

\* How often the access has reached its device when it is over.
Final(n, s, p, w) ==
    /\ p.dev = "vga" => n = IF s.fresh THEN 2 ELSE 1
    /\ p.dev \in {"index", "data", "com"} => n = 1
    /\ p.dev \in {"rom", "state"} => n = 0
    /\ p.dev \in {"ram", "flash", "sector"} => n = IF w THEN 1 ELSE 0

\* An access is over: mem answered, and the controller is z once it is released.
Over(z, p, w, s) ==
    /\ IsMem(z) /\ z.condi = -1 /\ ~z.ready /\ z.err = "no" /\ ~z.netOn /\ z.net \in {0, 3}
    /\ mem.err # "no" =>
           /\ z.bad = p.a /\ z.fx = 0 /\ Drawn(z, s)
           /\ \/ mem.err = Why(s, p.a, p.aligned, w)
              \/ p.dev = "none" /\ Why(s, p.a, p.aligned, w) = "no" /\ mem.err = "address"
    /\ mem.err = "no" =>
           /\ Why(s, p.a, p.aligned, w) = "no" /\ p.dev # "none" /\ z.bad = NoAddr
           /\ w \/ mem.data = p.a
           /\ Final(z.fx, s, p, w)
           /\ IF p.dev = "vga" THEN z.vga = 1 ELSE Drawn(z, s)

\* The last clock of an access: the CPU sees ready, the controller is released.
LEMMA AccessEnds ==
    ASSUME NEW busy \in BOOLEAN, NEW op, NEW p, NEW w \in BOOLEAN, NEW s, Asked(op, p, w, s),
           InAccess(mem, s, p, w), mem.ready, NEW x, x = Access(busy), NEW z, z = Released(x)
    PROVE  Over(z, p, w, s)
<1> USE DEF Asked, Over
<1>1. PICK why : why = Why(s, p.a, p.aligned, w)
  OBVIOUS
<1>2. Refused(p, w) = why
  BY <1>1 DEF Refused, Why, User
<1>3. IsMem(mem)
  BY DEF InAccess
<1>4. CASE mem.condi = -1
  <2>1. /\ mem.err = why /\ why # "no" /\ mem.bad = p.a /\ mem.fx = 0 /\ Drawn(mem, s) /\ mem.net \in {0, 3}
    BY <1>1, <1>4, RunningStarted DEF InAccess, Waits
  <2>2. x = Fail(why)
    BY <1>2, <1>4, <2>1 DEF Access
  <2>3. IsMem(x) /\ x.bad = p.a /\ x.fx = 0 /\ x.vga = mem.vga /\ x.net = mem.net
    BY <1>3, <2>1, <2>2, FailFields
  <2>4. /\ IsMem(z) /\ z.condi = -1 /\ ~z.ready /\ z.err = "no" /\ ~z.netOn
        /\ z.bad = p.a /\ z.fx = 0 /\ z.vga = mem.vga /\ z.net = mem.net
    BY <2>3, ReleasedFields
  <2> QED BY <1>1, <2>1, <2>4 DEF Drawn
<1>5. CASE mem.condi # -1
  <2>1. why = "no" /\ Running(mem, s, p, w)
    BY <1>1, <1>5 DEF InAccess
  <2>2. (p.dev # "vga" => Drawn(mem, s)) /\ (p.dev \notin {"index", "data"} => mem.net \in {0, 3})
    BY DEF InAccess
  <2>3. ASSUME IsMem(x) PROVE
           /\ IsMem(z) /\ z.condi = -1 /\ ~z.ready /\ z.err = "no" /\ ~z.netOn
           /\ z.bad = x.bad /\ z.fx = x.fx /\ z.vga = x.vga /\ z.net = x.net
    BY <2>3, ReleasedFields
  <2>4. CASE p.dev = "none"
    <3>1. x = Fail("address")
      BY <1>5, <2>4 DEF Access
    <3>2. IsMem(x) /\ x.bad = p.a /\ x.fx = mem.fx /\ x.vga = mem.vga /\ x.net = mem.net
      BY <1>3, <3>1, FailFields
    <3>3. mem.fx = 0 /\ mem.err = "address"
      BY <2>1, <2>4 DEF Running, Waits
    <3> QED BY <1>1, <2>1, <2>2, <2>3, <2>4, <3>2, <3>3 DEF Drawn
  <2>5. CASE p.dev = "rom"
    <3>1. x = [mem EXCEPT !.ready = TRUE, !.data = cpu.addr.a]
      BY <1>5, <2>5 DEF Access
    <3>2. IsMem(x) /\ x.bad = mem.bad /\ x.fx = mem.fx /\ x.vga = mem.vga /\ x.net = mem.net
      BY <1>3, <3>1 DEF IsMem
    <3>3. mem.fx = 0 /\ mem.err = "no" /\ mem.bad = NoAddr /\ mem.data = p.a
      BY <2>1, <2>5 DEF Running
    <3> QED BY <1>1, <2>1, <2>2, <2>3, <2>5, <3>2, <3>3 DEF Drawn, Final
  <2>6. CASE p.dev = "vga"
    <3>1. x = Vga
      BY <1>5, <2>6 DEF Access
    <3>2. mem.vga = 0 /\ mem.fx = (IF s.fresh THEN 1 ELSE 0) /\ mem.err = "no" /\ mem.bad = NoAddr
      BY <2>1, <2>6 DEF Running
    <3>3. IsMem(x) /\ x.bad = mem.bad /\ x.fx = mem.fx + 1 /\ x.vga = 1 /\ x.net = mem.net
      BY <1>3, <3>1, <3>2, VgaFields
    <3>4. w
      BY <2>6
    <3> QED BY <1>1, <2>1, <2>2, <2>3, <2>6, <3>2, <3>3, <3>4 DEF Final
  <2>7. CASE p.dev \in {"index", "data"}
    <3>1. PICK rest : rest = IF p.dev = "index" THEN 3 ELSE 0
      OBVIOUS
    <3>2. x = Net(rest)
      BY <1>5, <2>7, <3>1 DEF Access
    <3>3. IsMem(x) /\ x.bad = mem.bad /\ x.fx = mem.fx /\ x.vga = mem.vga /\ x.net = mem.net
      BY <1>3, <3>2, NetFields
    <3>4. /\ mem.err = "no" /\ mem.bad = NoAddr /\ mem.net = rest /\ mem.fx = 1 /\ (w \/ mem.data = p.a)
      <4>1. Selecting(mem, p, w)
        BY <2>1, <2>7 DEF Running
      <4>2. CASE p.dev = "index"
        BY <3>1, <4>1, <4>2 DEF Selecting
      <4>3. CASE p.dev = "data"
        BY <3>1, <4>1, <4>3 DEF Selecting
      <4> QED BY <2>7, <4>2, <4>3
    <3> QED BY <1>1, <2>1, <2>2, <2>3, <2>7, <3>1, <3>3, <3>4 DEF Drawn, Final
  <2>8. CASE p.dev \in {"ram", "flash", "sector", "com", "state"}
    <3>1. x = Counted(busy)
      BY <1>5, <2>8 DEF Access
    <3>2. PICK t : t = Timing(p.dev, w)
      OBVIOUS
    <3>3. /\ mem.condi \in 0 .. t.last + 1 /\ mem.err = "no" /\ mem.bad = NoAddr
          /\ mem.condi = t.last + 1
          /\ t.data >= 0 /\ mem.condi > t.data => mem.data = p.a
          /\ mem.fx = IF t.strobe >= 0 /\ mem.condi > t.strobe THEN 1 ELSE 0
      BY <2>1, <2>8, <3>2 DEF Running, Counting
    <3>4. /\ t.last \in Nat /\ t.data \in Int /\ t.strobe \in Int
          /\ t.data <= t.last /\ t.strobe <= t.last /\ (w \/ t.data >= 0)
      BY <2>8, <3>2 DEF Timing, RamTiming, FlashTiming, SectorTiming, SerialTiming, StateTiming, At
    <3>5. Final(mem.fx, s, p, w)
      <4>1. mem.fx = IF t.strobe >= 0 THEN 1 ELSE 0
        BY <3>3, <3>4
      <4>2. t.strobe >= 0 <=> p.dev \in {"sector", "com"} \/ (w /\ p.dev # "state")
        BY <2>8, <3>2 DEF Timing, RamTiming, FlashTiming, SectorTiming, SerialTiming, StateTiming, At
      <4> QED BY <2>8, <4>1, <4>2 DEF Final
    <3>6. x = mem
      <4>1. mem.condi > t.last
        BY <3>3, <3>4
      <4> QED BY <1>3, <3>1, <3>2, <4>1, CountedFields
    <3>7. w \/ mem.data = p.a
      BY <3>3, <3>4
    <3> QED BY <1>1, <1>3, <2>1, <2>2, <2>3, <2>8, <3>3, <3>5, <3>6, <3>7 DEF Drawn
  <2> QED BY <2>4, <2>5, <2>6, <2>7, <2>8 DEF PlaceOK, Devices
<1> QED BY <1>4, <1>5

\* The network chip's state machine goes on.
LEMMA NetClockStep ==
    ASSUME NetClock, NEW op, NEW p, p = cpu.addr, NEW w \in BOOLEAN, w = (cpu.req = "write"),
           PlaceOK(op, p), NEW s, InAccess(mem, s, p, w)
    PROVE  InAccess(mem', s, p, w)
<1>1. mem.netOn /\ IsMem(mem)
  BY DEF NetClock, InAccess
<1>2. /\ p.dev \in {"index", "data"} /\ Why(s, p.a, p.aligned, w) = "no" /\ Selecting(mem, p, w)
      /\ Drawn(mem, s)
  BY <1>1 DEF InAccess, Running, Counting, PlaceOK, Devices
<1>3. PICK n, e : /\ n = next_status[mem.net] /\ e = StrobeEnds /\ mem.net \in DOMAIN next_status
                  /\ mem' = [mem EXCEPT !.net = n, !.fx = IF n = e THEN @ + 1 ELSE @]
  BY DEF NetClock
<1>4. /\ IsMem(mem') /\ mem'.net = n /\ mem'.fx = (IF n = e THEN mem.fx + 1 ELSE mem.fx)
      /\ mem'.condi = mem.condi /\ (mem'.ready <=> mem.ready) /\ mem'.err = mem.err /\ mem'.data = mem.data
      /\ mem'.bad = mem.bad /\ mem'.vga = mem.vga /\ mem'.netOn
  BY <1>1, <1>3 DEF IsMem
<1>5. Selecting(mem', p, w)
  <2>1. CASE p.dev = "index"
    <3>1. mem.net \in {0, 1, 2} /\ n = mem.net + 1 /\ e = 2
      BY <1>3, <2>1 DEF next_status, StrobeEnds
    <3> QED BY <1>2, <1>4, <2>1, <3>1 DEF Selecting
  <2>2. CASE p.dev = "data" /\ w
    <3>1. PICK g : g = <<2, 0, 1>> /\ mem.net \in DOMAIN g /\ n = g[mem.net] /\ e = 0
      BY <1>3, <2>2 DEF next_status, StrobeEnds
    <3>2. mem.net \in {1, 2, 3} /\ g[1] = 2 /\ g[2] = 0 /\ g[3] = 1
      BY <3>1
    <3> QED BY <1>2, <1>4, <2>2, <3>1, <3>2 DEF Selecting
  <2>3. CASE p.dev = "data" /\ ~w
    <3>1. PICK g : g = <<5, 4, 1, 0, 2>> /\ mem.net \in DOMAIN g /\ n = g[mem.net] /\ e = 2
      BY <1>3, <2>3 DEF next_status, StrobeEnds
    <3>2. mem.net \in {1, 2, 3, 4, 5} /\ g[1] = 5 /\ g[2] = 4 /\ g[3] = 1 /\ g[4] = 0 /\ g[5] = 2
      BY <3>1
    <3> QED BY <1>2, <1>4, <2>3, <3>1, <3>2 DEF Selecting
  <2> QED BY <1>2, <2>1, <2>2, <2>3
<1> QED BY <1>2, <1>4, <1>5 DEF InAccess, Running, Drawn

-----------------------------------------------------------------------------
(* The steps of the CPU *)

OneStage(c, r, m, s) ==
    \/ Stage0(c, r, m, s) \/ Stage1(c, m, s) \/ Stage2(c, m, s) \/ Stage3(c, m, s)
    \/ Stage4(c, m, s) \/ Stage5(c, m, s) \/ Stage6(c, m, s) \/ Stage7(c, m, s)

\* The controller while no request is up.
LEMMA MemIdle ==
    ASSUME NEW busy \in BOOLEAN, MemStep(busy), cpu.condi # 0, cpu.req = "idle", NEW s, Quiet(mem, s)
    PROVE  Quiet(mem', s) /\ mem'.fx = mem.fx /\ mem'.bad = mem.bad /\ mem'.net = mem.net
<1>1. IsMem(mem)
  BY DEF Quiet
<1>2. mem' = mem \/ mem' = Released(mem)
  BY DEF MemStep
<1>3. CASE mem' = mem
  BY <1>3
<1>4. CASE mem' = Released(mem)
  <2>1. PICK x : x = mem'
    OBVIOUS
  <2>2. /\ IsMem(x) /\ ~x.ready /\ x.err = "no" /\ ~x.netOn /\ x.condi = -1
        /\ x.bad = mem.bad /\ x.data = mem.data /\ x.fx = mem.fx /\ x.vga = mem.vga /\ x.net = mem.net
    BY <1>1, <1>4, <2>1, ReleasedFields
  <2> QED BY <2>1, <2>2 DEF Quiet, Drawn
<1> QED BY <1>2, <1>3, <1>4

\* The controller when an instruction begins.
LEMMA MemStart ==
    ASSUME NEW busy \in BOOLEAN, MemStep(busy), cpu.condi = 0, NEW s, Quiet(mem, s)
    PROVE  Quiet(mem', s) /\ Clean(mem') /\ mem'.net = mem.net
<1>1. IsMem(mem)
  BY DEF Quiet
<1>2. PICK y : y = [mem EXCEPT !.fx = 0, !.bad = NoAddr, !.data = NoAddr]
  OBVIOUS
<1>3. /\ IsMem(y) /\ y.condi = mem.condi /\ (y.ready <=> mem.ready) /\ y.err = mem.err /\ y.vga = mem.vga
      /\ y.net = mem.net /\ (y.netOn <=> mem.netOn) /\ y.fx = 0 /\ y.bad = NoAddr
  BY <1>1, <1>2 DEF IsMem
<1>4. mem' = y \/ mem' = Released(y)
  BY <1>2 DEF MemStep
<1>5. CASE mem' = y
  BY <1>3, <1>5 DEF Quiet, Drawn, Clean
<1>6. CASE mem' = Released(y)
  <2>1. PICK x : x = mem'
    OBVIOUS
  <2>2. /\ IsMem(x) /\ ~x.ready /\ x.err = "no" /\ ~x.netOn /\ x.condi = -1
        /\ x.bad = y.bad /\ x.fx = y.fx /\ x.vga = y.vga /\ x.net = y.net
    BY <1>3, <1>6, <2>1, ReleasedFields
  <2> QED BY <1>3, <2>1, <2>2 DEF Quiet, Drawn, Clean
<1> QED BY <1>4, <1>5, <1>6

\* A request goes up.
LEMMA AccessBegins ==
    ASSUME NEW m, NEW s, Quiet(m, s), Clean(m), NEW p, NetAt(m, p), NEW w
    PROVE  InAccess(m, s, p, w)
BY DEF Quiet, Clean, InAccess, Waits

\* A step inside an instruction: nothing has happened yet for the programs.
LEMMA GoesOn ==
    ASSUME CpuInv, NEW busy \in BOOLEAN, Edge(busy), cpu'.condi # 0, IsCpu(cpu'), ~cpu.RegWrite,
           cpu'.EPC = cpu.EPC, cpu'.exl = cpu.exl, cpu'.um = cpu.um,
           cpu'.tlb = saved.tlb \/ (cpu'.condi = 3 /\ cpu'.IR.op = "TLBWI"),
           cpu'.condi > 1 => cpu'.PC = After(saved.pc),
           cpu'.RegWrite => cpu'.WriteData \in Addr,
           OneStage(cpu', reg', mem', saved)
    PROVE  CpuInv' /\ (I!Next \/ UNCHANGED I!vars)
<1>1. saved' = saved /\ event' = [kind |-> "none"] /\ reg' = IF cpu'.RegWrite /\ cpu'.IR.dst THEN cpu'.WriteData ELSE reg
  BY DEF Edge, History, RegStep
<1>2. Under(cpu, reg, saved) /\ (cpu.condi # 0 => event = [kind |-> "none"])
  BY DEF CpuInv
<1>3. Under(cpu', reg', saved')
  <2>1. reg = saved.reg
    BY <1>2 DEF Under
  <2> QED BY <1>1, <1>2, <2>1 DEF Under
<1>4. CpuInv'
  BY <1>1, <1>3 DEF CpuInv, OneStage
<1>5. UNCHANGED <<saved.pc, saved.epc, saved.reg, saved.exl, saved.um, saved.tlb, saved.fresh>>
  BY <1>1
<1>6. CASE event = [kind |-> "none"]
  BY <1>1, <1>4, <1>5, <1>6 DEF I!vars
<1>7. CASE event # [kind |-> "none"]
  BY <1>1, <1>4, <1>5, <1>7 DEF I!Next, I!Begin, I!Idle
<1> QED BY <1>4, <1>6, <1>7

\* A step that ends an instruction or an exception.
LEMMA Ended ==
    ASSUME CpuInv, NEW busy \in BOOLEAN, Edge(busy), cpu.condi # 0, cpu'.condi = 0, IsCpu(cpu'),
           cpu'.req = "idle", ~cpu'.RegWrite, cpu'.PC \in Addr, cpu'.EPC \in Addr,
           cpu'.exl \in BOOLEAN, cpu'.um \in BOOLEAN, reg \in Addr,
           IsMem(mem'), mem'.condi = -1, ~mem'.ready, mem'.err = "no", ~mem'.netOn, mem'.net \in {0, 3},
           mem'.vga \in {0, 1}
    PROVE  /\ CpuInv' /\ event = [kind |-> "none"] /\ event' = Report /\ reg' = reg
           /\ saved' = [pc |-> cpu'.PC, epc |-> cpu'.EPC, reg |-> reg, exl |-> cpu'.exl, um |-> cpu'.um,
                        tlb |-> cpu'.tlb, fresh |-> mem'.vga = 0]
<1>1. saved' = State' /\ event' = Report /\ reg' = reg
  BY DEF Edge, History, RegStep
<1>2. event = [kind |-> "none"]
  BY DEF CpuInv
<1>3. saved' = [pc |-> cpu'.PC, epc |-> cpu'.EPC, reg |-> reg', exl |-> cpu'.exl, um |-> cpu'.um,
                tlb |-> cpu'.tlb, fresh |-> mem'.vga = 0]
  BY <1>1 DEF State
<1>4. PICK z : z = saved'
  OBVIOUS
<1>5. /\ DOMAIN z = {"pc", "epc", "reg", "exl", "um", "tlb", "fresh"}
      /\ z.pc = cpu'.PC /\ z.epc = cpu'.EPC /\ z.reg = reg' /\ z.exl = cpu'.exl /\ z.um = cpu'.um
      /\ z.tlb = cpu'.tlb /\ z.fresh \in BOOLEAN /\ (z.fresh <=> mem'.vga = 0)
  BY <1>3, <1>4
<1>6. Under(cpu', reg', z)
  BY <1>1, <1>5 DEF Under
<1>7. Stage0(cpu', reg', mem', z)
  BY <1>1, <1>5 DEF Stage0, Quiet, Drawn
<1> QED BY <1>1, <1>2, <1>3, <1>4, <1>6, <1>7 DEF CpuInv

\* The register and the next instruction, as the program sees them.
RegAfter(v, i, a, s) ==
    /\ ~i.dst => v = s.reg
    /\ i.dst /\ i.op \in Loads => v = a
    /\ i.dst /\ i.op \in {"JAL", "JALR"} => v = After(s.pc)
    /\ v \in Addr
PcAfter(v, i, s) ==
    /\ i.op \notin {"B", "J", "JAL", "JR", "JALR", "ERET"} => v = After(s.pc)
    /\ i.op = "JR" /\ i.src => v = s.reg
    /\ i.op = "JALR" /\ i.src => v \in IF i.dst THEN {s.reg, After(s.pc)} ELSE {s.reg}
    /\ i.op = "ERET" => v = s.epc
    /\ v \in Addr

\* What an instruction i, with an access to p that reached its device fx times, makes of s.
Carried(i, p, fx, s, z) ==
    /\ DOMAIN z = {"pc", "epc", "reg", "exl", "um", "tlb", "fresh"}
    /\ i.op \in {"ERET", "MFC0", "MTC0", "TLBWI"} => ~(s.um /\ ~s.exl)
    /\ i.op \in Loads \cup Stores => Why(s, p.a, TRUE, i.op \in Stores) = "no"
    /\ fx \in IF i.op \in Loads \cup Stores THEN Strokes(i.op, p.dev, s) ELSE {0}
    /\ RegAfter(z.reg, i, p.a, s) /\ PcAfter(z.pc, i, s)
    /\ i.op # "MTC0" => z.epc = s.epc /\ z.um = s.um /\ z.exl = (s.exl /\ i.op # "ERET")
    /\ i.op # "TLBWI" => z.tlb = s.tlb
    /\ z.fresh = (s.fresh /\ p.dev # "vga")

LEMMA Executed ==
    ASSUME NEW i, i = cpu.IR, InstrOK(i, saved), cpu.condi # 7, event = [kind |-> "none"], event' = Report,
           NEW p, p = (IF i.op \in Loads \cup Stores THEN cpu.addr ELSE NoPlace),
           NEW z, z = saved', Carried(i, p, mem'.fx, saved, z)
    PROVE  I!Next
<1> USE DEF Carried
<1>1. PICK e : e = event'
  OBVIOUS
<1>2. /\ e.kind = "executed" /\ e.op = i.op /\ e.at = i.at /\ e.src = i.src /\ e.dst = i.dst
      /\ e.a = p.a /\ e.dev = p.dev /\ e.fx = mem'.fx
  BY <1>1 DEF Report, Is
<1>3. Why(saved, saved.pc, TRUE, FALSE) = "no" /\ i.at = saved.pc /\ i.dst \in BOOLEAN /\ i.src \in BOOLEAN
  BY DEF InstrOK
<1>4. \A a, al, w : I!Refused(a, al, w) = Why(saved, a, al, w)
  BY DEF I!Refused, I!User, Why
<1>5. I!Fetched
  BY <1>3, <1>4 DEF I!Fetched
<1>6. /\ ~e.dst => z.reg = saved.reg
      /\ (e.dst /\ e.op \in I!Loads) => z.reg = e.a
      /\ (e.dst /\ e.op \in {"JAL", "JALR"}) => z.reg = I!After(saved.pc)
      /\ z.reg \in I!Addr
  BY <1>2, <1>3 DEF RegAfter, I!Loads, Loads, I!After, After, I!Addr, Addr
<1>7. /\ e.op \notin {"B", "J", "JAL", "JR", "JALR", "ERET"} => z.pc = I!After(saved.pc)
      /\ (e.op = "JR" /\ e.src) => z.pc = saved.reg
      /\ (e.op = "JALR" /\ e.src) => z.pc \in IF e.dst THEN {saved.reg, I!After(saved.pc)} ELSE {saved.reg}
      /\ e.op = "ERET" => z.pc = saved.epc
      /\ z.pc \in I!Addr
  BY <1>2, <1>3 DEF PcAfter, I!After, After, I!Addr, Addr
<1>8. e.fx \in IF e.op \in I!Loads \cup I!Stores THEN I!Reaches(e) ELSE {0}
  BY <1>2 DEF I!Loads, Loads, I!Stores, Stores, I!Reaches, Strokes
<1>9. e.op \in I!Privileged => ~I!User
  BY <1>2 DEF I!Privileged, I!User
<1>10. e.op \in I!Loads \cup I!Stores => I!Refused(e.a, TRUE, e.op \in I!Stores) = "no"
  BY <1>2, <1>4 DEF I!Loads, Loads, I!Stores, Stores
<1>11. /\ e.op = "MTC0" \/ (e.op # "MTC0" /\ z.epc = saved.epc /\ z.um = saved.um
                               /\ z.exl = (saved.exl /\ e.op # "ERET"))
       /\ e.op # "TLBWI" => z.tlb = saved.tlb
       /\ z.fresh = (saved.fresh /\ e.dev # "vga")
  BY <1>2
<1>12. e.kind = "executed" /\ e.at = saved.pc
  BY <1>2, <1>3
<1>13. I!Execute
  <2>1. event'.kind = "executed" /\ event'.at = saved.pc
    BY <1>1, <1>12
  <2>2. /\ (event'.op \in I!Privileged) => ~I!User
        /\ (event'.op \in I!Loads \cup I!Stores) => I!Refused(event'.a, TRUE, event'.op \in I!Stores) = "no"
        /\ event'.fx \in IF event'.op \in I!Loads \cup I!Stores THEN I!Reaches(event') ELSE {0}
    BY <1>1, <1>8, <1>9, <1>10
  <2>3. /\ ~event'.dst => saved'.reg = saved.reg
        /\ (event'.dst /\ event'.op \in I!Loads) => saved'.reg = event'.a
        /\ (event'.dst /\ event'.op \in {"JAL", "JALR"}) => saved'.reg = I!After(saved.pc)
        /\ saved'.reg \in I!Addr
    BY <1>1, <1>6
  <2>4. /\ event'.op \notin {"B", "J", "JAL", "JR", "JALR", "ERET"} => saved'.pc = I!After(saved.pc)
        /\ (event'.op = "JR" /\ event'.src) => saved'.pc = saved.reg
        /\ (event'.op = "JALR" /\ event'.src) =>
              saved'.pc \in IF event'.dst THEN {saved.reg, I!After(saved.pc)} ELSE {saved.reg}
        /\ event'.op = "ERET" => saved'.pc = saved.epc
        /\ saved'.pc \in I!Addr
    BY <1>1, <1>7
  <2>5. /\ event'.op = "MTC0" \/ (event'.op # "MTC0" /\ saved'.epc = saved.epc /\ saved'.um = saved.um
                               /\ saved'.exl = (saved.exl /\ event'.op # "ERET"))
        /\ event'.op # "TLBWI" => saved'.tlb = saved.tlb
        /\ saved'.fresh = (saved.fresh /\ event'.dev # "vga")
    BY <1>1, <1>11
  <2> QED BY <1>5, <2>1, <2>2, <2>3, <2>4, <2>5 DEF I!Execute
<1> QED BY <1>13 DEF I!Next, I!Idle

\* c and m are what the instruction i, with an access to p, leaves behind.
Does(i, p, c, m) ==
    /\ m.vga = IF saved.fresh /\ p.dev # "vga" THEN 0 ELSE 1
    /\ i.op \in {"ERET", "MFC0", "MTC0", "TLBWI"} => ~(saved.um /\ ~saved.exl)
    /\ i.op \in Loads \cup Stores => Why(saved, p.a, TRUE, i.op \in Stores) = "no"
    /\ m.fx \in IF i.op \in Loads \cup Stores THEN Strokes(i.op, p.dev, saved) ELSE {0}
    /\ RegAfter(reg, i, p.a, saved) /\ PcAfter(c.PC, i, saved)
    /\ i.op # "MTC0" => c.EPC = saved.epc /\ c.um = saved.um /\ c.exl = (saved.exl /\ i.op # "ERET")
    /\ i.op # "TLBWI" => c.tlb = saved.tlb

\* An instruction ends and has been carried out.
LEMMA Completed ==
    ASSUME CpuInv, NEW busy \in BOOLEAN, Edge(busy), cpu.condi \notin {0, 7}, cpu'.condi = 0, IsCpu(cpu'),
           cpu'.req = "idle", ~cpu'.RegWrite, cpu'.EPC \in Addr, cpu'.exl \in BOOLEAN, cpu'.um \in BOOLEAN,
           IsMem(mem'), mem'.condi = -1, ~mem'.ready, mem'.err = "no", ~mem'.netOn, mem'.net \in {0, 3},
           NEW i, i = cpu.IR, InstrOK(i, saved),
           NEW p, p = (IF i.op \in Loads \cup Stores THEN cpu.addr ELSE NoPlace),
           Does(i, p, cpu', mem')
    PROVE  CpuInv' /\ (I!Next \/ UNCHANGED I!vars)
<1> USE DEF Does
<1>1. cpu'.PC \in Addr /\ reg \in Addr /\ mem'.vga \in {0, 1} /\ saved.fresh \in BOOLEAN
  BY DEF PcAfter, RegAfter, CpuInv, Under
<1>2. /\ CpuInv' /\ event = [kind |-> "none"] /\ event' = Report
      /\ saved' = [pc |-> cpu'.PC, epc |-> cpu'.EPC, reg |-> reg, exl |-> cpu'.exl, um |-> cpu'.um,
                   tlb |-> cpu'.tlb, fresh |-> mem'.vga = 0]
  BY <1>1, Ended
<1>3. PICK z : z = saved'
  OBVIOUS
<1>4. /\ DOMAIN z = {"pc", "epc", "reg", "exl", "um", "tlb", "fresh"}
      /\ z.pc = cpu'.PC /\ z.epc = cpu'.EPC /\ z.reg = reg /\ z.exl = cpu'.exl /\ z.um = cpu'.um
      /\ z.tlb = cpu'.tlb /\ z.fresh = (mem'.vga = 0)
  BY <1>2, <1>3
<1>5. z.fresh = (saved.fresh /\ p.dev # "vga")
  BY <1>1, <1>4
<1>6. /\ RegAfter(z.reg, i, p.a, saved) /\ PcAfter(z.pc, i, saved)
      /\ i.op # "MTC0" => z.epc = saved.epc /\ z.um = saved.um /\ z.exl = (saved.exl /\ i.op # "ERET")
      /\ i.op # "TLBWI" => z.tlb = saved.tlb
  BY <1>4
<1>7. Carried(i, p, mem'.fx, saved, z)
  BY <1>4, <1>5, <1>6 DEF Carried
<1>8. I!Next
  BY <1>2, <1>3, <1>7, Executed
<1> QED BY <1>2, <1>8

\* The same for an instruction that is neither a load nor a store.
LEMMA Finished ==
    ASSUME CpuInv, NEW busy \in BOOLEAN, Edge(busy), cpu.condi \notin {0, 7}, cpu'.condi = 0, IsCpu(cpu'),
           cpu'.req = "idle", ~cpu'.RegWrite, cpu'.EPC \in Addr, cpu'.exl \in BOOLEAN, cpu'.um \in BOOLEAN,
           Quiet(mem', saved), mem'.fx = 0, InstrOK(cpu.IR, saved), cpu.IR.op \notin Loads \cup Stores,
           cpu.IR.op \in {"ERET", "MFC0", "MTC0", "TLBWI"} => ~(saved.um /\ ~saved.exl),
           RegAfter(reg, cpu.IR, NoAddr, saved), PcAfter(cpu'.PC, cpu.IR, saved),
           cpu.IR.op # "MTC0" =>
               cpu'.EPC = saved.epc /\ cpu'.um = saved.um /\ cpu'.exl = (saved.exl /\ cpu.IR.op # "ERET"),
           cpu.IR.op # "TLBWI" => cpu'.tlb = saved.tlb
    PROVE  CpuInv' /\ (I!Next \/ UNCHANGED I!vars)
<1>1. PICK i, p : i = cpu.IR /\ p = NoPlace
  OBVIOUS
<1>2. p.a = NoAddr /\ p.dev = "ram"
  BY <1>1 DEF NoPlace
<1>3. p = (IF i.op \in Loads \cup Stores THEN cpu.addr ELSE NoPlace)
  BY <1>1
<1>4. /\ IsMem(mem') /\ mem'.condi = -1 /\ ~mem'.ready /\ mem'.err = "no" /\ ~mem'.netOn /\ mem'.net \in {0, 3}
      /\ mem'.vga = (IF saved.fresh /\ p.dev # "vga" THEN 0 ELSE 1)
  BY <1>2 DEF Quiet, Drawn
<1>5. /\ RegAfter(reg, i, p.a, saved) /\ PcAfter(cpu'.PC, i, saved) /\ i.op \notin Loads \cup Stores
      /\ mem'.fx \in IF i.op \in Loads \cup Stores THEN Strokes(i.op, p.dev, saved) ELSE {0}
      /\ i.op \in {"ERET", "MFC0", "MTC0", "TLBWI"} => ~(saved.um /\ ~saved.exl)
      /\ i.op # "MTC0" => cpu'.EPC = saved.epc /\ cpu'.um = saved.um /\ cpu'.exl = (saved.exl /\ i.op # "ERET")
      /\ i.op # "TLBWI" => cpu'.tlb = saved.tlb
      /\ InstrOK(i, saved)
  BY <1>1, <1>2
<1>6. Does(i, p, cpu', mem') /\ InstrOK(i, saved)
  BY <1>4, <1>5 DEF Does
<1> QED BY <1>1, <1>3, <1>4, <1>6, Completed

LEMMA DoneFields ==
    ASSUME IsCpu(cpu), NEW c, c = Done
    PROVE  /\ IsCpu(c) /\ c.condi = 0 /\ c.PC = cpu.PC /\ c.EPC = cpu.EPC /\ c.exl = cpu.exl /\ c.um = cpu.um
           /\ c.tlb = cpu.tlb /\ (c.RegWrite <=> cpu.RegWrite) /\ c.req = cpu.req
BY DEF IsCpu, Done

\* Quick facts about the state in the middle of an instruction.
LEMMA Middle ==
    ASSUME CpuInv
    PROVE  /\ OneStage(cpu, reg, mem, saved)
           /\ IsCpu(cpu) /\ reg \in Addr /\ saved.reg \in Addr /\ saved.pc \in Addr /\ saved.epc \in Addr
           /\ saved.fresh \in BOOLEAN /\ saved.exl \in BOOLEAN /\ saved.um \in BOOLEAN
           /\ cpu.EPC = saved.epc /\ cpu.exl = saved.exl /\ cpu.um = saved.um
           /\ cpu.condi > 1 => cpu.PC = After(saved.pc)
           /\ cpu.tlb = saved.tlb \/ (cpu.condi = 3 /\ cpu.IR.op = "TLBWI")
           /\ After(saved.pc) \in Addr /\ Before(After(saved.pc)) = saved.pc
<1>1. saved.pc \in Addr
  BY DEF CpuInv, Under
<1> QED BY <1>1, Arithmetic DEF CpuInv, Under, OneStage

-----------------------------------------------------------------------------
(* One lemma per value of condi *)

\* Step 0: the fetch begins, or the interrupt is taken.
LEMMA FromStage0 ==
    ASSUME CpuInv, NEW busy \in BOOLEAN, Edge(busy), cpu.condi = 0
    PROVE  CpuInv' /\ (I!Next \/ UNCHANGED I!vars)
<1>1. Stage0(cpu, reg, mem, saved)
  BY Middle DEF OneStage, Stage1, Stage2, Stage3, Stage4, Stage5, Stage6, Stage7
<1>2. Quiet(mem', saved) /\ Clean(mem') /\ mem'.net = mem.net
  BY <1>1, MemStart DEF Stage0, Edge
<1>3. CASE Interrupt
  <2>1. ~cpu.exl /\ cpu' = [cpu EXCEPT !.exc = "Int", !.PC = After(@), !.condi = 7]
    BY <1>3 DEF Interrupt
  <2>2. PICK c : c = cpu'
    OBVIOUS
  <2>3. /\ IsCpu(c) /\ c.exc = "Int" /\ c.PC = After(cpu.PC) /\ c.condi = 7 /\ c.req = cpu.req
        /\ (c.RegWrite <=> cpu.RegWrite) /\ c.EPC = cpu.EPC /\ c.exl = cpu.exl /\ c.um = cpu.um /\ c.tlb = cpu.tlb
    BY <2>1, <2>2, Middle DEF IsCpu
  <2>4. Stage7(c, mem', saved)
    BY <1>1, <1>2, <2>1, <2>3, Middle DEF Stage7, Stage0, Clean, Cause
  <2> QED BY <1>1, <2>2, <2>3, <2>4, Middle, GoesOn DEF Stage0, OneStage
<1>4. CASE Fetch
  <2>1. PICK p \in Places("fetch", cpu.PC) : cpu' = [cpu EXCEPT !.req = "read", !.addr = p, !.condi = 1]
    BY <1>4 DEF Fetch
  <2>2. PICK c : c = cpu'
    OBVIOUS
  <2>3. /\ IsCpu(c) /\ c.addr = p /\ c.PC = cpu.PC /\ c.condi = 1 /\ c.req = "read"
        /\ (c.RegWrite <=> cpu.RegWrite) /\ c.EPC = cpu.EPC /\ c.exl = cpu.exl /\ c.um = cpu.um /\ c.tlb = cpu.tlb
    BY <2>1, <2>2, Middle DEF IsCpu
  <2>4. PlaceOK("fetch", p) /\ p.a = saved.pc
    <3>1. p.a = saved.pc /\ p.aligned
      BY <1>1, <2>1 DEF Places, Stage0
    <3>2. p.dev = "ram" \/ (p.a \in IO /\ p.dev \in Devices /\ Asks("fetch", p.dev))
      BY <2>1 DEF Places
    <3>3. p.dev \in {"ram", "none", "flash", "rom"} /\ (p.dev # "ram" => p.a \in IO)
      BY <3>2 DEF Asks, Devices
    <3> QED BY <3>1, <3>3, Middle DEF PlaceOK, Devices
  <2>5. Stage1(c, mem', saved)
    <3>1. NetAt(mem', p)
      BY <2>4 DEF PlaceOK, NetAt
    <3>2. InAccess(mem', saved, p, FALSE)
      BY <1>2, <3>1, AccessBegins
    <3> QED BY <1>1, <2>3, <2>4, <3>2 DEF Stage1, Stage0
  <2> QED BY <1>1, <2>2, <2>3, <2>5, Middle, GoesOn DEF Stage0, OneStage
<1> QED BY <1>3, <1>4 DEF Edge, Step

\* The exception codes of cpu.vhd for the controller's answers.
LEMMA FaultCode ==
    ASSUME NEW s, NEW p, p.a \in Addr, p.dev # "ram" => p.a \in IO, NEW store \in BOOLEAN,
           \/ mem.err = Why(s, p.a, p.aligned, store) /\ mem.err # "no"
           \/ p.dev = "none" /\ Why(s, p.a, p.aligned, store) = "no" /\ mem.err = "address",
           NEW e, e = ErrorCode(store)
    PROVE  Faults(e, p.a, s, p.a, p.aligned, store)
<1>1. PICK why : why = Why(s, p.a, p.aligned, store)
  OBVIOUS
<1>2. CASE mem.err = why /\ mem.err # "no"
  <2>1. why \in {"address", "miss", "modified"} /\ (why = "modified" => store)
    BY <1>1, <1>2 DEF Why
  <2>2. CASE why = "address"
    <3>1. e = IF store THEN "AdES" ELSE "AdEL"
      BY <1>2, <2>2 DEF ErrorCode
    <3> QED BY <1>1, <2>2, <3>1 DEF Faults
  <2>3. CASE why = "miss"
    <3>1. e = IF store THEN "TLBS" ELSE "TLBL"
      BY <1>2, <2>3 DEF ErrorCode
    <3> QED BY <1>1, <2>3, <3>1 DEF Faults
  <2>4. CASE why = "modified"
    <3>1. e = "Mod"
      BY <1>2, <2>1, <2>4 DEF ErrorCode
    <3> QED BY <1>1, <2>4, <3>1 DEF Faults
  <2> QED BY <2>1, <2>2, <2>3, <2>4
<1>3. CASE p.dev = "none" /\ why = "no" /\ mem.err = "address"
  <2>1. e = IF store THEN "AdES" ELSE "AdEL"
    BY <1>3 DEF ErrorCode
  <2> QED BY <1>1, <1>3, <2>1 DEF Faults
<1> QED BY <1>1, <1>2, <1>3

\* A clock of the controller while a request is up and stays up, or is taken back.
LEMMA MemBusy ==
    ASSUME NEW busy \in BOOLEAN, MemStep(busy), cpu.condi # 0, cpu.req # "idle"
    PROVE  mem' = IF cpu'.req = "idle" THEN Released(Access(busy)) ELSE Access(busy)
BY DEF MemStep

\* Step 1: the word of the instruction arrives, or it cannot be read.
LEMMA FromStage1 ==
    ASSUME CpuInv, NEW busy \in BOOLEAN, Edge(busy), cpu.condi = 1
    PROVE  CpuInv' /\ (I!Next \/ UNCHANGED I!vars)
<1>1. Stage1(cpu, mem, saved)
  BY Middle DEF OneStage, Stage0, Stage2, Stage3, Stage4, Stage5, Stage6, Stage7
<1>2. PICK p, x : p = cpu.addr /\ x = Access(busy)
  OBVIOUS
<1>3. /\ cpu.req = "read" /\ ~cpu.RegWrite /\ cpu.PC = saved.pc /\ PlaceOK("fetch", p) /\ p.a = saved.pc
      /\ InAccess(mem, saved, p, FALSE) /\ p.aligned
      /\ p.dev \notin {"sector", "vga", "com", "index", "data", "state"}
  BY <1>1, <1>2 DEF Stage1, PlaceOK
<1>4. MemStep(busy) /\ Fetched
  BY DEF Edge, Step
<1>5. mem' = IF cpu'.req = "idle" THEN Released(x) ELSE x
  BY <1>2, <1>3, <1>4, MemBusy
<1>6. /\ saved.fresh \in BOOLEAN /\ cpu.um = saved.um /\ cpu.exl = saved.exl /\ cpu.tlb = saved.tlb
      /\ IsCpu(cpu) /\ cpu.EPC = saved.epc
  BY Middle
<1>7. CASE ~mem.ready
  <2>1. cpu' = cpu
    BY <1>4, <1>7 DEF Fetched
  <2>2. mem' = x
    BY <1>3, <1>5, <2>1
  <2>3. InAccess(x, saved, p, FALSE)
    <3>1. PICK w \in BOOLEAN : ~w /\ w = (cpu.req = "write")
      BY <1>3
    <3>2. Asked("fetch", p, w, saved) /\ InAccess(mem, saved, p, w)
      BY <1>2, <1>3, <1>6, <3>1 DEF Asked
    <3>3. InAccess(x, saved, p, w)
      BY <1>2, <1>7, <3>2, AccessStep
    <3> QED BY <3>1, <3>3
  <2>4. Stage1(cpu', mem', saved)
    BY <1>1, <1>2, <2>1, <2>2, <2>3 DEF Stage1
  <2> QED BY <1>3, <1>6, <2>1, <2>4, GoesOn DEF OneStage
<1>8. CASE mem.ready
  <2>1. cpu'.req = "idle"
    <3>1. CASE mem.err # "no"
      BY <1>4, <1>6, <1>8, <3>1 DEF Fetched, IsCpu
    <3>2. CASE mem.err = "no"
      BY <1>4, <1>6, <1>8, <3>2 DEF Fetched, IsCpu
    <3> QED BY <3>1, <3>2
  <2>2. PICK z : z = Released(x) /\ mem' = z
    BY <1>5, <2>1
  <2>3. Over(z, p, FALSE, saved)
    <3>1. PICK w \in BOOLEAN : ~w /\ w = (cpu.req = "write")
      BY <1>3
    <3>2. Asked("fetch", p, w, saved) /\ InAccess(mem, saved, p, w)
      BY <1>2, <1>3, <1>6, <3>1 DEF Asked
    <3>3. Over(z, p, w, saved)
      BY <1>2, <1>8, <2>2, <3>2, AccessEnds
    <3> QED BY <3>1, <3>3
  <2>4. CASE mem.err # "no"
    <3>1. PICK c, e : c = cpu' /\ e = ErrorCode(FALSE)
      OBVIOUS
    <3>2. /\ IsCpu(c) /\ c.PC = After(cpu.PC) /\ c.req = "idle" /\ c.exc = e /\ c.condi = 7
          /\ (c.RegWrite <=> cpu.RegWrite) /\ c.EPC = cpu.EPC /\ c.exl = cpu.exl /\ c.um = cpu.um
          /\ c.tlb = cpu.tlb
      BY <1>4, <1>6, <1>8, <2>4, <3>1 DEF Fetched, IsCpu
    <3>3. Faults(e, p.a, saved, p.a, p.aligned, FALSE)
      BY <1>3, <2>3, <2>4, <3>1, FaultCode DEF PlaceOK, Over
    <3>4. Faults(e, saved.pc, saved, saved.pc, TRUE, FALSE)
      BY <1>3, <3>3 DEF Faults, Why
    <3>5. Stage7(c, mem', saved)
      BY <1>3, <2>2, <2>3, <2>4, <3>2, <3>4 DEF Stage7, Quiet, Cause, Over
    <3> QED BY <1>3, <1>6, <3>1, <3>2, <3>5, GoesOn DEF OneStage
  <2>5. CASE mem.err = "no"
    <3>1. PICK i \in Instr(mem.data) :
             cpu' = [cpu EXCEPT !.PC = After(@), !.req = "idle", !.IR = i, !.condi = 2]
      BY <1>4, <1>8, <2>5 DEF Fetched
    <3>2. PICK c : c = cpu'
      OBVIOUS
    <3>3. /\ IsCpu(c) /\ c.PC = After(cpu.PC) /\ c.req = "idle" /\ c.IR = i /\ c.condi = 2
          /\ (c.RegWrite <=> cpu.RegWrite) /\ c.EPC = cpu.EPC /\ c.exl = cpu.exl /\ c.um = cpu.um
          /\ c.tlb = cpu.tlb
      BY <1>6, <3>1, <3>2 DEF IsCpu
    <3>4. z.fx = 0 /\ Drawn(z, saved)
      BY <1>3, <2>3, <2>5 DEF Final, PlaceOK, Devices, Over
    <3>5. Quiet(mem', saved) /\ Clean(mem')
      BY <2>2, <2>3, <2>5, <3>4 DEF Quiet, Clean, Over
    <3>6. InstrOK(i, saved)
      <4>1. mem.data = saved.pc /\ Why(saved, saved.pc, TRUE, FALSE) = "no"
        BY <1>3, <2>3, <2>5 DEF Why, Over
      <4>2. /\ i.op \in Op /\ i.dst \in BOOLEAN /\ i.src \in BOOLEAN /\ i.at = mem.data
            /\ (i.dst => i.op \in Writers) /\ (i.src => i.op \in {"JR", "JALR"})
        BY <3>1 DEF Instr
      <4> QED BY <4>1, <4>2 DEF InstrOK
    <3>7. Stage2(c, mem', saved)
      BY <1>3, <3>3, <3>5, <3>6 DEF Stage2
    <3> QED BY <1>3, <1>6, <3>2, <3>3, <3>7, GoesOn DEF OneStage
  <2> QED BY <2>4, <2>5
<1> QED BY <1>7, <1>8

\* Step 2: an instruction that needs no further step ends.
LEMMA Ends2 ==
    ASSUME CpuInv, NEW busy \in BOOLEAN, Edge(busy), Stage2(cpu, mem, saved),
           cpu.IR.op \in {"MT", "JR", "B", "J", "ERET", "MFC0", "MTC0", "CACHE"},
           NEW c, c = cpu', NEW d, d = Done,
           IsCpu(c), c.condi = d.condi, c.RegWrite <=> d.RegWrite, c.req = d.req, c.tlb = d.tlb,
           PcAfter(c.PC, cpu.IR, saved), c.EPC \in Addr, c.exl \in BOOLEAN, c.um \in BOOLEAN,
           cpu.IR.op # "MTC0" => c.EPC = cpu.EPC /\ c.um = cpu.um /\ c.exl = (cpu.exl /\ cpu.IR.op # "ERET"),
           cpu.IR.op \in {"ERET", "MFC0", "MTC0"} => ~User
    PROVE  CpuInv' /\ (I!Next \/ UNCHANGED I!vars)
<1>1. /\ cpu.condi = 2 /\ cpu.req = "idle" /\ ~cpu.RegWrite /\ Quiet(mem, saved) /\ Clean(mem)
      /\ InstrOK(cpu.IR, saved)
  BY DEF Stage2
<1>2. Quiet(mem', saved) /\ mem'.fx = 0
  BY <1>1, MemIdle DEF Edge, Clean
<1>3. c.condi = 0 /\ c.req = "idle" /\ ~c.RegWrite /\ c.tlb = saved.tlb
  BY <1>1, DoneFields, Middle
<1>4. RegAfter(reg, cpu.IR, NoAddr, saved)
  BY <1>1, Middle DEF RegAfter, CpuInv, Under, Loads
<1>5. cpu.IR.op \notin Loads \cup Stores /\ cpu.IR.op # "TLBWI"
  BY DEF Loads, Stores
<1>6. cpu.IR.op \in {"ERET", "MFC0", "MTC0", "TLBWI"} => ~(saved.um /\ ~saved.exl)
  BY <1>5, Middle DEF User
<1>7. cpu.IR.op # "MTC0" =>
          c.EPC = saved.epc /\ c.um = saved.um /\ c.exl = (saved.exl /\ cpu.IR.op # "ERET")
  BY Middle
<1> QED BY <1>1, <1>2, <1>3, <1>4, <1>5, <1>6, <1>7, Finished

\* Step 2: an instruction that goes on.
LEMMA On2 ==
    ASSUME CpuInv, NEW busy \in BOOLEAN, Edge(busy), Stage2(cpu, mem, saved),
           NEW c, c = cpu', IsCpu(c), c.condi = 3, c.IR = cpu.IR, c.req = "idle", c.PC = cpu.PC,
           c.EPC = cpu.EPC, c.exl = cpu.exl, c.um = cpu.um, c.IR.op # "TLBWI" => c.tlb = cpu.tlb,
           c.IR.op \in Writers \cup Stores \cup {"MULT", "TLBWI"},
           c.IR.op \in {"MFC0", "TLBWI"} => ~User,
           IF c.IR.op \in {"MF", "MFC0", "JAL", "JALR"}
               THEN c.RegWrite /\ c.WriteData \in Addr /\ Wrote(c.IR, c.WriteData, saved) ELSE ~c.RegWrite,
           c.IR.op \in {"ALU", "ALUI"} => c.alu \in Addr,
           c.IR.op \in Loads \cup Stores => PlaceOK(c.IR.op, c.alu) /\ NetAt(mem, c.alu)
    PROVE  CpuInv' /\ (I!Next \/ UNCHANGED I!vars)
<1>1. /\ cpu.condi = 2 /\ cpu.req = "idle" /\ ~cpu.RegWrite /\ Quiet(mem, saved) /\ Clean(mem)
      /\ InstrOK(cpu.IR, saved)
  BY DEF Stage2
<1>2. Quiet(mem', saved) /\ Clean(mem') /\ mem'.net = mem.net
  BY <1>1, MemIdle DEF Edge, Clean
<1>3. NetAt(mem, c.alu) => NetAt(mem', c.alu)
  BY <1>2 DEF NetAt
<1>4. c.IR.op \in {"MFC0", "TLBWI"} => ~(saved.um /\ ~saved.exl)
  BY Middle DEF User
<1>5. Stage3(c, mem', saved)
  BY <1>1, <1>2, <1>3, <1>4 DEF Stage3
<1>6. OneStage(c, reg', mem', saved)
  BY <1>5 DEF OneStage
<1>7. c.RegWrite => c.WriteData \in Addr
  OBVIOUS
<1>8. c.tlb = saved.tlb \/ (c.condi = 3 /\ c.IR.op = "TLBWI")
  BY <1>1, Middle
<1>9. c.condi > 1 => c.PC = After(saved.pc)
  BY <1>1, Middle
<1> QED BY <1>1, <1>6, <1>7, <1>8, <1>9, GoesOn

\* Step 2: the exceptions of the instruction itself.
LEMMA Raise2 ==
    ASSUME CpuInv, NEW busy \in BOOLEAN, Edge(busy), Stage2(cpu, mem, saved),
           NEW code, Raise(code), code \in {"Sys", "RI"} \/ (code = "CpU" /\ User)
    PROVE  CpuInv' /\ (I!Next \/ UNCHANGED I!vars)
<1>1. /\ cpu.condi = 2 /\ cpu.req = "idle" /\ ~cpu.RegWrite /\ Quiet(mem, saved) /\ Clean(mem)
      /\ InstrOK(cpu.IR, saved)
  BY DEF Stage2
<1>2. Quiet(mem', saved) /\ mem'.fx = 0 /\ mem'.bad = NoAddr
  BY <1>1, MemIdle DEF Edge, Clean
<1>3. PICK c : c = cpu'
  OBVIOUS
<1>4. /\ IsCpu(c) /\ c.exc = code /\ c.condi = 7 /\ c.PC = cpu.PC /\ c.req = "idle"
      /\ (c.RegWrite <=> cpu.RegWrite) /\ c.EPC = cpu.EPC /\ c.exl = cpu.exl /\ c.um = cpu.um
      /\ c.tlb = cpu.tlb
  BY <1>1, <1>3, Middle DEF Raise, IsCpu
<1>5. Cause(code, NoAddr, saved)
  BY <1>1, Middle DEF InstrOK, Cause, User
<1>6. Stage7(c, mem', saved)
  BY <1>1, <1>2, <1>4, <1>5 DEF Stage7
<1> QED BY <1>1, <1>3, <1>4, <1>6, Middle, GoesOn DEF OneStage

\* What the assignments of steps 2 and 3 leave alone.
LEMMA WriteRegFields ==
    ASSUME NEW v, NEW n, WriteReg(v, n), IsCpu(cpu), NEW c, c = cpu'
    PROVE  /\ IsCpu(c) /\ c.RegWrite /\ c.WriteData = v /\ c.condi = n /\ c.IR = cpu.IR /\ c.PC = cpu.PC
           /\ c.req = cpu.req /\ c.EPC = cpu.EPC /\ c.exl = cpu.exl /\ c.um = cpu.um /\ c.tlb = cpu.tlb
BY DEF WriteReg, IsCpu

\* An instruction ends with another PC.
Jumped(t) == [Done EXCEPT !.PC = t]

LEMMA JumpedFields ==
    ASSUME IsCpu(cpu), NEW d, d = Done, NEW t, NEW c, c = Jumped(t)
    PROVE  /\ IsCpu(c) /\ c.condi = d.condi /\ (c.RegWrite <=> d.RegWrite) /\ c.req = d.req /\ c.tlb = d.tlb
           /\ c.PC = t /\ c.EPC = cpu.EPC /\ c.exl = cpu.exl /\ c.um = cpu.um
BY DEF Done, Jumped, IsCpu

\* Step 2, the instruction is decoded: opcode 000000.
LEMMA Special2 ==
    ASSUME CpuInv, NEW busy \in BOOLEAN, Edge(busy), cpu.condi = 2, Stage2(cpu, mem, saved), Special
    PROVE  CpuInv' /\ (I!Next \/ UNCHANGED I!vars)
<1>1. /\ IsCpu(cpu) /\ cpu.req = "idle" /\ ~cpu.RegWrite /\ InstrOK(cpu.IR, saved) /\ reg = saved.reg
      /\ reg \in Addr /\ cpu.PC \in Addr /\ cpu.PC = After(saved.pc) /\ cpu.EPC = saved.epc
      /\ cpu.exl = saved.exl /\ cpu.um = saved.um
      /\ saved.epc \in Addr /\ saved.exl \in BOOLEAN /\ saved.um \in BOOLEAN
  BY Middle DEF Stage2, CpuInv, Under
<1>2. PICK c, d : c = cpu' /\ d = Done
  OBVIOUS
<1>3. CASE Is({"ALU"}) /\ \E v \in Addr : cpu' = [cpu EXCEPT !.alu = v, !.condi = 3]
  <2>1. PICK v \in Addr : cpu' = [cpu EXCEPT !.alu = v, !.condi = 3]
    BY <1>3
  <2>2. /\ IsCpu(c) /\ c.condi = 3 /\ c.IR = cpu.IR /\ c.req = "idle" /\ c.PC = cpu.PC
        /\ c.EPC = cpu.EPC /\ c.exl = cpu.exl /\ c.um = cpu.um /\ c.tlb = cpu.tlb /\ ~c.RegWrite /\ c.alu = v
    BY <1>1, <1>2, <2>1 DEF IsCpu
  <2>3. c.IR.op = "ALU"
    BY <1>3, <2>2 DEF Is
  <2> QED BY <1>2, <2>2, <2>3, On2 DEF Writers, Loads, Stores
<1>4. CASE Is({"MULT"}) /\ cpu' = [cpu EXCEPT !.mult = 0, !.condi = 3]
  <2>2. /\ IsCpu(c) /\ c.condi = 3 /\ c.IR = cpu.IR /\ c.req = "idle" /\ c.PC = cpu.PC
        /\ c.EPC = cpu.EPC /\ c.exl = cpu.exl /\ c.um = cpu.um /\ c.tlb = cpu.tlb /\ ~c.RegWrite
    BY <1>1, <1>2, <1>4 DEF IsCpu
  <2>3. c.IR.op = "MULT"
    BY <1>4, <2>2 DEF Is
  <2> QED BY <1>2, <2>2, <2>3, On2 DEF Writers, Loads, Stores
<1>5. CASE Is({"MF"}) /\ \E v \in Addr : WriteReg(v, 3)
  <2>1. PICK v \in Addr : WriteReg(v, 3)
    BY <1>5
  <2>2. /\ IsCpu(c) /\ c.RegWrite /\ c.WriteData = v /\ c.condi = 3 /\ c.IR = cpu.IR /\ c.PC = cpu.PC
        /\ c.req = cpu.req /\ c.EPC = cpu.EPC /\ c.exl = cpu.exl /\ c.um = cpu.um /\ c.tlb = cpu.tlb
    BY <1>1, <1>2, <2>1, WriteRegFields
  <2>3. c.IR.op = "MF" /\ Wrote(c.IR, c.WriteData, saved)
    BY <1>5, <2>2 DEF Is, Wrote
  <2> QED BY <1>1, <1>2, <2>2, <2>3, On2 DEF Writers, Loads, Stores
<1>6. CASE Is({"MT"}) /\ cpu' = Done
  <2>1. /\ IsCpu(c) /\ c.PC = cpu.PC /\ c.EPC = cpu.EPC /\ c.exl = cpu.exl /\ c.um = cpu.um
    BY <1>1, <1>2, <1>6, DoneFields
  <2>2. cpu.IR.op = "MT" /\ c = d
    BY <1>2, <1>6 DEF Is
  <2>3. PcAfter(c.PC, cpu.IR, saved)
    BY <1>1, <2>1, <2>2 DEF PcAfter
  <2> QED BY <1>1, <1>2, <2>1, <2>2, <2>3, Ends2
<1>7. CASE Is({"JALR"}) /\ WriteReg(cpu.PC, 3)
  <2>2. /\ IsCpu(c) /\ c.RegWrite /\ c.WriteData = cpu.PC /\ c.condi = 3 /\ c.IR = cpu.IR /\ c.PC = cpu.PC
        /\ c.req = cpu.req /\ c.EPC = cpu.EPC /\ c.exl = cpu.exl /\ c.um = cpu.um /\ c.tlb = cpu.tlb
    BY <1>1, <1>2, <1>7, WriteRegFields
  <2>3. c.IR.op = "JALR" /\ Wrote(c.IR, c.WriteData, saved)
    BY <1>1, <1>7, <2>2 DEF Is, Wrote
  <2> QED BY <1>1, <1>2, <2>2, <2>3, On2 DEF Writers, Loads, Stores
<1>8. CASE Is({"JR"}) /\ \E t \in IF cpu.IR.src THEN {reg} ELSE Addr : cpu' = [Done EXCEPT !.PC = t]
  <2>1. PICK t : t \in (IF cpu.IR.src THEN {reg} ELSE Addr) /\ cpu' = [Done EXCEPT !.PC = t]
    BY <1>8
  <2>5. c = Jumped(t)
    BY <1>2, <2>1 DEF Jumped
  <2>2. /\ IsCpu(c) /\ c.condi = d.condi /\ (c.RegWrite <=> d.RegWrite) /\ c.req = d.req /\ c.tlb = d.tlb
        /\ c.PC = t /\ c.EPC = cpu.EPC /\ c.exl = cpu.exl /\ c.um = cpu.um
    BY <1>1, <1>2, <2>5, JumpedFields
  <2>3. cpu.IR.op = "JR"
    BY <1>8 DEF Is
  <2>4. PcAfter(c.PC, cpu.IR, saved)
    BY <1>1, <2>1, <2>2, <2>3 DEF PcAfter
  <2> QED BY <1>1, <1>2, <2>2, <2>3, <2>4, Ends2
<1>9. CASE (Is({"SYSCALL"}) /\ Raise("Sys")) \/ (Is({"RI"}) /\ Raise("RI"))
  BY <1>9, Raise2
<1> QED BY <1>3, <1>4, <1>5, <1>6, <1>7, <1>8, <1>9 DEF Special

\* Step 2: branches, jumps and arithmetic with a constant.
LEMMA Branch2 ==
    ASSUME CpuInv, NEW busy \in BOOLEAN, Edge(busy), cpu.condi = 2, Stage2(cpu, mem, saved), Branch \/ Immediate
    PROVE  CpuInv' /\ (I!Next \/ UNCHANGED I!vars)
<1>1. /\ IsCpu(cpu) /\ cpu.req = "idle" /\ ~cpu.RegWrite /\ InstrOK(cpu.IR, saved)
      /\ cpu.PC \in Addr /\ cpu.PC = After(saved.pc) /\ cpu.EPC = saved.epc
      /\ cpu.exl = saved.exl /\ cpu.um = saved.um
      /\ saved.epc \in Addr /\ saved.exl \in BOOLEAN /\ saved.um \in BOOLEAN
  BY Middle DEF Stage2
<1>2. PICK c, d : c = cpu' /\ d = Done
  OBVIOUS
<1>3. CASE Is({"B", "J"}) /\ \E t \in Addr : cpu' = [Done EXCEPT !.PC = t]
  <2>1. PICK t \in Addr : cpu' = [Done EXCEPT !.PC = t]
    BY <1>3
  <2>5. c = Jumped(t)
    BY <1>2, <2>1 DEF Jumped
  <2>2. /\ IsCpu(c) /\ c.condi = d.condi /\ (c.RegWrite <=> d.RegWrite) /\ c.req = d.req /\ c.tlb = d.tlb
        /\ c.PC = t /\ c.EPC = cpu.EPC /\ c.exl = cpu.exl /\ c.um = cpu.um
    BY <1>1, <1>2, <2>5, JumpedFields
  <2>3. cpu.IR.op \in {"B", "J"}
    BY <1>3 DEF Is
  <2>4. PcAfter(c.PC, cpu.IR, saved)
    BY <2>1, <2>2, <2>3 DEF PcAfter
  <2> QED BY <1>1, <1>2, <2>2, <2>3, <2>4, Ends2
<1>4. CASE Is({"B"}) /\ cpu' = Done
  <2>1. /\ IsCpu(c) /\ c.PC = cpu.PC /\ c.EPC = cpu.EPC /\ c.exl = cpu.exl /\ c.um = cpu.um
    BY <1>1, <1>2, <1>4, DoneFields
  <2>2. cpu.IR.op = "B" /\ c = d
    BY <1>2, <1>4 DEF Is
  <2>3. PcAfter(c.PC, cpu.IR, saved)
    BY <1>1, <2>1, <2>2 DEF PcAfter
  <2> QED BY <1>1, <1>2, <2>1, <2>2, <2>3, Ends2
<1>5. CASE Is({"JAL"}) /\ WriteReg(cpu.PC, 3)
  <2>2. /\ IsCpu(c) /\ c.RegWrite /\ c.WriteData = cpu.PC /\ c.condi = 3 /\ c.IR = cpu.IR /\ c.PC = cpu.PC
        /\ c.req = cpu.req /\ c.EPC = cpu.EPC /\ c.exl = cpu.exl /\ c.um = cpu.um /\ c.tlb = cpu.tlb
    BY <1>1, <1>2, <1>5, WriteRegFields
  <2>3. c.IR.op = "JAL" /\ Wrote(c.IR, c.WriteData, saved)
    BY <1>1, <1>5, <2>2 DEF Is, Wrote
  <2> QED BY <1>1, <1>2, <2>2, <2>3, On2 DEF Writers, Loads, Stores
<1>6. CASE Immediate
  <2>1. PICK v \in Addr : cpu' = [cpu EXCEPT !.alu = v, !.condi = 3]
    BY <1>6 DEF Immediate
  <2>2. /\ IsCpu(c) /\ c.condi = 3 /\ c.IR = cpu.IR /\ c.req = "idle" /\ c.PC = cpu.PC
        /\ c.EPC = cpu.EPC /\ c.exl = cpu.exl /\ c.um = cpu.um /\ c.tlb = cpu.tlb /\ ~c.RegWrite /\ c.alu = v
    BY <1>1, <1>2, <2>1 DEF IsCpu
  <2>3. c.IR.op = "ALUI"
    BY <1>6, <2>2 DEF Is, Immediate
  <2> QED BY <1>2, <2>2, <2>3, On2 DEF Writers, Loads, Stores
<1> QED BY <1>3, <1>4, <1>5, <1>6 DEF Branch

\* Step 2: the coprocessor's instructions, the kernel's only.
LEMMA Cop02 ==
    ASSUME CpuInv, NEW busy \in BOOLEAN, Edge(busy), cpu.condi = 2, Stage2(cpu, mem, saved), Cop0
    PROVE  CpuInv' /\ (I!Next \/ UNCHANGED I!vars)
<1>1. /\ IsCpu(cpu) /\ cpu.req = "idle" /\ ~cpu.RegWrite /\ InstrOK(cpu.IR, saved)
      /\ cpu.PC \in Addr /\ cpu.PC = After(saved.pc) /\ cpu.EPC = saved.epc
      /\ cpu.exl = saved.exl /\ cpu.um = saved.um
      /\ saved.epc \in Addr /\ saved.exl \in BOOLEAN /\ saved.um \in BOOLEAN
  BY Middle DEF Stage2
<1>2. PICK c, d : c = cpu' /\ d = Done
  OBVIOUS
<1>3. CASE User /\ Raise("CpU")
  BY <1>3, Raise2
<1>4. CASE ~User /\ Is({"ERET"}) /\ cpu' = [Done EXCEPT !.exl = FALSE, !.PC = cpu.EPC]
  <2>1. /\ IsCpu(c) /\ c.condi = d.condi /\ (c.RegWrite <=> d.RegWrite) /\ c.req = d.req /\ c.tlb = d.tlb
        /\ c.PC = cpu.EPC /\ c.EPC = cpu.EPC /\ ~c.exl /\ c.exl \in BOOLEAN /\ c.um = cpu.um
    BY <1>1, <1>2, <1>4 DEF Done, IsCpu
  <2>2. cpu.IR.op = "ERET"
    BY <1>4 DEF Is
  <2>3. PcAfter(c.PC, cpu.IR, saved)
    BY <1>1, <2>1, <2>2 DEF PcAfter
  <2>4. cpu.IR.op # "MTC0" => c.EPC = cpu.EPC /\ c.um = cpu.um /\ c.exl = (cpu.exl /\ cpu.IR.op # "ERET")
    BY <2>1, <2>2
  <2>5. c.EPC \in Addr /\ c.exl \in BOOLEAN /\ c.um \in BOOLEAN
    BY <1>1, <2>1
  <2>6. cpu.IR.op \in {"MT", "JR", "B", "J", "ERET", "MFC0", "MTC0", "CACHE"} /\ ~User
    BY <1>4, <2>2
  <2> QED BY <1>2, <2>1, <2>3, <2>4, <2>5, <2>6, Ends2
<1>5. CASE ~User /\ Is({"MFC0"}) /\ \E v \in Addr : WriteReg(v, 3)
  <2>1. PICK v \in Addr : WriteReg(v, 3)
    BY <1>5
  <2>2. /\ IsCpu(c) /\ c.RegWrite /\ c.WriteData = v /\ c.condi = 3 /\ c.IR = cpu.IR /\ c.PC = cpu.PC
        /\ c.req = cpu.req /\ c.EPC = cpu.EPC /\ c.exl = cpu.exl /\ c.um = cpu.um /\ c.tlb = cpu.tlb
    BY <1>1, <1>2, <2>1, WriteRegFields
  <2>3. c.IR.op = "MFC0" /\ Wrote(c.IR, c.WriteData, saved)
    BY <1>5, <2>2 DEF Is, Wrote
  <2> QED BY <1>1, <1>2, <1>5, <2>2, <2>3, On2 DEF Writers, Loads, Stores
<1>6. CASE ~User /\ Is({"MFC0", "MTC0"}) /\ cpu' = Done
  <2>1. /\ IsCpu(c) /\ c.PC = cpu.PC /\ c.EPC = cpu.EPC /\ c.exl = cpu.exl /\ c.um = cpu.um
    BY <1>1, <1>2, <1>6, DoneFields
  <2>2. cpu.IR.op \in {"MFC0", "MTC0"} /\ c = d
    BY <1>2, <1>6 DEF Is
  <2>3. PcAfter(c.PC, cpu.IR, saved)
    BY <1>1, <2>1, <2>2 DEF PcAfter
  <2>4. c.exl = (cpu.exl /\ cpu.IR.op # "ERET")
    BY <1>1, <2>1, <2>2
  <2> QED BY <1>1, <1>2, <1>6, <2>1, <2>2, <2>3, <2>4, Ends2
<1>7. CASE ~User /\ Is({"MTC0"}) /\ \E e, u \in BOOLEAN : cpu' = [Done EXCEPT !.exl = e, !.um = u]
  <2>1. PICK e, u \in BOOLEAN : cpu' = [Done EXCEPT !.exl = e, !.um = u]
    BY <1>7
  <2>2. /\ IsCpu(c) /\ c.condi = d.condi /\ (c.RegWrite <=> d.RegWrite) /\ c.req = d.req /\ c.tlb = d.tlb
        /\ c.PC = cpu.PC /\ c.EPC = cpu.EPC /\ c.exl \in BOOLEAN /\ c.um \in BOOLEAN
    BY <1>1, <1>2, <2>1 DEF Done, IsCpu
  <2>3. cpu.IR.op = "MTC0"
    BY <1>7 DEF Is
  <2>4. PcAfter(c.PC, cpu.IR, saved)
    BY <1>1, <2>2, <2>3 DEF PcAfter
  <2> QED BY <1>1, <1>2, <1>7, <2>2, <2>3, <2>4, Ends2
<1>8. CASE ~User /\ Is({"MTC0"}) /\ \E a \in Addr : cpu' = [Done EXCEPT !.EPC = a]
  <2>1. PICK a \in Addr : cpu' = [Done EXCEPT !.EPC = a]
    BY <1>8
  <2>2. /\ IsCpu(c) /\ c.condi = d.condi /\ (c.RegWrite <=> d.RegWrite) /\ c.req = d.req /\ c.tlb = d.tlb
        /\ c.PC = cpu.PC /\ c.EPC = a /\ c.exl = cpu.exl /\ c.um = cpu.um
    BY <1>1, <1>2, <2>1 DEF Done, IsCpu
  <2>3. cpu.IR.op = "MTC0"
    BY <1>8 DEF Is
  <2>4. PcAfter(c.PC, cpu.IR, saved)
    BY <1>1, <2>2, <2>3 DEF PcAfter
  <2> QED BY ZenonT(30), <1>1, <1>2, <1>8, <2>2, <2>3, <2>4, Ends2
<1>9. CASE ~User /\ Is({"TLBWI"}) /\ tlb_write
  <2>1. PICK a \in 0 .. UserTop - 1, x \in {"none", "ro", "rw"} :
            cpu' = [cpu EXCEPT !.tlb[a] = x, !.condi = 3]
    BY <1>9 DEF tlb_write
  <2>2. /\ IsCpu(c) /\ c.condi = 3 /\ c.IR = cpu.IR /\ c.req = "idle" /\ c.PC = cpu.PC
        /\ c.EPC = cpu.EPC /\ c.exl = cpu.exl /\ c.um = cpu.um /\ ~c.RegWrite
    BY <1>1, <1>2, <2>1 DEF IsCpu
  <2>3. c.IR.op = "TLBWI"
    BY <1>9, <2>2 DEF Is
  <2> QED BY <1>2, <1>9, <2>2, <2>3, On2 DEF Writers, Loads, Stores
<1> QED BY <1>3, <1>4, <1>5, <1>6, <1>7, <1>8, <1>9 DEF Cop0, Cop0Done, Is

\* Step 2: the address of a load or store; CACHE does nothing.
LEMMA MemAddress2 ==
    ASSUME CpuInv, NEW busy \in BOOLEAN, Edge(busy), cpu.condi = 2, Stage2(cpu, mem, saved), MemAddress
    PROVE  CpuInv' /\ (I!Next \/ UNCHANGED I!vars)
<1>1. /\ IsCpu(cpu) /\ cpu.req = "idle" /\ ~cpu.RegWrite /\ InstrOK(cpu.IR, saved)
      /\ cpu.PC \in Addr /\ cpu.PC = After(saved.pc) /\ cpu.EPC = saved.epc
      /\ cpu.exl = saved.exl /\ cpu.um = saved.um /\ mem.net \in {0, 3}
      /\ saved.epc \in Addr /\ saved.exl \in BOOLEAN /\ saved.um \in BOOLEAN
  BY Middle DEF Stage2, Quiet
<1>2. PICK c, d : c = cpu' /\ d = Done
  OBVIOUS
<1>3. CASE Is({"CACHE"}) /\ cpu' = Done
  <2>1. /\ IsCpu(c) /\ c.PC = cpu.PC /\ c.EPC = cpu.EPC /\ c.exl = cpu.exl /\ c.um = cpu.um
    BY <1>1, <1>2, <1>3, DoneFields
  <2>2. cpu.IR.op = "CACHE" /\ c = d
    BY <1>2, <1>3 DEF Is
  <2>3. PcAfter(c.PC, cpu.IR, saved)
    BY <1>1, <2>1, <2>2 DEF PcAfter
  <2> QED BY <1>1, <1>2, <2>1, <2>2, <2>3, Ends2
<1>4. ASSUME Is(Loads \cup Stores), NEW a \in Addr, NEW p \in Places(cpu.IR.op, a),
             cpu' = [cpu EXCEPT !.alu = p, !.condi = 3]
      PROVE  CpuInv' /\ (I!Next \/ UNCHANGED I!vars)
  <2>1. /\ IsCpu(c) /\ c.condi = 3 /\ c.IR = cpu.IR /\ c.req = "idle" /\ c.PC = cpu.PC /\ c.alu = p
        /\ c.EPC = cpu.EPC /\ c.exl = cpu.exl /\ c.um = cpu.um /\ ~c.RegWrite /\ c.tlb = cpu.tlb
    BY <1>1, <1>2, <1>4 DEF IsCpu
  <2>2. PICK op : op = c.IR.op /\ op \in {"LW", "LB", "SW", "SB"} /\ p \in Places(op, a)
    BY <1>4, <2>1 DEF Is, Loads, Stores
  <2>3. /\ p.a = a /\ p.aligned \in BOOLEAN /\ (p.aligned \/ op \in {"LW", "SW"})
        /\ p.dev = "ram" \/ (p.a \in IO /\ p.dev \in Devices /\ Asks(op, p.dev))
    BY <2>2 DEF Places
  <2>4. /\ p.dev \in Devices /\ (p.dev # "ram" => p.a \in IO)
        /\ p.dev = "flash" => op # "SB"
        /\ p.dev = "rom" => op \in {"fetch", "LW", "LB", "SW"}
        /\ p.dev \in {"sector", "vga"} => op = "SW"
        /\ p.dev \in {"com", "index", "data"} => op \in {"LW", "SW"}
        /\ p.dev = "state" => op = "LW"
        /\ p.dev = "index" => mem.net = 0
        /\ p.dev = "data" => mem.net = 3
    <3>1. CASE p.dev = "ram"
      BY <3>1 DEF Devices
    <3>2. CASE p.dev # "ram"
      <4>1. p.a \in IO /\ p.dev \in Devices /\ Asks(op, p.dev)
        BY <2>3, <3>2
      <4>2. p.dev \in {"none", "flash", "sector", "rom", "com", "state", "vga", "index", "data"}
        BY <3>2, <4>1 DEF Devices
      <4>3. CASE p.dev \in {"none", "flash", "rom", "com"}
        BY <4>1, <4>3 DEF Asks
      <4>4. CASE p.dev \in {"sector", "vga", "state"}
        BY <4>1, <4>4 DEF Asks
      <4>5. CASE p.dev \in {"index", "data"}
        BY <4>1, <4>5 DEF Asks
      <4> QED BY <4>1, <4>2, <4>3, <4>4, <4>5
    <3> QED BY <3>1, <3>2
  <2>5. PlaceOK(op, p) /\ NetAt(mem, p)
    BY <1>4, <2>3, <2>4 DEF PlaceOK, NetAt
  <2>6. c.IR.op \in {"LW", "LB", "SW", "SB"} /\ PlaceOK(c.IR.op, c.alu) /\ NetAt(mem, c.alu)
    BY <2>1, <2>2, <2>5
  <2> QED BY <1>2, <2>1, <2>6, On2 DEF Writers, Loads, Stores
<1> QED BY <1>3, <1>4 DEF MemAddress

\* Step 2.
LEMMA FromStage2 ==
    ASSUME CpuInv, NEW busy \in BOOLEAN, Edge(busy), cpu.condi = 2
    PROVE  CpuInv' /\ (I!Next \/ UNCHANGED I!vars)
<1>1. Stage2(cpu, mem, saved)
  BY Middle DEF OneStage, Stage0, Stage1, Stage3, Stage4, Stage5, Stage6, Stage7
<1>2. Special \/ Branch \/ Immediate \/ Cop0 \/ MemAddress
  BY DEF Edge, Step
<1> QED BY <1>1, <1>2, Special2, Branch2, Cop02, MemAddress2

\* Step 3: an instruction that is neither arithmetic nor a load or store ends.
LEMMA Ends3 ==
    ASSUME CpuInv, NEW busy \in BOOLEAN, Edge(busy), Stage3(cpu, mem, saved),
           cpu.IR.op \in {"MULT", "MF", "MFC0", "JAL", "JALR", "TLBWI"},
           NEW c, c = cpu', IsCpu(c), c.condi = 0, ~c.RegWrite, c.req = cpu.req, c.tlb = cpu.tlb,
           c.EPC = cpu.EPC, c.exl = cpu.exl, c.um = cpu.um, PcAfter(c.PC, cpu.IR, saved)
    PROVE  CpuInv' /\ (I!Next \/ UNCHANGED I!vars)
<1>1. /\ cpu.condi = 3 /\ cpu.req = "idle" /\ Quiet(mem, saved) /\ Clean(mem) /\ InstrOK(cpu.IR, saved)
      /\ cpu.IR.op \in {"MFC0", "TLBWI"} => ~(saved.um /\ ~saved.exl)
      /\ IF cpu.IR.op \in {"MF", "MFC0", "JAL", "JALR"}
         THEN cpu.RegWrite /\ Wrote(cpu.IR, cpu.WriteData, saved) ELSE ~cpu.RegWrite
  BY DEF Stage3
<1>2. Quiet(mem', saved) /\ mem'.fx = 0
  BY <1>1, MemIdle DEF Edge, Clean
<1>3. reg \in Addr /\ reg = (IF cpu.RegWrite /\ cpu.IR.dst THEN cpu.WriteData ELSE saved.reg)
  BY DEF CpuInv, Under
<1>4. RegAfter(reg, cpu.IR, NoAddr, saved)
  <2>1. cpu.IR.dst => cpu.IR.op \in Writers
    BY <1>1 DEF InstrOK
  <2> QED BY <1>1, <1>3, <2>1 DEF RegAfter, Wrote, Writers, Loads
<1>5. cpu.IR.op \notin Loads \cup Stores /\ cpu.IR.op \notin {"MTC0", "ERET"}
  BY DEF Loads, Stores
<1>6. cpu.IR.op \in {"ERET", "MFC0", "MTC0", "TLBWI"} => ~(saved.um /\ ~saved.exl)
  BY <1>1, <1>5
<1>7. /\ c.EPC = saved.epc /\ c.um = saved.um /\ c.exl = saved.exl
      /\ c.EPC \in Addr /\ c.um \in BOOLEAN /\ c.exl \in BOOLEAN
  BY Middle
<1>8. cpu.IR.op # "MTC0" =>
          c.EPC = saved.epc /\ c.um = saved.um /\ c.exl = (saved.exl /\ cpu.IR.op # "ERET")
  BY <1>5, <1>7
<1>9. cpu.IR.op # "TLBWI" => c.tlb = saved.tlb
  BY <1>1, Middle
<1>10. c.req = "idle" /\ cpu.condi \notin {0, 7}
  BY <1>1
<1> QED BY <1>1, <1>2, <1>4, <1>5, <1>6, <1>7, <1>8, <1>9, <1>10, Finished

LEMMA EndWriteFields ==
    ASSUME NEW t, EndWrite(t), IsCpu(cpu), NEW c, c = cpu'
    PROVE  /\ IsCpu(c) /\ c.condi = 0 /\ ~c.RegWrite /\ c.req = cpu.req /\ c.tlb = cpu.tlb
           /\ c.PC = t /\ c.EPC = cpu.EPC /\ c.exl = cpu.exl /\ c.um = cpu.um
BY DEF EndWrite, Done, IsCpu

\* Step 3.
LEMMA FromStage3 ==
    ASSUME CpuInv, NEW busy \in BOOLEAN, Edge(busy), cpu.condi = 3
    PROVE  CpuInv' /\ (I!Next \/ UNCHANGED I!vars)
<1>1. Stage3(cpu, mem, saved)
  BY Middle DEF OneStage, Stage0, Stage1, Stage2, Stage4, Stage5, Stage6, Stage7
<1>2. PICK c, i : c = cpu' /\ i = cpu.IR
  OBVIOUS
<1>3. /\ cpu.req = "idle" /\ Quiet(mem, saved) /\ Clean(mem) /\ InstrOK(i, saved)
      /\ IsCpu(cpu) /\ cpu.PC \in Addr /\ cpu.PC = After(saved.pc) /\ reg \in Addr
      /\ reg = (IF cpu.RegWrite /\ i.dst THEN cpu.WriteData ELSE saved.reg)
      /\ i.op # "TLBWI" => cpu.tlb = saved.tlb
  BY <1>1, <1>2, Middle DEF Stage3, CpuInv, Under
<1>4. Quiet(mem', saved) /\ Clean(mem') /\ mem'.net = mem.net
  BY <1>1, <1>3, MemIdle DEF Edge, Clean
<1>5. ASSUME i.op \in {"ALU", "ALUI"}, WriteReg(cpu.alu, 4)
      PROVE  CpuInv' /\ (I!Next \/ UNCHANGED I!vars)
  <2>1. cpu.alu \in Addr /\ ~cpu.RegWrite
    BY <1>1, <1>2, <1>5 DEF Stage3
  <2>2. PICK v : v = cpu.alu
    OBVIOUS
  <2>3. /\ IsCpu(c) /\ c.RegWrite /\ c.WriteData = v /\ c.condi = 4 /\ c.IR = cpu.IR /\ c.PC = cpu.PC
        /\ c.req = cpu.req /\ c.EPC = cpu.EPC /\ c.exl = cpu.exl /\ c.um = cpu.um /\ c.tlb = cpu.tlb
    BY <1>2, <1>3, <1>5, <2>2, WriteRegFields
  <2>4. Wrote(c.IR, c.WriteData, saved)
    BY <1>2, <1>5, <2>1, <2>2, <2>3 DEF Wrote
  <2>5. Stage4(c, mem', saved)
    BY <1>2, <1>3, <1>4, <1>5, <2>3, <2>4 DEF Stage4
  <2>6. c.tlb = saved.tlb /\ c.WriteData \in Addr
    BY <1>3, <1>5, <2>1, <2>2, <2>3
  <2> QED BY <1>2, <1>3, <2>1, <2>3, <2>5, <2>6, GoesOn DEF OneStage
<1>6. ASSUME i.op = "MULT", cpu' = IF mult_ready THEN Done ELSE [cpu EXCEPT !.mult = @ + 1]
      PROVE  CpuInv' /\ (I!Next \/ UNCHANGED I!vars)
  <2>1. ~cpu.RegWrite /\ cpu.tlb = saved.tlb
    BY <1>1, <1>2, <1>3, <1>6 DEF Stage3
  <2>2. CASE mult_ready
    <3>1. c = Done
      BY <1>2, <1>6, <2>2
    <3>2. /\ IsCpu(c) /\ c.condi = 0 /\ c.PC = cpu.PC /\ c.EPC = cpu.EPC /\ c.exl = cpu.exl /\ c.um = cpu.um
          /\ c.tlb = cpu.tlb /\ (c.RegWrite <=> cpu.RegWrite) /\ c.req = cpu.req
      BY <1>3, <3>1, DoneFields
    <3>3. PcAfter(c.PC, cpu.IR, saved)
      BY <1>2, <1>3, <1>6, <3>2 DEF PcAfter
    <3> QED BY <1>1, <1>2, <1>6, <2>1, <3>2, <3>3, Ends3
  <2>3. CASE ~mult_ready
    <3>1. /\ IsCpu(c) /\ c.condi = 3 /\ c.IR = cpu.IR /\ c.PC = cpu.PC /\ c.req = "idle" /\ ~c.RegWrite
          /\ c.EPC = cpu.EPC /\ c.exl = cpu.exl /\ c.um = cpu.um /\ c.tlb = cpu.tlb /\ c.alu = cpu.alu
      BY <1>2, <1>3, <1>6, <2>1, <2>3 DEF IsCpu
    <3>2. Stage3(c, mem', saved)
      BY <1>1, <1>2, <1>3, <1>4, <1>6, <3>1 DEF Stage3, Loads, Stores
    <3> QED BY <1>2, <1>3, <2>1, <3>1, <3>2, GoesOn DEF OneStage
  <2> QED BY <2>2, <2>3
<1>7. ASSUME i.op \in {"MF", "MFC0", "JAL", "JALR"}, NEW t \in Addr, EndWrite(t),
             i.op \in {"MF", "MFC0"} => t = cpu.PC, (i.op = "JALR" /\ i.src) => t = reg
      PROVE  CpuInv' /\ (I!Next \/ UNCHANGED I!vars)
  <2>1. /\ IsCpu(c) /\ c.condi = 0 /\ ~c.RegWrite /\ c.req = cpu.req /\ c.tlb = cpu.tlb
        /\ c.PC = t /\ c.EPC = cpu.EPC /\ c.exl = cpu.exl /\ c.um = cpu.um
    BY <1>2, <1>3, <1>7, EndWriteFields
  <2>2. cpu.RegWrite /\ Wrote(i, cpu.WriteData, saved)
    BY <1>1, <1>2, <1>7 DEF Stage3
  <2>3. (i.op = "JALR" /\ i.src) => t \in IF i.dst THEN {saved.reg, After(saved.pc)} ELSE {saved.reg}
    BY <1>3, <1>7, <2>2 DEF Wrote
  <2>4. PcAfter(c.PC, cpu.IR, saved)
    BY <1>2, <1>3, <1>7, <2>1, <2>3 DEF PcAfter
  <2> QED BY <1>1, <1>2, <1>7, <2>1, <2>4, Ends3
<1>8. ASSUME i.op = "TLBWI", cpu' = Done
      PROVE  CpuInv' /\ (I!Next \/ UNCHANGED I!vars)
  <2>1. /\ IsCpu(c) /\ c.condi = 0 /\ c.PC = cpu.PC /\ c.EPC = cpu.EPC /\ c.exl = cpu.exl /\ c.um = cpu.um
        /\ c.tlb = cpu.tlb /\ (c.RegWrite <=> cpu.RegWrite) /\ c.req = cpu.req
    BY <1>2, <1>3, <1>8, DoneFields
  <2>2. PcAfter(c.PC, cpu.IR, saved)
    BY <1>2, <1>3, <1>8, <2>1 DEF PcAfter
  <2>3. ~cpu.RegWrite
    BY <1>1, <1>2, <1>8 DEF Stage3
  <2> QED BY <1>1, <1>2, <1>8, <2>1, <2>2, <2>3, Ends3
<1>9. ASSUME Mem3 PROVE CpuInv' /\ (I!Next \/ UNCHANGED I!vars)
  <2>1. /\ i.op \in {"LW", "LB", "SW", "SB"}
        /\ cpu' = [cpu EXCEPT !.addr = cpu.alu, !.req = IF Is({"SW"}) THEN "write" ELSE "read", !.condi = 4]
    BY <1>2, <1>9 DEF Mem3, Is, Loads, Stores
  <2>2. PlaceOK(i.op, cpu.alu) /\ NetAt(mem, cpu.alu) /\ ~cpu.RegWrite /\ cpu.tlb = saved.tlb
    BY <1>1, <1>2, <1>3, <2>1 DEF Stage3, Loads, Stores
  <2>3. PICK p, q : p = cpu.alu /\ q = IF i.op = "SW" THEN "write" ELSE "read"
    OBVIOUS
  <2>4. /\ IsCpu(c) /\ c.condi = 4 /\ c.IR = i /\ c.PC = cpu.PC /\ ~c.RegWrite /\ c.addr = p /\ c.req = q
        /\ c.EPC = cpu.EPC /\ c.exl = cpu.exl /\ c.um = cpu.um /\ c.tlb = cpu.tlb
    <3>1. cpu' = [cpu EXCEPT !.addr = p, !.req = q, !.condi = 4]
      BY <1>2, <2>1, <2>3 DEF Is
    <3> QED BY <1>2, <1>3, <2>2, <3>1 DEF IsCpu
  <2>5. NetAt(mem', p)
    BY <1>4, <2>2, <2>3 DEF NetAt
  <2>6. InAccess(mem', saved, p, c.req = "write")
    BY <1>4, <2>5, AccessBegins
  <2>7. Stage4(c, mem', saved)
    BY <1>3, <2>1, <2>2, <2>3, <2>4, <2>6 DEF Stage4, Loads, Stores
  <2> QED BY <1>2, <1>3, <2>2, <2>4, <2>7, GoesOn DEF OneStage
<1>10. CASE Special3
  <2>1. CASE Is({"ALU"}) /\ WriteReg(cpu.alu, 4)
    BY <1>2, <1>5, <2>1 DEF Is
  <2>2. CASE Is({"MULT"}) /\ cpu' = IF mult_ready THEN Done ELSE [cpu EXCEPT !.mult = @ + 1]
    BY <1>2, <1>6, <2>2 DEF Is
  <2>3. CASE Is({"MF"}) /\ EndWrite(cpu.PC)
    BY <1>2, <1>3, <1>7, <2>3 DEF Is
  <2>4. CASE Is({"JALR"}) /\ \E t \in IF cpu.IR.src THEN {reg} ELSE Addr : EndWrite(t)
    BY <1>2, <1>3, <1>7, <2>4 DEF Is
  <2> QED BY <1>10, <2>1, <2>2, <2>3, <2>4 DEF Special3
<1>11. CASE Others3
  <2>1. CASE Is({"JAL"}) /\ \E t \in Addr : EndWrite(t)
    BY <1>2, <1>7, <2>1 DEF Is
  <2>2. CASE Is({"ALUI"}) /\ WriteReg(cpu.alu, 4)
    BY <1>2, <1>5, <2>2 DEF Is
  <2>3. CASE Is({"MFC0"}) /\ EndWrite(cpu.PC)
    BY <1>2, <1>3, <1>7, <2>3 DEF Is
  <2>4. CASE Is({"TLBWI"}) /\ cpu' = Done
    BY <1>2, <1>8, <2>4 DEF Is
  <2> QED BY <1>11, <2>1, <2>2, <2>3, <2>4 DEF Others3
<1> QED BY <1>9, <1>10, <1>11 DEF Edge, Step

\* A clock of a load or store whose answer has not come.
LEMMA AccessWaits ==
    ASSUME NEW busy \in BOOLEAN, Edge(busy), cpu.condi # 0, NEW op, NEW p, NEW w \in BOOLEAN, NEW s,
           Asked(op, p, w, s), InAccess(mem, s, p, w), ~mem.ready, cpu' = cpu
    PROVE  InAccess(mem', s, p, w)
<1>1. PICK x : x = Access(busy)
  OBVIOUS
<1>2. cpu.req \in {"read", "write"}
  BY DEF Asked
<1>3. mem' = x
  BY <1>1, <1>2, MemBusy DEF Edge
<1> QED BY <1>1, <1>3, AccessStep

\* The clock at which its answer is taken.
LEMMA AccessOver ==
    ASSUME NEW busy \in BOOLEAN, Edge(busy), cpu.condi # 0, NEW op, NEW p, NEW w \in BOOLEAN, NEW s,
           Asked(op, p, w, s), InAccess(mem, s, p, w), mem.ready, cpu'.req = "idle"
    PROVE  Over(mem', p, w, s)
<1>1. PICK x, z : x = Access(busy) /\ z = Released(x)
  OBVIOUS
<1>2. cpu.req \in {"read", "write"}
  BY DEF Asked
<1>3. mem' = z
  BY <1>1, <1>2, MemBusy DEF Edge
<1>4. Over(z, p, w, s)
  BY <1>1, AccessEnds
<1> QED BY <1>3, <1>4

\* The exception of an access that is refused.
Refusal(e) == cpu' = [cpu EXCEPT !.req = "idle", !.exc = e, !.condi = 7]

\* The answer is an error: the instruction ends in an exception and has done nothing.
LEMMA AccessFails ==
    ASSUME CpuInv, NEW busy \in BOOLEAN, Edge(busy), cpu.condi \in {4, 6}, InstrOK(cpu.IR, saved), ~cpu.RegWrite,
           NEW op, NEW p, PlaceOK(op, p), NEW w \in BOOLEAN, NEW store \in BOOLEAN, w => store,
           Over(mem', p, w, saved), mem.err # "no",
           NEW e, e = ErrorCode(store), Refusal(e)
    PROVE  CpuInv' /\ (I!Next \/ UNCHANGED I!vars)
<1>1. PICK c, m : c = cpu' /\ m = mem'
  OBVIOUS
<1>2. /\ IsCpu(c) /\ c.req = "idle" /\ c.exc = e /\ c.condi = 7 /\ c.PC = cpu.PC /\ ~c.RegWrite
      /\ c.EPC = cpu.EPC /\ c.exl = cpu.exl /\ c.um = cpu.um /\ c.tlb = cpu.tlb
  BY <1>1, Middle DEF IsCpu, Refusal
<1>3. /\ m.bad = p.a /\ m.fx = 0 /\ Quiet(m, saved)
      /\ \/ mem.err = Why(saved, p.a, p.aligned, w)
         \/ p.dev = "none" /\ Why(saved, p.a, p.aligned, w) = "no" /\ mem.err = "address"
  BY <1>1 DEF Over, Quiet
<1>4. /\ p.a \in Addr /\ p.aligned \in BOOLEAN /\ (p.dev # "ram" => p.a \in IO)
  BY DEF PlaceOK
<1>5. \/ mem.err = Why(saved, p.a, p.aligned, store) /\ mem.err # "no"
      \/ p.dev = "none" /\ Why(saved, p.a, p.aligned, store) = "no" /\ mem.err = "address"
  <2>1. CASE mem.err = Why(saved, p.a, p.aligned, w)
    BY <2>1 DEF Why
  <2>2. CASE p.dev = "none" /\ Why(saved, p.a, p.aligned, w) = "no" /\ mem.err = "address"
    <3>1. p.a \in UserTop .. N - 1
      BY <1>4, <2>2, CpuAssumption
    <3>2. p.a >= UserTop
      BY <3>1, CpuAssumption
    <3> QED BY <2>2, <3>2 DEF Why
  <2> QED BY <1>3, <2>1, <2>2
<1>6. Faults(e, p.a, saved, p.a, p.aligned, store)
  BY <1>4, <1>5, FaultCode
<1>7. Cause(c.exc, m.bad, saved)
  BY <1>2, <1>3, <1>4, <1>6 DEF Cause, InstrOK
<1>8. Stage7(c, m, saved)
  BY <1>2, <1>3, <1>7 DEF Stage7
<1>9. cpu.condi # 3 /\ cpu.condi > 1
  OBVIOUS
<1> QED BY <1>1, <1>2, <1>8, <1>9, Middle, GoesOn DEF OneStage

\* The answer to a store that ends with it.
LEMMA StoreEnds ==
    ASSUME CpuInv, NEW busy \in BOOLEAN, Edge(busy), cpu.condi \in {4, 6}, InstrOK(cpu.IR, saved), ~cpu.RegWrite,
           cpu.IR.op \in Stores, PlaceOK(cpu.IR.op, cpu.addr), Over(mem', cpu.addr, TRUE, saved), mem.err = "no",
           NEW c, c = [Done EXCEPT !.req = "idle"], cpu' = c
    PROVE  CpuInv' /\ (I!Next \/ UNCHANGED I!vars)
<1>1. PICK i, p, m : i = cpu.IR /\ p = cpu.addr /\ m = mem'
  OBVIOUS
<1>2. /\ IsCpu(c) /\ c.condi = 0 /\ c.PC = cpu.PC /\ c.EPC = cpu.EPC /\ c.exl = cpu.exl /\ c.um = cpu.um
      /\ c.tlb = cpu.tlb /\ ~c.RegWrite /\ c.req = "idle"
  BY Middle DEF IsCpu, Done
<1>3. /\ IsMem(m) /\ m.condi = -1 /\ ~m.ready /\ m.err = "no" /\ ~m.netOn /\ m.net \in {0, 3}
      /\ Why(saved, p.a, p.aligned, TRUE) = "no" /\ p.dev # "none" /\ Final(m.fx, saved, p, TRUE)
      /\ IF p.dev = "vga" THEN m.vga = 1 ELSE Drawn(m, saved)
  BY <1>1 DEF Over
<1>4. /\ i.op \in {"SW", "SB"} /\ PlaceOK(i.op, p) /\ InstrOK(i, saved) /\ ~i.dst
  BY <1>1 DEF Stores, InstrOK, Writers
<1>5. p = (IF i.op \in Loads \cup Stores THEN cpu.addr ELSE NoPlace)
  BY <1>1
<1>6. m.vga = (IF saved.fresh /\ p.dev # "vga" THEN 0 ELSE 1)
  BY <1>3 DEF Drawn
<1>7. Why(saved, p.a, TRUE, TRUE) = "no"
  BY <1>3, <1>4 DEF Why, PlaceOK
<1>8. i.op \in Loads \cup Stores => Why(saved, p.a, TRUE, i.op \in Stores) = "no"
  BY <1>1, <1>7
<1>9. m.fx \in IF i.op \in Loads \cup Stores THEN Strokes(i.op, p.dev, saved) ELSE {0}
  BY <1>3, <1>4 DEF Final, Strokes, Loads, Stores, PlaceOK, Devices
<1>10. RegAfter(reg, i, p.a, saved) /\ reg = saved.reg
  BY <1>1, <1>4 DEF RegAfter, CpuInv, Under
<1>11. /\ PcAfter(c.PC, i, saved) /\ c.EPC = saved.epc /\ c.exl = saved.exl /\ c.um = saved.um /\ c.tlb = saved.tlb
       /\ c.EPC \in Addr /\ c.exl \in BOOLEAN /\ c.um \in BOOLEAN
  BY <1>2, <1>4, Middle DEF PcAfter
<1>12. /\ i.op \in {"ERET", "MFC0", "MTC0", "TLBWI"} => ~(saved.um /\ ~saved.exl)
       /\ i.op # "MTC0" => c.EPC = saved.epc /\ c.um = saved.um /\ c.exl = (saved.exl /\ i.op # "ERET")
       /\ i.op # "TLBWI" => c.tlb = saved.tlb
  BY <1>4, <1>11
<1>13. cpu.condi \notin {0, 7}
  OBVIOUS
<1>14. Does(i, p, c, m)
  BY <1>6, <1>8, <1>9, <1>10, <1>11, <1>12 DEF Does
<1> QED BY <1>1, <1>2, <1>3, <1>4, <1>5, <1>11, <1>13, <1>14, Completed

\* Step 4: the result is in the register, or the load or store is answered.
LEMMA FromStage4 ==
    ASSUME CpuInv, NEW busy \in BOOLEAN, Edge(busy), cpu.condi = 4
    PROVE  CpuInv' /\ (I!Next \/ UNCHANGED I!vars)
<1>1. Stage4(cpu, mem, saved)
  BY Middle DEF OneStage, Stage0, Stage1, Stage2, Stage3, Stage5, Stage6, Stage7
<1>2. PICK c, i, p, m : c = cpu' /\ i = cpu.IR /\ p = cpu.addr /\ m = mem'
  OBVIOUS
<1>3. /\ InstrOK(i, saved) /\ IsCpu(cpu) /\ cpu.PC \in Addr /\ cpu.PC = After(saved.pc) /\ reg \in Addr
      /\ cpu.EPC = saved.epc /\ cpu.exl = saved.exl /\ cpu.um = saved.um /\ cpu.tlb = saved.tlb
      /\ saved.epc \in Addr /\ saved.exl \in BOOLEAN /\ saved.um \in BOOLEAN /\ saved.fresh \in BOOLEAN
      /\ reg = (IF cpu.RegWrite /\ i.dst THEN cpu.WriteData ELSE saved.reg)
  BY <1>1, <1>2, Middle DEF Stage4, CpuInv, Under
<1>4. CASE WriteBackEnds
  <2>1. i.op \in {"ALU", "ALUI"} /\ EndWrite(cpu.PC)
    BY <1>2, <1>4 DEF WriteBackEnds, Is
  <2>2. /\ cpu.RegWrite /\ Wrote(i, cpu.WriteData, saved) /\ cpu.req = "idle" /\ Quiet(mem, saved) /\ Clean(mem)
    BY <1>1, <1>2, <2>1 DEF Stage4, Loads, Stores
  <2>3. /\ IsCpu(c) /\ c.condi = 0 /\ ~c.RegWrite /\ c.req = cpu.req /\ c.tlb = cpu.tlb
        /\ c.PC = cpu.PC /\ c.EPC = cpu.EPC /\ c.exl = cpu.exl /\ c.um = cpu.um
    BY <1>2, <1>3, <2>1, EndWriteFields
  <2>4. Quiet(mem', saved) /\ mem'.fx = 0
    BY <2>2, MemIdle DEF Edge, Clean
  <2>5. RegAfter(reg, cpu.IR, NoAddr, saved) /\ PcAfter(c.PC, cpu.IR, saved)
    BY <1>2, <1>3, <2>1, <2>2, <2>3 DEF RegAfter, PcAfter, Wrote, Loads
  <2>6. /\ cpu.IR.op \notin Loads \cup Stores
        /\ cpu.IR.op \in {"ERET", "MFC0", "MTC0", "TLBWI"} => ~(saved.um /\ ~saved.exl)
        /\ cpu.IR.op # "MTC0" =>
              c.EPC = saved.epc /\ c.um = saved.um /\ c.exl = (saved.exl /\ cpu.IR.op # "ERET")
        /\ cpu.IR.op # "TLBWI" => c.tlb = saved.tlb
    BY <1>2, <1>3, <2>1, <2>3 DEF Loads, Stores
  <2>7. cpu.condi \notin {0, 7} /\ c.req = "idle" /\ c.EPC \in Addr /\ c.exl \in BOOLEAN /\ c.um \in BOOLEAN
    BY <1>3, <2>2, <2>3
  <2> QED BY <1>2, <1>3, <2>3, <2>4, <2>5, <2>6, <2>7, Finished
<1>5. ASSUME i.op \in Loads \cup Stores PROVE
          /\ ~cpu.RegWrite /\ PlaceOK(i.op, p) /\ cpu.req = (IF i.op = "SW" THEN "write" ELSE "read")
          /\ InAccess(mem, saved, p, cpu.req = "write")
  BY <1>1, <1>2, <1>5 DEF Stage4, Loads, Stores
<1>6. PICK w \in BOOLEAN : w = (cpu.req = "write")
  OBVIOUS
<1>7. ASSUME i.op \in Loads \cup Stores PROVE
          Asked(i.op, p, w, saved) /\ InAccess(mem, saved, p, w) /\ (w <=> i.op = "SW")
  BY <1>2, <1>3, <1>5, <1>6, <1>7 DEF Asked, PlaceOK, Loads, Stores
<1>8. ASSUME i.op \in Loads \cup Stores, ~mem.ready, cpu' = cpu
      PROVE  CpuInv' /\ (I!Next \/ UNCHANGED I!vars)
  <2>1. InAccess(m, saved, p, w)
    BY <1>2, <1>7, <1>8, AccessWaits
  <2>2. Stage4(cpu', m, saved)
    BY <1>2, <1>3, <1>5, <1>6, <1>8, <2>1 DEF Stage4
  <2> QED BY <1>2, <1>3, <1>5, <1>8, <2>2, GoesOn DEF OneStage
<1>9. ASSUME i.op \in Loads \cup Stores, mem.ready, NEW store \in BOOLEAN, w => store, mem.err # "no",
             cpu' = [cpu EXCEPT !.req = "idle", !.exc = ErrorCode(store), !.condi = 7]
      PROVE  CpuInv' /\ (I!Next \/ UNCHANGED I!vars)
  <2>1. PICK e : e = ErrorCode(store) /\ Refusal(e)
    BY <1>9 DEF Refusal
  <2>2. cpu'.req = "idle"
    BY <1>3, <2>1 DEF IsCpu, Refusal
  <2>3. Over(mem', p, w, saved)
    BY <1>2, <1>7, <1>9, <2>2, AccessOver
  <2>4. InstrOK(cpu.IR, saved) /\ ~cpu.RegWrite /\ PlaceOK(i.op, p) /\ cpu.condi \in {4, 6}
    BY <1>2, <1>3, <1>5, <1>9
  <2> QED BY <1>9, <2>1, <2>3, <2>4, AccessFails
<1>10. ASSUME i.op \in Loads \cup {"SB"}, mem.ready, mem.err = "no", c.req = "idle", IsCpu(c), c.condi = 5,
              c.IR = i, c.addr = p, c.PC = cpu.PC, c.EPC = cpu.EPC, c.exl = cpu.exl, c.um = cpu.um, c.tlb = cpu.tlb,
              IF i.op = "SB" THEN ~c.RegWrite ELSE c.RegWrite /\ c.WriteData = mem.data
       PROVE  CpuInv' /\ (I!Next \/ UNCHANGED I!vars)
  <2>1. i.op \in {"LW", "LB", "SB"} /\ i.op \in Loads \cup Stores
    BY <1>10 DEF Loads, Stores
  <2>2. Asked(i.op, p, w, saved) /\ InAccess(mem, saved, p, w) /\ ~w /\ PlaceOK(i.op, p) /\ ~cpu.RegWrite
    BY <1>5, <1>7, <2>1
  <2>3. Over(m, p, w, saved)
    BY <1>2, <1>10, <2>2, AccessOver
  <2>4. /\ IsMem(m) /\ m.condi = -1 /\ ~m.ready /\ m.err = "no" /\ ~m.netOn /\ m.net \in {0, 3}
        /\ Why(saved, p.a, p.aligned, FALSE) = "no" /\ m.bad = NoAddr /\ mem.data = p.a /\ p.dev # "none"
        /\ Final(m.fx, saved, p, FALSE)
        /\ IF p.dev = "vga" THEN m.vga = 1 ELSE Drawn(m, saved)
    <3>1. w = FALSE
      BY <2>2
    <3> QED BY <1>10, <2>3, <3>1 DEF Over
  <2>5. p.dev # "vga" /\ p.dev # "sector" /\ (i.op # "LW" => p.dev \notin {"com", "index", "data", "state"})
    BY <2>1, <2>2 DEF PlaceOK
  <2>6. Quiet(m, saved)
    BY <2>4, <2>5 DEF Quiet
  <2>7. Why(saved, p.a, TRUE, FALSE) = "no"
    BY <2>4 DEF Why
  <2>8. IF i.op = "SB" THEN m.fx = 0 ELSE m.fx \in Strokes(i.op, p.dev, saved)
    <3>1. p.dev \in {"ram", "flash", "rom", "com", "state", "index", "data"}
      BY <2>2, <2>4, <2>5 DEF PlaceOK, Devices
    <3>2. CASE i.op = "SB"
      BY <2>4, <2>5, <3>1, <3>2 DEF Final
    <3>3. CASE i.op = "LW"
      BY <2>4, <3>1, <3>3 DEF Final, Strokes, Stores
    <3>4. CASE i.op = "LB"
      BY <2>4, <2>5, <3>1, <3>4 DEF Final, Strokes, Stores
    <3> QED BY <2>1, <3>2, <3>3, <3>4
  <2>9. Stage5(c, m, saved)
    BY <1>3, <1>10, <2>2, <2>4, <2>6, <2>7, <2>8 DEF Stage5
  <2>10. p.a \in Addr /\ (c.RegWrite => c.WriteData \in Addr)
    BY <1>10, <2>2, <2>4 DEF PlaceOK
  <2> QED BY <1>2, <1>3, <1>10, <2>2, <2>9, <2>10, GoesOn DEF OneStage
<1>11. CASE LoadAnswered
  <2>1. i.op \in Loads /\ Answered(FALSE, [cpu EXCEPT !.WriteData = mem.data, !.RegWrite = TRUE, !.condi = 5])
    BY <1>2, <1>11 DEF LoadAnswered, Is
  <2>2. ~w
    BY <1>7, <2>1 DEF Loads
  <2>3. CASE ~mem.ready
    BY <1>8, <2>1, <2>3 DEF Answered
  <2>4. CASE mem.ready /\ mem.err # "no"
    <3>1. cpu' = [cpu EXCEPT !.req = "idle", !.exc = ErrorCode(FALSE), !.condi = 7]
      BY <2>1, <2>4 DEF Answered
    <3>2. PICK store \in BOOLEAN : store = FALSE
      OBVIOUS
    <3> QED BY <1>9, <2>1, <2>2, <2>4, <3>1, <3>2
  <2>5. CASE mem.ready /\ mem.err = "no"
    <3>1. cpu' = [cpu EXCEPT !.WriteData = mem.data, !.RegWrite = TRUE, !.condi = 5, !.req = "idle"]
      BY <2>1, <2>5 DEF Answered
    <3>2. /\ IsCpu(c) /\ c.req = "idle" /\ c.condi = 5 /\ c.IR = i /\ c.addr = p /\ c.PC = cpu.PC /\ c.EPC = cpu.EPC
          /\ c.exl = cpu.exl /\ c.um = cpu.um /\ c.tlb = cpu.tlb /\ c.RegWrite /\ c.WriteData = mem.data
      BY <1>2, <1>3, <3>1 DEF IsCpu
    <3>3. i.op # "SB"
      BY <2>1 DEF Loads
    <3> QED BY <1>10, <2>1, <2>5, <3>2, <3>3
  <2> QED BY <2>3, <2>4, <2>5
<1>12. CASE ByteRead
  <2>1. i.op = "SB" /\ i.op \in Loads \cup Stores /\ Answered(TRUE, [cpu EXCEPT !.condi = 5])
    BY <1>2, <1>12 DEF ByteRead, Is, Stores
  <2>2. ~w /\ ~cpu.RegWrite
    BY <1>5, <1>7, <2>1
  <2>3. CASE ~mem.ready
    BY <1>8, <2>1, <2>3 DEF Answered
  <2>4. CASE mem.ready /\ mem.err # "no"
    <3>1. cpu' = [cpu EXCEPT !.req = "idle", !.exc = ErrorCode(TRUE), !.condi = 7]
      BY <2>1, <2>4 DEF Answered
    <3>2. PICK store \in BOOLEAN : store = TRUE
      OBVIOUS
    <3> QED BY <1>9, <2>1, <2>2, <2>4, <3>1, <3>2
  <2>5. CASE mem.ready /\ mem.err = "no"
    <3>1. cpu' = [cpu EXCEPT !.condi = 5, !.req = "idle"]
      BY <2>1, <2>5 DEF Answered
    <3>2. /\ IsCpu(c) /\ c.req = "idle" /\ c.condi = 5 /\ c.IR = i /\ c.addr = p /\ c.PC = cpu.PC /\ c.EPC = cpu.EPC
          /\ c.exl = cpu.exl /\ c.um = cpu.um /\ c.tlb = cpu.tlb /\ ~c.RegWrite
      BY <1>2, <1>3, <2>2, <3>1 DEF IsCpu
    <3> QED BY <1>10, <2>1, <2>5, <3>2
  <2> QED BY <2>3, <2>4, <2>5
<1>13. CASE StoreAnswered
  <2>1. i.op = "SW" /\ i.op \in Stores /\ i.op \in Loads \cup Stores /\ Answered(TRUE, Done)
    BY <1>2, <1>13 DEF StoreAnswered, Is, Stores
  <2>2. w /\ ~cpu.RegWrite /\ PlaceOK(i.op, p)
    BY <1>5, <1>7, <2>1
  <2>3. CASE ~mem.ready
    BY <1>8, <2>1, <2>3 DEF Answered
  <2>4. CASE mem.ready /\ mem.err # "no"
    <3>1. cpu' = [cpu EXCEPT !.req = "idle", !.exc = ErrorCode(TRUE), !.condi = 7]
      BY <2>1, <2>4 DEF Answered
    <3>2. PICK store \in BOOLEAN : store = TRUE
      OBVIOUS
    <3> QED BY <1>9, <2>1, <2>2, <2>4, <3>1, <3>2
  <2>5. CASE mem.ready /\ mem.err = "no"
    <3>1. PICK d : d = [Done EXCEPT !.req = "idle"] /\ cpu' = d
      BY <2>1, <2>5 DEF Answered
    <3>2. cpu'.req = "idle"
      BY <1>3, <3>1 DEF Done, IsCpu
    <3>7. Asked(i.op, p, w, saved) /\ InAccess(mem, saved, p, w)
      BY <1>7, <2>1
    <3>3. Over(m, p, w, saved)
      BY <1>2, <2>5, <3>2, <3>7, AccessOver
    <3>4. w = TRUE
      BY <2>2
    <3>5. Over(mem', cpu.addr, TRUE, saved)
      BY <1>2, <3>3, <3>4
    <3>6. cpu.condi \in {4, 6} /\ InstrOK(cpu.IR, saved) /\ cpu.IR.op \in Stores /\ PlaceOK(cpu.IR.op, cpu.addr)
      BY <1>2, <1>3, <2>1, <2>2
    <3> QED BY <2>2, <2>5, <3>1, <3>5, <3>6, StoreEnds
  <2> QED BY <2>3, <2>4, <2>5
<1> QED BY <1>4, <1>11, <1>12, <1>13 DEF Edge, Step

\* Step 5: a load is in the register; SB puts its byte into the word and stores it.
LEMMA FromStage5 ==
    ASSUME CpuInv, NEW busy \in BOOLEAN, Edge(busy), cpu.condi = 5
    PROVE  CpuInv' /\ (I!Next \/ UNCHANGED I!vars)
<1>1. Stage5(cpu, mem, saved)
  BY Middle DEF OneStage, Stage0, Stage1, Stage2, Stage3, Stage4, Stage6, Stage7
<1>2. PICK c, i, p, m : c = cpu' /\ i = cpu.IR /\ p = cpu.addr /\ m = mem'
  OBVIOUS
<1>3. /\ InstrOK(i, saved) /\ IsCpu(cpu) /\ cpu.PC \in Addr /\ cpu.PC = After(saved.pc) /\ reg \in Addr
      /\ cpu.EPC = saved.epc /\ cpu.exl = saved.exl /\ cpu.um = saved.um /\ cpu.tlb = saved.tlb
      /\ saved.epc \in Addr /\ saved.exl \in BOOLEAN /\ saved.um \in BOOLEAN /\ saved.fresh \in BOOLEAN
      /\ reg = (IF cpu.RegWrite /\ i.dst THEN cpu.WriteData ELSE saved.reg)
  <2>1. InstrOK(i, saved) /\ reg = (IF cpu.RegWrite /\ i.dst THEN cpu.WriteData ELSE saved.reg)
    BY <1>1, <1>2 DEF Stage5, CpuInv, Under
  <2>2. cpu.condi > 1 /\ cpu.condi # 3
    OBVIOUS
  <2>3. cpu.tlb = saved.tlb /\ cpu.PC = After(saved.pc) /\ cpu.PC \in Addr
    BY <2>2, Middle
  <2> QED BY <2>1, <2>3, Middle
<1>4. /\ cpu.req = "idle" /\ Quiet(mem, saved) /\ mem.bad = NoAddr /\ i.op \in {"LW", "LB", "SB"} /\ PlaceOK(i.op, p)
      /\ IF i.op = "SB" THEN ~cpu.RegWrite /\ mem.fx = 0
         ELSE /\ cpu.RegWrite /\ cpu.WriteData = p.a
              /\ Why(saved, p.a, TRUE, FALSE) = "no" /\ mem.fx \in Strokes(i.op, p.dev, saved)
  BY <1>1, <1>2 DEF Stage5, Loads
<1>5. Quiet(m, saved) /\ m.fx = mem.fx /\ m.bad = NoAddr
  BY <1>2, <1>4, MemIdle DEF Edge
<1>6. CASE Is(Loads) /\ EndWrite(cpu.PC)
  <2>1. i.op \in {"LW", "LB"}
    BY <1>2, <1>6 DEF Is, Loads
  <2>2. /\ IsCpu(c) /\ c.condi = 0 /\ ~c.RegWrite /\ c.req = "idle" /\ c.tlb = cpu.tlb
        /\ c.PC = cpu.PC /\ c.EPC = cpu.EPC /\ c.exl = cpu.exl /\ c.um = cpu.um
    BY <1>2, <1>3, <1>4, <1>6, EndWriteFields
  <2>3. p.dev # "vga" /\ p = (IF i.op \in Loads \cup Stores THEN cpu.addr ELSE NoPlace)
    BY <1>2, <1>4, <2>1 DEF PlaceOK, Loads
  <2>4. m.vga = (IF saved.fresh /\ p.dev # "vga" THEN 0 ELSE 1)
    BY <1>5, <2>3 DEF Quiet, Drawn
  <2>5. /\ i.op \in Loads \cup Stores => Why(saved, p.a, TRUE, i.op \in Stores) = "no"
        /\ m.fx \in IF i.op \in Loads \cup Stores THEN Strokes(i.op, p.dev, saved) ELSE {0}
    <3>1. (i.op \in Stores) = FALSE /\ i.op \in Loads
      BY <2>1 DEF Loads, Stores
    <3> QED BY <1>4, <1>5, <2>1, <3>1
  <2>6. RegAfter(reg, i, p.a, saved) /\ PcAfter(c.PC, i, saved)
    BY <1>3, <1>4, <2>1, <2>2 DEF RegAfter, PcAfter
  <2>7. /\ i.op \in {"ERET", "MFC0", "MTC0", "TLBWI"} => ~(saved.um /\ ~saved.exl)
        /\ i.op # "MTC0" => c.EPC = saved.epc /\ c.um = saved.um /\ c.exl = (saved.exl /\ i.op # "ERET")
        /\ i.op # "TLBWI" => c.tlb = saved.tlb
    BY <1>3, <2>1, <2>2
  <2>8. Does(i, p, c, m)
    BY <2>4, <2>5, <2>6, <2>7 DEF Does
  <2>9. cpu.condi \notin {0, 7} /\ c.EPC \in Addr /\ c.exl \in BOOLEAN /\ c.um \in BOOLEAN
    BY <1>3, <2>2
  <2>10. IsMem(m) /\ m.condi = -1 /\ ~m.ready /\ m.err = "no" /\ ~m.netOn /\ m.net \in {0, 3}
    BY <1>5 DEF Quiet
  <2> QED BY <1>2, <1>3, <2>2, <2>3, <2>8, <2>9, <2>10, Completed
<1>7. CASE Is({"SB"}) /\ cpu' = [cpu EXCEPT !.req = "write", !.condi = 6]
  <2>1. i.op = "SB" /\ ~cpu.RegWrite /\ mem.fx = 0
    BY <1>2, <1>4, <1>7 DEF Is
  <2>2. /\ IsCpu(c) /\ c.condi = 6 /\ c.IR = i /\ c.PC = cpu.PC /\ ~c.RegWrite /\ c.addr = p /\ c.req = "write"
        /\ c.EPC = cpu.EPC /\ c.exl = cpu.exl /\ c.um = cpu.um /\ c.tlb = cpu.tlb
    BY <1>2, <1>3, <1>7, <2>1 DEF IsCpu
  <2>3. NetAt(m, p) /\ Clean(m)
    BY <1>4, <1>5, <2>1 DEF PlaceOK, NetAt, Clean
  <2>4. InAccess(m, saved, p, TRUE)
    BY <1>5, <2>3, AccessBegins
  <2>5. Stage6(c, m, saved)
    BY <1>3, <1>4, <2>1, <2>2, <2>4 DEF Stage6
  <2> QED BY <1>2, <1>3, <2>1, <2>2, <2>5, GoesOn DEF OneStage
<1> QED BY <1>6, <1>7 DEF Edge, Step, Step5

\* Step 6: the word of SB is stored.
LEMMA FromStage6 ==
    ASSUME CpuInv, NEW busy \in BOOLEAN, Edge(busy), cpu.condi = 6
    PROVE  CpuInv' /\ (I!Next \/ UNCHANGED I!vars)
<1>1. Stage6(cpu, mem, saved)
  BY Middle DEF OneStage, Stage0, Stage1, Stage2, Stage3, Stage4, Stage5, Stage7
<1>2. PICK p, m : p = cpu.addr /\ m = mem'
  OBVIOUS
<1>3. PICK w \in BOOLEAN : w = TRUE
  OBVIOUS
<1>4. /\ IsCpu(cpu) /\ cpu.PC = After(saved.pc) /\ cpu.tlb = saved.tlb /\ cpu.exl = saved.exl /\ cpu.um = saved.um
      /\ saved.fresh \in BOOLEAN
      /\ InstrOK(cpu.IR, saved) /\ cpu.IR.op = "SB" /\ cpu.IR.op \in Stores /\ ~cpu.RegWrite
      /\ PlaceOK(cpu.IR.op, p) /\ cpu.req = "write" /\ InAccess(mem, saved, p, w)
  <2>1. /\ InstrOK(cpu.IR, saved) /\ cpu.IR.op = "SB" /\ cpu.IR.op \in Stores /\ ~cpu.RegWrite
        /\ PlaceOK("SB", p) /\ cpu.req = "write" /\ InAccess(mem, saved, p, TRUE)
    BY <1>1, <1>2 DEF Stage6, Stores
  <2>2. cpu.condi > 1 /\ cpu.condi # 3
    OBVIOUS
  <2>3. cpu.tlb = saved.tlb /\ cpu.PC = After(saved.pc)
    BY <2>2, Middle
  <2> QED BY <1>3, <2>1, <2>3, Middle
<1>5. Asked(cpu.IR.op, p, w, saved)
  BY <1>2, <1>3, <1>4 DEF Asked
<1>6. Answered(TRUE, Done)
  <2>1. Step6
    BY DEF Edge, Step
  <2> QED BY <2>1 DEF Step6
<1>7. CASE ~mem.ready
  <2>1. cpu' = cpu
    BY <1>6, <1>7 DEF Answered
  <2>2. InAccess(m, saved, p, w)
    BY <1>2, <1>4, <1>5, <1>7, <2>1, AccessWaits
  <2>3. Stage6(cpu', m, saved)
    BY <1>2, <1>3, <1>4, <2>1, <2>2 DEF Stage6
  <2> QED BY <1>2, <1>4, <2>1, <2>3, GoesOn DEF OneStage
<1>8. CASE mem.ready /\ mem.err # "no"
  <2>2. PICK code : code = ErrorCode(w) /\ Refusal(code)
    BY <1>3, <1>6, <1>8 DEF Answered, Refusal
  <2>3. cpu'.req = "idle"
    BY <1>4, <2>2 DEF Refusal, IsCpu
  <2>4. Over(mem', p, w, saved)
    BY <1>4, <1>5, <1>8, <2>3, AccessOver
  <2>5. cpu.condi \in {4, 6}
    OBVIOUS
  <2> QED BY <1>4, <1>8, <2>2, <2>4, <2>5, AccessFails
<1>9. CASE mem.ready /\ mem.err = "no"
  <2>1. PICK d : d = [Done EXCEPT !.req = "idle"] /\ cpu' = d
    BY <1>6, <1>9 DEF Answered
  <2>2. cpu'.req = "idle"
    BY <1>4, <2>1 DEF Done, IsCpu
  <2>3. Over(mem', p, w, saved)
    BY <1>4, <1>5, <1>9, <2>2, AccessOver
  <2>4. Over(mem', cpu.addr, TRUE, saved) /\ PlaceOK(cpu.IR.op, cpu.addr) /\ cpu.condi \in {4, 6}
    BY <1>2, <1>3, <1>4, <2>3
  <2> QED BY <1>4, <1>9, <2>1, <2>4, StoreEnds
<1> QED BY <1>7, <1>8, <1>9

\* Step 7: the exception.
LEMMA FromStage7 ==
    ASSUME CpuInv, NEW busy \in BOOLEAN, Edge(busy), cpu.condi = 7
    PROVE  CpuInv' /\ (I!Next \/ UNCHANGED I!vars)
<1>1. Stage7(cpu, mem, saved)
  BY Middle DEF OneStage, Stage0, Stage1, Stage2, Stage3, Stage4, Stage5, Stage6
<1>2. PICK c, m : c = cpu' /\ m = mem'
  OBVIOUS
<1>3. /\ IsCpu(cpu) /\ cpu.PC = After(saved.pc) /\ cpu.tlb = saved.tlb /\ cpu.exl = saved.exl /\ cpu.um = saved.um
      /\ cpu.EPC = saved.epc /\ Before(After(saved.pc)) = saved.pc /\ saved.pc \in Addr /\ saved.epc \in Addr
      /\ saved.fresh \in BOOLEAN /\ saved.exl \in BOOLEAN /\ saved.um \in BOOLEAN /\ reg \in Addr
      /\ cpu.req = "idle" /\ ~cpu.RegWrite /\ Quiet(mem, saved) /\ mem.fx = 0 /\ Cause(cpu.exc, mem.bad, saved)
      /\ reg = saved.reg /\ Vector \in Addr
  BY <1>1, Middle, CpuAssumption DEF Stage7, CpuInv, Under, Addr
<1>4. Quiet(m, saved)
  BY <1>2, <1>3, MemIdle DEF Edge
<1>5. /\ IsCpu(c) /\ c.condi = 0 /\ c.PC = Vector /\ c.exl = TRUE /\ c.um = cpu.um /\ c.tlb = cpu.tlb
      /\ ~c.RegWrite /\ c.req = "idle" /\ c.EPC = IF cpu.exl THEN cpu.EPC ELSE Before(cpu.PC)
  <2>1. EnterException
    BY DEF Edge, Step
  <2>2. PICK d, e : d = Done /\ e = IF cpu.exl THEN cpu.EPC ELSE Before(cpu.PC)
    OBVIOUS
  <2>3. /\ IsCpu(d) /\ d.condi = 0 /\ d.PC = cpu.PC /\ d.EPC = cpu.EPC /\ d.exl = cpu.exl /\ d.um = cpu.um
        /\ d.tlb = cpu.tlb /\ (d.RegWrite <=> cpu.RegWrite) /\ d.req = cpu.req
    BY <1>3, <2>2, DoneFields
  <2>4. c = [d EXCEPT !.EPC = e, !.exl = TRUE, !.PC = Vector]
    <3>1. c = [d EXCEPT !.EPC = IF cpu.exl THEN d.EPC ELSE Before(cpu.PC), !.exl = TRUE, !.PC = Vector]
      BY <1>2, <2>1, <2>2 DEF EnterException
    <3> QED BY <2>2, <2>3, <3>1
  <2> QED BY <1>3, <2>2, <2>3, <2>4 DEF IsCpu
<1>6. /\ c.EPC \in Addr /\ c.EPC = IF saved.exl THEN saved.epc ELSE saved.pc
  BY <1>3, <1>5
<1>7. /\ IsMem(m) /\ m.condi = -1 /\ ~m.ready /\ m.err = "no" /\ ~m.netOn /\ m.net \in {0, 3}
      /\ m.vga = IF saved.fresh THEN 0 ELSE 1
  BY <1>4 DEF Quiet, Drawn
<1>8. /\ CpuInv' /\ event = [kind |-> "none"] /\ event' = Report
      /\ saved' = [pc |-> c.PC, epc |-> c.EPC, reg |-> reg, exl |-> c.exl, um |-> c.um,
                   tlb |-> c.tlb, fresh |-> m.vga = 0]
  <2>1. cpu'.exl \in BOOLEAN /\ cpu'.um \in BOOLEAN /\ mem'.vga \in {0, 1} /\ cpu.condi # 0 /\ cpu'.PC \in Addr
    <3>1. c.exl \in BOOLEAN /\ c.um \in BOOLEAN
      BY <1>3, <1>5
    <3>2. m.vga \in {0, 1} /\ c.PC \in Addr /\ cpu.condi # 0
      BY <1>3, <1>5, <1>7
    <3> QED BY <1>2, <3>1, <3>2
  <2>2. /\ CpuInv' /\ event = [kind |-> "none"] /\ event' = Report
        /\ saved' = [pc |-> cpu'.PC, epc |-> cpu'.EPC, reg |-> reg, exl |-> cpu'.exl, um |-> cpu'.um,
                     tlb |-> cpu'.tlb, fresh |-> mem'.vga = 0]
    BY <1>2, <1>3, <1>5, <1>6, <1>7, <2>1, Ended
  <2> QED BY <1>2, <2>2
<1>9. /\ event' = [kind |-> "exception", code |-> cpu.exc, bad |-> mem.bad, fx |-> 0]
  BY <1>3, <1>8 DEF Report
<1>10. /\ saved'.pc = Vector /\ saved'.exl = TRUE /\ saved'.epc = (IF saved.exl THEN saved.epc ELSE saved.pc)
       /\ saved'.reg = saved.reg /\ saved'.um = saved.um /\ saved'.tlb = saved.tlb /\ saved'.fresh = saved.fresh
  BY <1>3, <1>5, <1>6, <1>7, <1>8
<1>11. PICK code, bad : code = cpu.exc /\ bad = mem.bad
  OBVIOUS
<1>12. I!Except(code, bad)
  BY <1>9, <1>10, <1>11 DEF I!Except
<1>13. \A a, al, x : I!Refused(a, al, x) = Why(saved, a, al, x)
  BY DEF I!Refused, I!User, Why
<1>14. \A a, al, x : Faults(code, bad, saved, a, al, x) => I!MemFault(a, al, x)
  BY <1>12, <1>13 DEF Faults, I!MemFault
<1>15. I!Exception
  <2>1. Cause(code, bad, saved)
    BY <1>3, <1>11
  <2>2. CASE ~saved.exl /\ code = "Int" /\ bad = NoAddr
    BY <1>12, <2>2 DEF I!Exception
  <2>3. CASE Faults(code, bad, saved, saved.pc, TRUE, FALSE)
    BY <1>14, <2>3 DEF I!Exception
  <2>4. ASSUME Why(saved, saved.pc, TRUE, FALSE) = "no", code \in {"Sys", "RI"}, bad = NoAddr
        PROVE  I!Exception
    BY <1>12, <1>13, <2>4 DEF I!Exception, I!Fetched
  <2>5. ASSUME Why(saved, saved.pc, TRUE, FALSE) = "no", code = "CpU", saved.um /\ ~saved.exl, bad = NoAddr
        PROVE  I!Exception
    BY <1>12, <1>13, <2>5 DEF I!Exception, I!Fetched, I!User
  <2>6. ASSUME Why(saved, saved.pc, TRUE, FALSE) = "no", NEW a \in Addr, NEW al \in BOOLEAN, NEW st \in BOOLEAN,
               Faults(code, bad, saved, a, al, st)
        PROVE  I!Exception
    <3>1. I!MemFault(a, al, st) /\ a \in I!Addr
      BY <1>14, <2>6 DEF I!Addr, Addr
    <3> QED BY <1>13, <2>6, <3>1 DEF I!Exception, I!Fetched
  <2> QED BY <2>1, <2>2, <2>3, <2>4, <2>5, <2>6 DEF Cause
<1> QED BY <1>8, <1>15 DEF I!Next, I!Idle

\* The network chip's clock: the programs see nothing of it.
LEMMA NetClockKeeps ==
    ASSUME CpuInv, NetClock
    PROVE  CpuInv' /\ UNCHANGED I!vars
<1>1. cpu' = cpu /\ reg' = reg /\ saved' = saved /\ event' = event /\ mem.netOn
  BY DEF NetClock
<1>2. UNCHANGED I!vars
  BY <1>1 DEF I!vars
<1>3. PICK p : p = cpu.addr
  OBVIOUS
<1>4. PICK w \in BOOLEAN : w = (cpu.req = "write")
  OBVIOUS
<1>5. ASSUME NEW op, PlaceOK(op, p), InAccess(mem, saved, p, w) PROVE InAccess(mem', saved, p, w)
  BY <1>3, <1>4, <1>5, NetClockStep
<1>6. OneStage(cpu, reg, mem', saved)
  <2>1. ~Quiet(mem, saved)
    BY <1>1 DEF Quiet
  <2>2. Stage1(cpu, mem, saved) \/ Stage4(cpu, mem, saved) \/ Stage6(cpu, mem, saved)
    BY <2>1, Middle DEF OneStage, Stage0, Stage2, Stage3, Stage5, Stage7
  <2>3. CASE Stage1(cpu, mem, saved)
    <3>1. w = FALSE /\ PlaceOK("fetch", p) /\ InAccess(mem, saved, p, w)
      BY <1>3, <1>4, <2>3 DEF Stage1
    <3>2. InAccess(mem', saved, p, w)
      BY <1>5, <3>1
    <3> QED BY <1>3, <2>3, <3>1, <3>2 DEF Stage1, OneStage
  <2>4. CASE Stage4(cpu, mem, saved)
    <3>1. /\ cpu.IR.op \in Loads \cup Stores /\ ~cpu.RegWrite /\ PlaceOK(cpu.IR.op, p)
          /\ cpu.req = (IF cpu.IR.op = "SW" THEN "write" ELSE "read") /\ InAccess(mem, saved, p, w)
      BY <1>3, <1>4, <2>1, <2>4 DEF Stage4
    <3>2. InAccess(mem', saved, p, w)
      BY <1>5, <3>1
    <3>3. Stage4(cpu, mem', saved)
      BY <1>3, <1>4, <2>4, <3>1, <3>2 DEF Stage4
    <3> QED BY <3>3 DEF OneStage
  <2>5. CASE Stage6(cpu, mem, saved)
    <3>1. w = TRUE /\ PlaceOK("SB", p) /\ InAccess(mem, saved, p, w)
      BY <1>3, <1>4, <2>5 DEF Stage6
    <3>2. InAccess(mem', saved, p, w)
      BY <1>5, <3>1
    <3> QED BY <1>3, <2>5, <3>1, <3>2 DEF Stage6, OneStage
  <2> QED BY <2>2, <2>3, <2>4, <2>5
<1>7. CpuInv'
  BY <1>1, <1>6 DEF CpuInv, OneStage
<1> QED BY <1>2, <1>7

-----------------------------------------------------------------------------
\* After reset nothing has been drawn and no request is up.
LEMMA AtReset == Init => CpuInv /\ event = I!Idle
<1> SUFFICES ASSUME Init PROVE CpuInv /\ event = I!Idle
  OBVIOUS
<1>1. PICK e \in Addr, r \in IO :
        cpu = [condi |-> 0, PC |-> r, IR |-> NoInstr, alu |-> NoAddr, EPC |-> e, exl |-> TRUE, um |-> TRUE,
               tlb |-> [a \in 0 .. UserTop - 1 |-> "none"], exc |-> "none", RegWrite |-> FALSE,
               WriteData |-> NoAddr, mult |-> 0, req |-> "idle", addr |-> NoPlace]
  BY DEF Init
<1>2. /\ IsCpu(cpu) /\ cpu.condi = 0 /\ cpu.PC = r /\ cpu.EPC = e /\ cpu.exl = TRUE /\ cpu.um = TRUE
      /\ ~cpu.RegWrite /\ cpu.req = "idle"
  BY <1>1 DEF IsCpu
<1>3. /\ IsMem(mem) /\ mem.condi = -1 /\ ~mem.ready /\ mem.err = "no" /\ ~mem.netOn /\ mem.net = 0 /\ mem.vga = 0
  BY DEF Init, IsMem
<1>4. saved = State /\ reg \in Addr /\ event = [kind |-> "none"]
  BY DEF Init
<1>5. /\ DOMAIN saved = {"pc", "epc", "reg", "exl", "um", "tlb", "fresh"}
      /\ saved.pc = r /\ saved.epc = e /\ saved.reg = reg /\ saved.exl = TRUE /\ saved.um = TRUE
      /\ saved.tlb = cpu.tlb /\ saved.fresh = TRUE
  BY <1>2, <1>3, <1>4 DEF State
<1>6. r \in Addr
  BY CpuAssumption DEF Addr
<1>7. Under(cpu, reg, saved)
  <2>1. e \in Addr /\ ~(cpu.condi > 1) /\ reg = saved.reg
    BY <1>2, <1>5
  <2> QED BY <1>2, <1>4, <1>5, <1>6, <2>1 DEF Under
<1>8. Stage0(cpu, reg, mem, saved)
  BY <1>2, <1>3, <1>5 DEF Stage0, Quiet, Drawn
<1> QED BY <1>4, <1>7, <1>8 DEF CpuInv, I!Idle

\* Every step is one of the programs' steps or none.
LEMMA StepImplements ==
    ASSUME CpuInv, [Next]_vars
    PROVE  CpuInv' /\ (I!Next \/ UNCHANGED I!vars)
<1>1. ASSUME NEW busy \in BOOLEAN, Edge(busy) PROVE CpuInv' /\ (I!Next \/ UNCHANGED I!vars)
  <2>1. cpu.condi \in 0 .. 7
    BY <1>1 DEF Edge, Step
  <2>2. cpu.condi \in {0, 1, 2, 3, 4, 5, 6, 7}
    BY <2>1
  <2> QED BY <1>1, <2>2, FromStage0, FromStage1, FromStage2, FromStage3, FromStage4, FromStage5, FromStage6, FromStage7
<1>2. CASE NetClock
  BY <1>2, NetClockKeeps
<1>3. CASE UNCHANGED vars
  <2>1. cpu' = cpu /\ reg' = reg /\ saved' = saved /\ event' = event /\ mem' = mem
    BY <1>3 DEF vars
  <2>2. CpuInv' /\ UNCHANGED I!vars
    BY <2>1 DEF CpuInv, I!vars
  <2> QED BY <2>2
<1> QED BY <1>1, <1>2, <1>3 DEF Next, Clock

\* The states of the machine inside an instruction: what has been fetched and answered, and
\* what the instruction has not done yet.
THEOREM CpuInvariant == Spec => []CpuInv
<1>1. Init => CpuInv
  BY AtReset
<1>2. CpuInv /\ [Next]_vars => CpuInv'
  BY StepImplements
<1> QED BY <1>1, <1>2, PTL DEF Spec

\* The state machines of cpu.vhd and phy_mem.vhd carry out an instruction as one step,
\* once, with the word that was asked for; or they take an exception whose EPC is that
\* instruction, before any of its effects: for any memory, any devices, any time they take.
THEOREM Implements == Spec => CpuImplements
<1>1. Init => CpuInv /\ event = I!Idle
  BY AtReset
<1>2. CpuInv /\ [Next]_vars => CpuInv' /\ [I!Next]_(I!vars)
  BY StepImplements
<1> QED BY <1>1, <1>2, PTL DEF Spec, CpuImplements, I!Spec
=============================================================================
