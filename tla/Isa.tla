-------------------------------- MODULE Isa ---------------------------------
(***************************************************************************)
(* The machine as its programs see it: one step executes one instruction   *)
(* completely, or takes one exception and does nothing else.               *)
(*                                                                         *)
(* An address stands for a word: 0 .. UserTop-1 are translated by the TLB, *)
(* the others are the kernel's (0x80000000 and above), of which those in   *)
(* IO are devices or nothing at all.  A word is named by an address: the   *)
(* register reg holds one, and a load of word a puts a into it.            *)
(***************************************************************************)
EXTENDS Integers

CONSTANTS N, UserTop, IO, Vector, NoAddr

VARIABLES
    pc, epc,
    reg,        \* one general register; the others are not followed
    exl, um,    \* Status(1) and Status(4)
    tlb,        \* per user address: "none", "ro" or "rw"
    fresh,      \* nothing has been drawn since power-up
    event       \* how the last instruction ended; Idle once the next one starts

vars == <<pc, epc, reg, exl, um, tlb, fresh, event>>

Addr == 0 .. N - 1
After(a) == (a + 1) % N
Idle == [kind |-> "none"]

Loads  == {"LW", "LB"}
Stores == {"SW", "SB"}
Privileged == {"ERET", "MFC0", "MTC0", "TLBWI"}
User == um /\ ~exl

\* What is wrong with an access to a word.
Refused(a, aligned, write) ==
    IF ~aligned \/ (User /\ a >= UserTop) THEN "address"
    ELSE IF a >= UserTop THEN "no"
    ELSE IF tlb[a] = "none" THEN "miss"
    ELSE IF write /\ tlb[a] = "ro" THEN "modified" ELSE "no"

-----------------------------------------------------------------------------
\* An exception: EPC is the instruction to come back to, unless one is being handled.
Except(code, bad) ==
    /\ event' = [kind |-> "exception", code |-> code, bad |-> bad, fx |-> 0]
    /\ pc' = Vector /\ exl' = TRUE
    /\ epc' = IF exl THEN epc ELSE pc
    /\ UNCHANGED <<reg, um, tlb, fresh>>

MemFault(a, aligned, store) ==
    LET why == Refused(a, aligned, store) IN
    \/ why = "address" /\ Except(IF store THEN "AdES" ELSE "AdEL", a)
    \/ why = "miss" /\ Except(IF store THEN "TLBS" ELSE "TLBL", a)
    \/ why = "modified" /\ Except("Mod", a)
    \/ why = "no" /\ a \in IO /\ Except(IF store THEN "AdES" ELSE "AdEL", a)

Fetched == Refused(pc, TRUE, FALSE) = "no"

Exception ==
    \/ ~exl /\ Except("Int", NoAddr)
    \/ MemFault(pc, TRUE, FALSE)
    \/ Fetched /\ \/ Except("Sys", NoAddr) \/ Except("RI", NoAddr)
                  \/ User /\ Except("CpU", NoAddr)
                  \/ \E a \in Addr, al, st \in BOOLEAN : MemFault(a, al, st)

-----------------------------------------------------------------------------
\* How often an access reaches its device: once, if it changes something there.
Reaches(e) ==
    IF e.dev = "vga" THEN IF fresh THEN {1, 2} ELSE {1}
    ELSE IF \/ e.op \in Stores /\ e.dev # "rom"
            \/ e.op = "LW" /\ e.dev \in {"com", "index", "data"} THEN {1} ELSE {0}

\* The instruction that was fetched from pc is carried out once.
Execute ==
    /\ Fetched
    /\ event'.kind = "executed" /\ event'.at = pc
    /\ LET e == event' IN
        /\ (e.op \in Privileged) => ~User
        /\ (e.op \in Loads \cup Stores) => Refused(e.a, TRUE, e.op \in Stores) = "no"
        /\ e.fx \in IF e.op \in Loads \cup Stores THEN Reaches(e) ELSE {0}
        /\ ~e.dst => reg' = reg
        /\ (e.dst /\ e.op \in Loads) => reg' = e.a
        /\ (e.dst /\ e.op \in {"JAL", "JALR"}) => reg' = After(pc)
        /\ e.op \notin {"B", "J", "JAL", "JR", "JALR", "ERET"} => pc' = After(pc)
        /\ (e.op = "JR" /\ e.src) => pc' = reg
        /\ (e.op = "JALR" /\ e.src) =>    \* source and target may be the same register
               pc' \in IF e.dst THEN {reg, After(pc)} ELSE {reg}
        /\ e.op = "ERET" => pc' = epc
        /\ reg' \in Addr /\ pc' \in Addr
        /\ \/ e.op = "MTC0"
           \/ e.op # "MTC0" /\ epc' = epc /\ um' = um /\ exl' = (exl /\ e.op # "ERET")
        /\ e.op # "TLBWI" => tlb' = tlb
        /\ fresh' = (fresh /\ e.dev # "vga")

Begin == event # Idle /\ event' = Idle /\ UNCHANGED <<pc, epc, reg, exl, um, tlb, fresh>>

Next == \/ Begin
        \/ event = Idle /\ (Exception \/ Execute)

Spec == event = Idle /\ [][Next]_vars
=============================================================================
