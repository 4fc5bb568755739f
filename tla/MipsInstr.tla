------------------------------ MODULE MipsInstr -------------------------------
(***************************************************************************)
(* The instructions as src/source/mycpu/ControlUnit.sv decodes them.  The  *)
(* pipeline tells some forty opcodes apart only by where their operands    *)
(* come from and where their result goes, so there is one instruction here *)
(* per such class; what the ALU computes is a parameter.  LO, handled as   *)
(* HI, is left out, and so are immediates, which no hazard depends on.     *)
(***************************************************************************)
EXTENDS Integers

CONSTANTS
  NumPC,           \* program addresses are 1 .. NumPC, each the word after the other;
                   \* 0 is the PC of a bubble
  Misaligned,      \* the addresses that are not word aligned
  NumRegs,         \* registers 0 .. NumRegs - 1; register 0 is hardwired to zero
  Val,             \* words: 0 and others
  Aligned,         \* the words that are aligned as data addresses
  Alu(_, _),       \* what the ALU computes of two operands
  Overflow(_, _),  \* whether ADD overflows
  HiOf(_, _),      \* what the multiplier leaves in HI
  Equal(_, _),     \* whether a conditional branch is taken
  Link(_),         \* the word PC + 8
  Target(_),       \* the program address a word is
  Boot,            \* the first address of the program
  Handler,         \* the exception vector
  Instructions,    \* the instructions the program is made of
  Interrupts       \* whether there are interrupts, unmasked and enabled by software

PC  == 1 .. NumPC
Reg == 0 .. NumRegs - 1

ASSUME InstrAssumption ==
  /\ NumPC \in Nat \ {0} /\ NumRegs \in Nat \ {0}
  /\ Misaligned \subseteq PC
  /\ 0 \in Val /\ Aligned \subseteq Val
  /\ \A a, b \in Val :
       /\ Alu(a, b) \in Val /\ HiOf(a, b) \in Val
       /\ Overflow(a, b) \in BOOLEAN /\ Equal(a, b) \in BOOLEAN
  /\ \A p \in PC : Link(p) \in Val
  /\ \A v \in Val : Target(v) \in PC

\* The classes the decoder knows.
Op == {"alu", "add", "mult", "mfhi", "mthi", "load", "store", "branch", "jal", "jr",
       "mfc0", "mtc0", "syscall", "reserved", "eret"}

\* rs and rt are the fields of the word, operands or not; dst is the register the
\* instruction would write, 0 if none; `to` is where a branch or a jump goes.
Instr == [op: Op, rs: Reg, rt: Reg, dst: Reg, to: PC]

ASSUME ProgramAssumption ==
  /\ Boot \in PC /\ Handler \in PC
  /\ Instructions \subseteq Instr
  /\ Interrupts \in BOOLEAN

Succ(p) == IF p = NumPC THEN 1 ELSE p + 1
Pred(p) == IF p = 1 THEN NumPC ELSE p - 1

\* The word 0, sll $0, $0, 0: what a flush leaves in D.
Nop == [op |-> "alu", rs |-> 0, rt |-> 0, dst |-> 0, to |-> 1]

\* What an interrupt counts as.
Interrupt == [Nop EXCEPT !.op = "interrupt"]

\* An instruction whose successor is in a delay slot.
BranchDelay(i) == i.op \in {"branch", "jal", "jr"}

\* All but MFC0 and JAL check that the target is not $0.
RegWrite(i) ==
  \/ i.op \in {"mfc0", "jal"}
  \/ i.op \in {"alu", "add", "mfhi", "load", "reserved"} /\ i.dst # 0

MemtoReg(i) == i.op = "load"
MemWrite(i) == i.op = "store"
HiWrite(i)  == i.op \in {"mult", "mthi"}

\* Where a branch or a jump goes, and whether.
PCBranch(i, a) == IF i.op = "jr" THEN Target(a) ELSE i.to

PCSrc(i, a, b) == i.op \in {"jal", "jr"} \/ (i.op = "branch" /\ Equal(a, b))

\* The ALU result: rs and rt for the ALU classes, HI or the CP0 register for the moves,
\* the address for a load or a store (the offset is left out), PC + 8 for a link.
ALUOut(i, a, b, x, p) ==
  CASE i.op \in {"alu", "add"}    -> Alu(a, b)
    [] i.op \in {"mfhi", "mfc0"}  -> x
    [] i.op \in {"load", "store"} -> a
    [] i.op = "jal"               -> Link(p)
    [] OTHER                      -> 0

\* The exception an instruction raises by itself, of several the first in the order of
\* execute.sv.
Raised(i, a, b, p) ==
  IF p \in Misaligned THEN "AdEL"
  ELSE CASE i.op = "syscall"                 -> "Sys"
         [] i.op = "reserved"                -> "RI"
         [] i.op = "add" /\ Overflow(a, b)   -> "Ov"
         [] MemtoReg(i) /\ a \notin Aligned  -> "AdEL"
         [] MemWrite(i) /\ a \notin Aligned  -> "AdES"
         [] OTHER                            -> "none"

\* Writing a register file: $0 stays zero.
WriteReg(file, r, v) == IF r = 0 THEN file ELSE [file EXCEPT ![r] = v]

ExcCode == {"Int", "AdEL", "AdES", "Sys", "RI", "Ov"}
===============================================================================
