-------------------------------- MODULE Mips ----------------------------------
(***************************************************************************)
(* What a program may assume of either core: instructions are executed one *)
(* at a time in program order, branches have one delay slot, an exception  *)
(* leaves no trace of its instruction but EPC, Cause and Status.EXL, and   *)
(* an interrupt is taken between two instructions.                         *)
(*                                                                         *)
(* The program is not fixed: any of Instructions may be met at any address.*)
(* `ran` names the one executed last, so that an implementation has to     *)
(* account for the effect of the very instruction it has executed.         *)
(***************************************************************************)
EXTENDS MipsInstr

VARIABLES
  pc,      \* the next instruction
  npc,     \* the one after it
  slot,    \* the next instruction is in a delay slot
  regs,
  hi,
  mem,     \* memory, by word address
  compare, \* a CP0 register that software reads and writes
  exl,     \* Status.EXL
  epc,
  bd,      \* Cause.BD
  cause,   \* Cause.ExcCode
  ran      \* the instruction executed last, or the interrupt taken

mipsVars == <<pc, npc, slot, regs, hi, mem, compare, exl, epc, bd, cause, ran>>

MipsTypeOK ==
  /\ pc \in PC /\ npc \in PC /\ slot \in BOOLEAN
  /\ regs \in [Reg -> Val] /\ hi \in Val /\ mem \in [Val -> Val] /\ compare \in Val
  /\ exl \in BOOLEAN /\ epc \in PC \cup {0} /\ bd \in BOOLEAN
  /\ cause \in ExcCode \cup {"none"}
  /\ ran \in Instr \cup {Interrupt}

\* Out of reset the pipeline issues a no-op for the word before the first, the reference
\* CPU does not.
MipsInit ==
  /\ pc \in {Boot, Pred(Boot)} /\ npc = Succ(pc) /\ slot = FALSE
  /\ regs = [r \in Reg |-> 0] /\ hi = 0 /\ mem = [v \in Val |-> 0] /\ compare = 0
  /\ exl = FALSE /\ epc = 0 /\ bd = FALSE /\ cause = "none"
  /\ ran = Nop

\* Software keeps branches and ERET out of delay slots and sets EPC before it returns.
Allowed(i) == /\ slot => ~BranchDelay(i) /\ i.op # "eret"
              /\ i.op = "eret" => epc # 0

Throw(code) ==
  /\ pc' = Handler /\ npc' = Succ(Handler) /\ slot' = FALSE
  /\ exl' = TRUE /\ cause' = code
  /\ epc' = IF exl THEN epc ELSE IF slot THEN Pred(pc) ELSE pc
  /\ bd' = IF exl THEN bd ELSE slot
  /\ UNCHANGED <<regs, hi, mem, compare>>

Return ==
  /\ pc' = epc /\ npc' = Succ(epc) /\ slot' = FALSE
  /\ exl' = FALSE
  /\ UNCHANGED <<regs, hi, mem, compare, epc, bd, cause>>

Complete(i, a, b) ==
  /\ pc' = npc
  /\ npc' = IF PCSrc(i, a, b) THEN PCBranch(i, a) ELSE Succ(npc)
  /\ slot' = BranchDelay(i)
  /\ regs' = CASE MemtoReg(i)      -> WriteReg(regs, i.dst, mem[a])
               [] i.op = "mfhi"    -> WriteReg(regs, i.dst, hi)
               [] i.op = "mfc0"    -> WriteReg(regs, i.dst, compare)
               [] i.op = "jal"     -> WriteReg(regs, i.dst, Link(pc))
               [] i.op \in {"alu", "add"} -> WriteReg(regs, i.dst, Alu(a, b))
               [] OTHER            -> regs
  /\ hi' = CASE i.op = "mult" -> HiOf(a, b) [] i.op = "mthi" -> a [] OTHER -> hi
  /\ mem' = IF MemWrite(i) THEN [mem EXCEPT ![a] = b] ELSE mem
  /\ compare' = IF i.op = "mtc0" THEN b ELSE compare
  /\ UNCHANGED <<exl, epc, bd, cause>>

Execute(i) ==
  LET a == regs[i.rs]
      b == regs[i.rt]
      code == Raised(i, a, b, pc) IN
  /\ Allowed(i)
  /\ ran' = i
  /\ IF code # "none" THEN Throw(code)
     ELSE IF i.op = "eret" THEN Return
     ELSE Complete(i, a, b)

TakeInterrupt ==
  /\ Interrupts /\ ~exl
  /\ Throw("Int")
  /\ ran' = Interrupt

MipsNext == TakeInterrupt \/ \E i \in Instructions \cup {Nop} : Execute(i)

MipsSpec == MipsInit /\ [][MipsNext]_mipsVars
===============================================================================
