--------------------------- MODULE MyCoreImplements ---------------------------
(***************************************************************************)
(* The pipeline of MyCore.tla implements the architecture of Mips.tla, and *)
(* keeps its side of the bus handshakes.                                   *)
(***************************************************************************)
EXTENDS MyCore

\* The instruction that comes next is the oldest in F, D, E, unless E waits with an
\* exception or a return cp0 has recorded: then it is where that leads.
NextPC ==
  CASE taken = "exception" -> Handler
    [] taken = "eret"      -> cp0.epc
    [] OTHER -> IF ex.pc # 0 THEN ex.pc ELSE IF dec.pc # 0 THEN dec.pc ELSE pcF

\* A branch in E has redirected F already, a branch in D has not.
PCAfterNext ==
  IF taken # "no" \/ (ex.pc = 0 /\ dec.pc = 0) THEN Succ(NextPC)
  ELSE IF ex.pc # 0 THEN dec.pc ELSE pcF

NextInSlot == taken = "no" /\ IF ex.pc # 0 THEN ex.bd ELSE dec.bd

\* The registers once W and M have written theirs, memory once M has.
RegsAfterW == IF wb.write THEN WriteReg(regs, wb.dst, wb.result) ELSE regs

Executed ==
  IF me.write THEN WriteReg(RegsAfterW, me.dst, IF me.load THEN mem[me.out] ELSE me.out)
  ELSE RegsAfterW

MemAfterM == IF me.store THEN [mem EXCEPT ![me.out] = DataM] ELSE mem

\* HI without what the instruction in E is about to write.
HiBeforeE == IF HiWrite(ex.i) THEN kept ELSE hi

Arch == INSTANCE Mips WITH
  pc <- NextPC, npc <- PCAfterNext, slot <- NextInSlot,
  regs <- Executed, hi <- HiBeforeE, mem <- MemAfterM,
  compare <- cp0.compare, exl <- cp0.exl, epc <- cp0.epc, bd <- cp0.bd, cause <- cp0.cause

\* The registers, memory, HI, CP0 and the order of instructions, with their delay slots,
\* are at every clock what executing one instruction at a time makes of them: no hazard
\* is missed, nothing younger than an exception leaves a trace and nothing older is lost.
ImplementsMips == Arch!MipsSpec

\* "after an exception is detected, the pipeline is emptied and the PC of the next
\* instruction is set to 0xbfc00380": an exception cp0 has recorded is not forgotten.
ExceptionsRedirect == [][taken = "exception" /\ taken' = "no" => pcF' = Handler]_vars

\* "register 0 is read-only and always 0", whatever is forwarded.
ZeroIsZero == ex.pc # 0 /\ ex.i.rs = 0 => SrcA = 0

\* "CPU must wait for caches to complete memory transactions": an address, and with a store its
\* data, does not change before it is answered, although the data may come through a
\* forwarding path and the address from a program counter an exception redirects.
RequestsAreHeld ==
  [][\A in \in Inputs : Clock(in) =>
       /\ ~in.iok => <<pcF, validF>>' = <<pcF, validF>>
       /\ ~in.dok => <<me.load, me.store, me.out, DataM>>' = <<me.load, me.store, me.out, DataM>>]_vars

\* The operands of the multiplier do not move while it works, although the results they
\* were forwarded from leave M and W in the meantime.
MultOperandsHeld ==
  [][ex.i.op = "mult" /\ ex'.i.op = "mult" /\ ex'.pc = ex.pc /\ dec' = dec =>
       <<SrcA, WriteDataE>>' = <<SrcA, WriteDataE>>]_vars

\* With all that answers answering, the program goes on: no stall waits for a stall.
Progress == []<><<NextPC' # NextPC>>_vars
===============================================================================
