------------------------------- MODULE MCMyCore -------------------------------
(***************************************************************************)
(* Programs for the pipeline: every sequence, with repetition, of a few    *)
(* instructions over words of one bit.                                     *)
(***************************************************************************)
EXTENDS MyCoreImplements

\* Not commutative, so that swapped operands show.
OneBitAlu(a, b)  == IF a = 1 /\ b = 0 THEN 0 ELSE 1
OneBitHi(a, b)   == IF a = 0 /\ b = 1 THEN 1 ELSE 0
BothSet(a, b)    == a = 1 /\ b = 1
Never(a, b)      == FALSE
Same(a, b)       == a = b
LowBit(p)        == p % 2
ToFirst(v)       == v + 1

\* Operation, rs, rt and target register; operation, rs, rt and target address.
RA == NumRegs - 1
I(op, rs, rt, dst) == [op |-> op, rs |-> rs, rt |-> rt, dst |-> dst, to |-> 1]
B(op, rs, rt, to)  == [op |-> op, rs |-> rs, rt |-> rt, dst |-> 0, to |-> to]
J(rs, rt, to)      == [op |-> "jal", rs |-> rs, rt |-> rt, dst |-> RA, to |-> to]

\* Operands, results, HI and memory; MTHI takes its operand as it is in D.
DataProgram ==
  {I("alu", 0, 1, 1), I("alu", 1, 0, 1), I("mult", 1, 0, 0), I("mfhi", 0, 0, 1), I("mthi", 1, 0, 0),
   I("load", 1, 1, 1), I("store", 0, 1, 0), I("store", 1, 0, 0)}

\* Every exception, with what it must not disturb: older loads and stores that wait,
\* younger instructions, and branches around it.
ExceptionProgram ==
  {I("alu", 0, 0, 1), I("add", 1, 1, 1), I("load", 1, 1, 1), I("store", 1, 1, 0),
   I("syscall", 0, 0, 0), I("reserved", 1, 0, 1), I("eret", 0, 0, 0),
   B("branch", 0, 1, 3), B("jr", 1, 0, 1)}

\* Interrupts among branches, exceptions, returns and CP0 moves.  No load or store: one
\* that waits in M loses the interrupt, see LoadProgram; and no multiplication, which
\* may have written HI when the interrupt comes.
InterruptProgram ==
  {B("branch", 1, 0, 3), J(0, 0, 2), I("mtc0", 0, 1, 0), I("mfc0", 0, 1, 1),
   I("syscall", 0, 0, 0), I("eret", 0, 0, 0)}

\* A load, and what follows it.
LoadProgram == {I("alu", 0, 0, 0), I("load", 0, 1, 1)}

\* A CP0 register is written, read into $0, and $0 is used.
ZeroProgram == {I("alu", 0, 0, 1), I("mtc0", 0, 1, 0), I("mfc0", 0, 0, 0)}
===============================================================================
