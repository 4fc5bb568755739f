------------------------------- MODULE MCRefCpu -------------------------------
(***************************************************************************)
(* Programs for the reference CPU: every sequence, with repetition, of one *)
(* instruction per state of its machine, over words of one bit.            *)
(***************************************************************************)
EXTENDS RefCpuImplements

\* Not commutative, so that swapped operands show.
OneBitAlu(a, b)  == IF a = 1 /\ b = 0 THEN 0 ELSE 1
OneBitHi(a, b)   == IF a = 0 /\ b = 1 THEN 1 ELSE 0
FirstOnly(a, b)  == a = 1 /\ b = 0
Same(a, b)       == a = b
LowBit(p)        == p % 2
ToFirst(v)       == v + 1

\* Operation, rs, rt and target register; operation, rs, rt and target address.
I(op, r, t, d)  == [op |-> op, rs |-> r, rt |-> t, dst |-> d, to |-> 1]
B(op, r, t, to) == [op |-> op, rs |-> r, rt |-> t, dst |-> 0, to |-> to]

RefProgram ==
  {I("alu", 0, 0, 1), I("add", 1, 0, 1), I("mult", 0, 1, 0), I("mfhi", 0, 0, 1),
   I("load", 1, 0, 1), I("store", 1, 1, 0), I("mtc0", 0, 1, 0), I("mfc0", 0, 0, 1),
   I("syscall", 0, 0, 0), I("reserved", 0, 0, 0), I("eret", 0, 0, 0),
   B("branch", 0, 1, 3), B("jr", 1, 0, 1), [I("jal", 0, 0, 1) EXCEPT !.to = 2]}
===============================================================================
