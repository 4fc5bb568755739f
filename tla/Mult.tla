--------------------------------- MODULE Mult ---------------------------------
(***************************************************************************)
(* src/source/mycpu/mult.sv with multmult.sv and multdiv.sv: the unit that *)
(* leaves HI and LO.  The multiplier registers four partial products and   *)
(* is done a cycle later; the divider shifts and subtracts, one bit of the *)
(* quotient each cycle.  An instruction waits in E until `done`, perhaps   *)
(* longer, and starts over if it does.                                     *)
(***************************************************************************)
EXTENDS Integers

CONSTANT Width  \* bits of a word; 32 in the code

ASSUME MultAssumption == Width \in Nat \ {0} /\ Width % 2 = 0

VARIABLES
  ctrl, SrcA, SrcB,          \* the instruction in E and its operands
  a, b,                      \* the operands of the last cycle, kept when E has none
  mulState, products,        \* multmult
  divState, divCount, p      \* multdiv

multVars == <<ctrl, SrcA, SrcB, a, b, mulState, products, divState, divCount, p>>

\* A recursive function and not `^`, so that it can be reasoned about.
Power[n \in Nat] == IF n = 0 THEN 1 ELSE 2 * Power[n - 1]

Base == Power[Width]
Half == Power[Width \div 2]
Word == 0 .. Base - 1

MultTypeOK ==
  /\ ctrl \in {"CLR", "MULT", "MULTU", "DIV", "DIVU"}
  /\ SrcA \in Word /\ SrcB \in Word /\ a \in Word /\ b \in Word
  /\ mulState \in {"INIT", "DOING"} /\ products \in [1 .. 4 -> Word]
  /\ divState \in {"INIT", "DOING"} /\ divCount \in 0 .. Base
  /\ p \in 0 .. Base * Base - 1

Negative(x)     == x >= Base \div 2
Negated(x)      == (Base - x) % Base
Negated2(x)     == (Base * Base - x) % (Base * Base)
Magnitude(x)    == IF Negative(x) THEN Negated(x) ELSE x
SignsDiffer     == Negative(SrcA) # Negative(SrcB)

MultInit ==
  /\ ctrl = "CLR" /\ SrcA = 0 /\ SrcB = 0 /\ a = 0 /\ b = 0
  /\ mulState = "INIT" /\ products = [k \in 1 .. 4 |-> 0]
  /\ divState = "INIT" /\ divCount = 0 /\ p = 0

\* What the two units are given: magnitudes for the signed instructions.
OperandA == CASE ctrl = "CLR" -> a [] ctrl \in {"MULT", "DIV"} -> Magnitude(SrcA) [] OTHER -> SrcA
OperandB == CASE ctrl = "CLR" -> b [] ctrl \in {"MULT", "DIV"} -> Magnitude(SrcB) [] OTHER -> SrcB

mult_valid == ctrl \in {"MULT", "MULTU"}
div_valid  == ctrl \in {"DIV", "DIVU"}

-------------------------------------------------------------------------------
\* Slip: the middle products are exchanged with the high one.
PartialProductsShifted ==
  LET al == OperandA % Half  ah == OperandA \div Half
      bl == OperandB % Half  bh == OperandB \div Half IN
  <<al * bl, al * bh, al * bh, ah * bh>>

PartialProducts ==
  LET al == OperandA % Half  ah == OperandA \div Half
      bl == OperandB % Half  bh == OperandB \div Half IN
  <<al * bl, al * bh, ah * bl, ah * bh>>

\* c of multmult.
Product == (products[1] + (products[2] + products[3]) * Half + products[4] * Base) % (Base * Base)

NextMulState == IF mulState = "DOING" THEN "INIT" ELSE IF mult_valid THEN "DOING" ELSE "INIT"

\* Slip: the shift rounds up.
NextCountRounded ==
  IF divState = "INIT" THEN IF div_valid THEN Base ELSE divCount
  ELSE (divCount + 1) \div 2

\* The count is a one that is shifted out.
NextCount ==
  IF divState = "INIT" THEN IF div_valid THEN Base ELSE divCount
  ELSE divCount \div 2

\* Slip: one cycle is saved.
NextDivStateEarly ==
  IF divState = "INIT" THEN IF div_valid THEN "DOING" ELSE "INIT"
  ELSE IF NextCount <= 1 THEN "INIT" ELSE "DOING"

NextDivState ==
  IF divState = "INIT" THEN IF div_valid THEN "DOING" ELSE "INIT"
  ELSE IF NextCount = 0 THEN "INIT" ELSE "DOING"

\* One step of restoring division: the remainder is the high word, the quotient grows in
\* the low one.
NextP ==
  IF divState = "INIT" THEN OperandA
  ELSE LET shifted == (2 * p) % (Base * Base) IN
       IF shifted \div Base >= OperandB THEN shifted - OperandB * Base + 1 ELSE shifted

done ==
  CASE mult_valid -> NextMulState = "INIT"
    [] div_valid  -> NextDivState = "INIT"
    [] OTHER      -> TRUE

\* hi and lo: the sign of the remainder is the dividend's.
HiLo ==
  CASE ctrl = "MULTU" -> <<Product \div Base, Product % Base>>
    [] ctrl = "MULT"  -> LET c == IF SignsDiffer THEN Negated2(Product) ELSE Product
                         IN  <<c \div Base, c % Base>>
    [] ctrl = "DIVU"  -> <<p \div Base, p % Base>>
    [] ctrl = "DIV"   -> <<IF Negative(SrcA) THEN Negated(p \div Base) ELSE p \div Base,
                           IF SignsDiffer THEN Negated(p % Base) ELSE p % Base>>
    [] OTHER          -> <<0, 0>>

-------------------------------------------------------------------------------
UnitsStep ==
  /\ a' = OperandA /\ b' = OperandB
  /\ mulState' = NextMulState /\ products' = PartialProducts
  /\ divState' = NextDivState /\ divCount' = NextCount /\ p' = NextP

\* What E does meanwhile: it takes another instruction when it has none or its own is
\* done, it holds it, or an interrupt empties it.
TakesNext ==
  /\ ctrl = "CLR" \/ done
  /\ ctrl' \in {"CLR", "MULT", "MULTU", "DIV", "DIVU"}
  /\ IF ctrl' = "CLR" THEN SrcA' = 0 /\ SrcB' = 0 ELSE SrcA' \in Word /\ SrcB' \in Word

Holds  == UNCHANGED <<ctrl, SrcA, SrcB>>
Killed == ctrl # "CLR" /\ ctrl' = "CLR" /\ SrcA' = 0 /\ SrcB' = 0

\* An instruction that is not held back leaves when it is done.
Take  == UnitsStep /\ TakesNext
Hold  == UnitsStep /\ Holds
Abort == UnitsStep /\ Killed

\* Without interrupts, and with them.
MultNext        == Take \/ Hold
InterruptedNext == MultNext \/ Abort

MultSpec        == MultInit /\ [][MultNext]_multVars
InterruptedSpec == MultInit /\ [][InterruptedNext]_multVars

\* The clock runs; an instruction that is held back does its work again.
MultFairSpec == MultSpec /\ WF_multVars(MultNext)

-------------------------------------------------------------------------------
\* Two's complement, and division that truncates.
Signed(x)    == IF Negative(x) THEN x - Base ELSE x
AbsOf(n)     == IF n < 0 THEN -n ELSE n
SignOf(n)    == IF n < 0 THEN -1 ELSE 1
Quotient(n, d)  == SignOf(n) * SignOf(d) * (AbsOf(n) \div AbsOf(d))
Remainder(n, d) == n - d * Quotient(n, d)

\* "c = a * b", "c = {a % b, a / b}": whatever was computed before, and however long the
\* instruction was held back, HI and LO are the product, or the remainder and quotient.
\* Division by zero has no result.
ResultCorrect ==
  done =>
    LET x == Signed(SrcA)  y == Signed(SrcB) IN
    /\ ctrl = "MULTU" => HiLo[1] * Base + HiLo[2] = SrcA * SrcB
    /\ ctrl = "MULT"  => HiLo[1] * Base + HiLo[2] = (x * y) % (Base * Base)
    /\ ctrl = "DIVU" /\ SrcB # 0 => HiLo = <<SrcA % SrcB, SrcA \div SrcB>>
    /\ ctrl = "DIV" /\ SrcB # 0  => HiLo = <<Remainder(x, y) % Base, Quotient(x, y) % Base>>

\* Every instruction is done some day, a division by zero included.
AlwaysDone == ctrl # "CLR" ~> done
===============================================================================
