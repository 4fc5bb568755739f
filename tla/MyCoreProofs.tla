---------------------------- MODULE MyCoreProofs ------------------------------
(***************************************************************************)
(* Proofs about the pipeline, for every word size, register file, program  *)
(* and ALU, and for every way in which the instruction side, the memory,   *)
(* the multiplier and the interrupt lines may behave.                      *)
(***************************************************************************)
EXTENDS MyCoreImplements, TLAPS

\* PC 0 marks a stage without instruction.
BubblesAreNops ==
  /\ dec.pc = 0 => dec.i = Nop
  /\ ex.pc = 0 => ex.i = Nop

\* Software sets EPC before it returns, and EPC never becomes 0 again.
EretHasEpc == dec.i.op = "eret" \/ ex.i.op = "eret" => cp0.epc # 0

\* The forwarding path into M never changes the data of a store.
StoreDataFinal == me.store /\ wb.write /\ wb.dst = me.rt => me.data = wb.result

\* While a multiplication is in E no older result is left that it would be forwarded.
MultUndisturbed ==
  ex.i.op = "mult" =>
    /\ me.write => me.dst \notin {ex.i.rs, ex.i.rt}
    /\ wb.write => wb.dst \notin {ex.i.rs, ex.i.rt}

\* The word in F follows the one in D, unless there is a branch in E.
FetchedInOrder ==
  dec.pc # 0 /\ ex.pc # 0 /\ ~BranchDelay(ex.i) => pcF = Succ(dec.pc)

IInv ==
  /\ TypeOK
  /\ BubblesAreNops
  /\ EretHasEpc
  /\ StoreDataFinal
  /\ MultUndisturbed
  /\ FetchedInOrder

-------------------------------------------------------------------------------
\* The helpers of the model return what their names say.

\* The PCs are counted round, and 0, the PC of a bubble, is not one of them.
LEMMA PCType ==
  /\ \A p \in PC : Succ(p) \in PC /\ Pred(p) \in PC
  /\ 0 \notin PC
  /\ NumPC # 1 => \A p \in PC : Succ(p) # p
BY InstrAssumption DEF PC, Succ, Pred

\* The word of a bubble, and the word an interrupt turns an instruction into.
LEMMA NopType == Nop \in Instr /\ Nop.op = "alu" /\ Interrupt = [Nop EXCEPT !.op = "interrupt"]
<1>1. 0 \in Reg /\ 1 \in PC
  BY InstrAssumption DEF Reg, PC
<1>2. QED BY <1>1 DEF Nop, Instr, Op, Interrupt

\* A register file stays one when it is written.
LEMMA WriteRegType ==
  ASSUME NEW file \in [Reg -> Val], NEW r \in Reg, NEW v \in Val
  PROVE  WriteReg(file, r, v) \in [Reg -> Val]
BY DEF WriteReg

\* The ALU returns a word; a bubble has no PC to return.
LEMMA AluType ==
  ASSUME NEW i \in Instr, NEW a \in Val, NEW b \in Val, NEW x \in Val,
         NEW p \in PC \cup {0}, p = 0 => i.op = "alu"
  PROVE  ALUOut(i, a, b, x, p) \in Val
<1>1. /\ 0 \in Val /\ Alu(a, b) \in Val
      /\ p \in PC => Link(p) \in Val
  BY InstrAssumption
<1>2. QED BY <1>1 DEF ALUOut

\* What the verdict of the hazard unit tells of its causes.
LEMMA HeldCases ==
  ASSUME NEW in
  PROVE  /\ Held(in) \in {"M", "flush", "E", "D", "none"}
         /\ ~in.dok => Held(in) = "M"
         /\ ~in.iok => Held(in) \in {"M", "E", "D"}
         /\ Held(in) = "flush" => ex_or_eret(in) /\ in.iok
         /\ Held(in) \in {"D", "none"} => ~ex_or_eret(in) /\ ~LoadFeedsE /\ in.done
         /\ Held(in) = "none" => in.iok /\ ~LoadFeedsD /\ ~MultWaits
BY DEF Held

-------------------------------------------------------------------------------
\* Types.

\* What the forwarding paths deliver are words.
LEMMA ForwardType ==
  ASSUME TypeOK, BubblesAreNops
  PROVE  /\ \A r \in Reg, v \in Val : ForwardE(r, v) \in Val
         /\ SrcA \in Val /\ WriteDataE \in Val /\ ALUOutE \in Val
         /\ RsDD \in Val /\ RtDD \in Val /\ DataM \in Val
<1>1. \A r \in Reg, v \in Val : ForwardE(r, v) \in Val
  BY DEF TypeOK, StageM, StageW, ForwardE
<1>2. /\ ex.i \in Instr /\ ex.a \in Val /\ ex.b \in Val /\ ex.x \in Val /\ ex.pc \in PC \cup {0}
      /\ ex.i.rs \in Reg /\ ex.i.rt \in Reg
      /\ dec.i.rs \in Reg /\ dec.i.rt \in Reg
  BY DEF TypeOK, StageE, StageD, Instr
<1>3. SrcA \in Val /\ WriteDataE \in Val
  BY <1>1, <1>2 DEF SrcA, WriteDataE
<1>4. ex.pc = 0 => ex.i.op = "alu"
  BY NopType DEF BubblesAreNops
<1>5. ALUOutE \in Val
  BY <1>2, <1>3, <1>4, AluType DEF ALUOutE
<1>6. \A r \in Reg : regs[r] \in Val
  BY DEF TypeOK
<1>7. \A r \in Reg : ForwardD(r) \in Val
  BY <1>1, <1>5, <1>6 DEF ForwardD
<1>8. DataM \in Val
  BY DEF DataM, TypeOK, StageM, StageW
<1>9. QED BY <1>1, <1>2, <1>3, <1>5, <1>7, <1>8 DEF RsDD, RtDD

\* The exception logic of D reports a code, or none.
LEMMA CodeType ==
  ASSUME NEW in
  PROVE  Code(in) \in ExcCode \cup {"none"}
BY DEF Code, Raised, ExcCode

\* HI is written with a word.
LEMMA HiType ==
  ASSUME TypeOK, BubblesAreNops, NEW in \in Inputs
  PROVE  NextHi(in) \in Val
<1>1. HiOf(SrcA, WriteDataE) \in Val
  BY InstrAssumption, ForwardType
<1>2. hi \in Val /\ ex.a \in Val /\ in.junk \in Val
  BY DEF TypeOK, StageE, Inputs
<1>3. QED BY <1>1, <1>2 DEF NextHi, HiDataE

\* EPC is given a PC: that of the instruction, or of its branch.
LEMMA ReturnPCType ==
  ASSUME TypeOK, ex.pc # 0
  PROVE  ReturnPC \in PC
BY PCType DEF TypeOK, StageE, ReturnPC

\* CP0 keeps its registers in type, and EPC stays set.
LEMMA Cp0Type ==
  ASSUME TypeOK, BubblesAreNops, NEW in \in Inputs
  PROVE  /\ NextCp0(in) \in Cp0
         /\ cp0.epc # 0 => NextCp0(in).epc # 0
<1>1. cp0 \in Cp0 /\ ex.bd \in BOOLEAN /\ ex.b \in Val
  BY DEF TypeOK, StageE
<1>2. CASE exception_enable(in) /\ in.iok
  <2>1. Code(in) \in ExcCode /\ ReturnPC \in PC
    BY <1>2, CodeType, ReturnPCType DEF exception_enable
  <2> DEFINE epc == IF cp0.exl THEN cp0.epc ELSE ReturnPC
             bd  == IF cp0.exl THEN cp0.bd ELSE ex.bd
  <2>2. /\ epc \in PC \cup {0} /\ bd \in BOOLEAN
        /\ cp0.epc # 0 => epc # 0
    BY <2>1, <1>1, PCType DEF Cp0
  <2>3. NextCp0(in) = [cp0 EXCEPT !.cause = Code(in), !.exl = TRUE, !.epc = epc, !.bd = bd]
    BY <1>2 DEF NextCp0
  <2> HIDE DEF epc, bd
  <2>4. QED BY <2>1, <2>2, <2>3, <1>1 DEF Cp0
<1>3. CASE ~(exception_enable(in) /\ in.iok)
  BY <1>1, <1>3 DEF NextCp0, Cp0
<1>4. QED BY <1>2, <1>3

\* What the next-PC logic selects is a PC.
LEMMA PC0Type ==
  ASSUME IInv, NEW in \in Inputs
  PROVE  PC0(in) \in PC
<1>1. Handler \in PC
  BY ProgramAssumption
<1>2. EretE => cp0.epc \in PC
  BY DEF IInv, EretHasEpc, EretE, TypeOK, Cp0
<1>3. Succ(pcF) \in PC
  BY PCType DEF IInv, TypeOK
<1>4. dec.i.to \in PC
  BY DEF IInv, TypeOK, StageD, Instr
<1>5. Target(RsDD) \in PC
  BY InstrAssumption, ForwardType DEF IInv
<1>6. QED BY <1>1, <1>2, <1>3, <1>4, <1>5 DEF PC0, PCBranch

\* Every word of memory that F may find is an instruction.
LEMMA FetchedType == Fetched \subseteq Instr
BY NopType, ProgramAssumption DEF Fetched

\* What each verdict does to the stages.
LEMMA StageTypes ==
  ASSUME IInv, NEW in \in Inputs, Clock(in)
  PROVE  /\ pcF' \in PC /\ validF' \in BOOLEAN
         /\ dec' \in StageD /\ ex' \in StageE /\ me' \in StageM /\ wb' \in StageW
<1> USE DEF IInv
<1>1. 0 \in Reg /\ 0 \in Val
  BY InstrAssumption DEF Reg
<1>2. EmptyD \in StageD /\ EmptyE \in StageE /\ EmptyM \in StageM /\ EmptyW \in StageW
  BY <1>1, NopType DEF EmptyD, EmptyE, EmptyM, EmptyW, StageD, StageE, StageM, StageW
<1>3. pcF' \in PC /\ validF' \in BOOLEAN
  BY PC0Type DEF Clock, StepF, TypeOK
<1>4. dec' \in StageD
  <2>1. ASSUME NEW i \in Fetched PROVE [pc |-> pcF, i |-> i, bd |-> BranchDelay(dec.i)] \in StageD
    BY FetchedType DEF StageD, TypeOK, BranchDelay
  <2>2. StepD(in) /\ dec \in StageD
    BY DEF Clock, TypeOK
  <2>3. QED BY <1>2, <2>1, <2>2 DEF StepD
<1>5. ex' \in StageE
  <2> DEFINE x == CASE dec.i.op = "mfhi" -> NextHi(in)
                    [] dec.i.op = "mfc0" -> NextCp0(in).compare
                    [] OTHER -> 0
  <2>1. NextCp0(in).compare \in Val
    BY Cp0Type DEF Cp0
  <2>2. x \in Val
    BY <2>1, <1>1, HiType
  <2>3. [pc |-> dec.pc, i |-> dec.i, bd |-> dec.bd, a |-> RsDD, b |-> RtDD, x |-> x] \in StageE
    BY <2>2, ForwardType DEF TypeOK, StageD, StageE
  <2>4. StepE(in) /\ ex \in StageE
    BY DEF Clock, TypeOK
  <2> HIDE DEF x
  <2>5. ex' \in {EmptyE, ex, [pc |-> dec.pc, i |-> dec.i, bd |-> dec.bd, a |-> RsDD, b |-> RtDD, x |-> x]}
    BY <2>4, HeldCases DEF StepE, x
  <2>6. QED BY <1>2, <2>3, <2>4, <2>5
<1>6. me' \in StageM
  <2>1. ex.i.dst \in Reg /\ ex.i.rt \in Reg /\ me \in StageM
    BY DEF TypeOK, StageE, Instr
  <2>2. RegWrite(ex.i) \in BOOLEAN /\ MemtoReg(ex.i) \in BOOLEAN /\ MemWrite(ex.i) \in BOOLEAN
    BY DEF RegWrite, MemtoReg, MemWrite
  <2>3. [write |-> RegWrite(ex.i), load |-> MemtoReg(ex.i), store |-> MemWrite(ex.i),
         dst |-> ex.i.dst, rt |-> IF MemWrite(ex.i) THEN ex.i.rt ELSE 0, out |-> ALUOutE,
         data |-> IF MemWrite(ex.i) THEN WriteDataE ELSE 0] \in StageM
    BY <2>1, <2>2, <1>1, ForwardType DEF StageM
  <2>4. QED BY <1>2, <2>1, <2>3 DEF Clock, StepM
<1>7. wb' \in StageW
  <2>1. me \in StageM /\ mem \in [Val -> Val]
    BY DEF TypeOK
  <2>2. (IF me.load THEN mem[me.out] ELSE me.out) \in Val
    BY <2>1 DEF StageM
  <2>3. QED BY <1>2, <2>1, <2>2 DEF Clock, StepW, StageW, StageM
<1>8. QED BY <1>3, <1>4, <1>5, <1>6, <1>7

\* A clock edge keeps every register of the pipeline in its type.
LEMMA TypeStep ==
  ASSUME IInv, NEW in \in Inputs, Clock(in)
  PROVE  TypeOK'
<1> USE DEF IInv
<1>1. regs' \in [Reg -> Val]
  <2>1. wb.dst \in Reg /\ wb.result \in Val /\ regs \in [Reg -> Val]
    BY DEF TypeOK, StageW
  <2>2. QED BY <2>1, WriteRegType DEF Clock, StepState
<1>2. hi' \in Val /\ cp0' \in Cp0
  BY HiType, Cp0Type DEF Clock, StepState
<1>3. mem' \in [Val -> Val]
  <2>1. me.out \in Val /\ mem \in [Val -> Val] /\ DataM \in Val
    BY ForwardType DEF TypeOK, StageM
  <2>2. QED BY <2>1 DEF Clock, StepState
<1>4. taken' \in {"no", "exception", "eret"}
  BY DEF Clock, StepHistory, TypeOK
<1>5. kept' \in Val
  BY HiType DEF Clock, StepHistory, TypeOK
<1>6. ran' \in Instr \cup {Interrupt}
  BY DEF Clock, StepHistory, TypeOK, StageE
<1>7. QED BY <1>1, <1>2, <1>3, <1>4, <1>5, <1>6, StageTypes DEF TypeOK
-------------------------------------------------------------------------------
\* The hazards.

\* A flushed stage is empty, whatever the edge does with the others.
LEMMA BubbleStep ==
  ASSUME IInv, NEW in \in Inputs, Clock(in)
  PROVE  BubblesAreNops'
<1>1. pcF # 0 /\ EmptyD.i = Nop /\ EmptyE.i = Nop
  BY PCType DEF IInv, TypeOK, EmptyD, EmptyE
<1>2. dec'.pc = 0 => dec'.i = Nop
  BY <1>1 DEF Clock, StepD, IInv, BubblesAreNops
<1>3. ex'.pc = 0 => ex'.i = Nop
  BY <1>1, HeldCases DEF Clock, StepE, IInv, BubblesAreNops
<1>4. QED BY <1>2, <1>3 DEF BubblesAreNops

\* An ERET that enters D finds EPC set.
LEMMA EretStep ==
  ASSUME IInv, NEW in \in Inputs, Clock(in)
  PROVE  EretHasEpc'
<1>1. cp0.epc # 0 => cp0'.epc # 0
  BY Cp0Type DEF IInv, Clock, StepState
<1>2. EmptyD.i.op # "eret" /\ EmptyE.i.op # "eret" /\ Nop.op # "eret"
  BY NopType DEF EmptyD, EmptyE
<1>3. dec'.i.op = "eret" => cp0.epc # 0
  BY <1>2 DEF Clock, StepD, Fetched, IInv, EretHasEpc
<1>4. ex'.i.op = "eret" => cp0.epc # 0
  BY <1>2, HeldCases DEF Clock, StepE, IInv, EretHasEpc
<1>5. QED BY <1>1, <1>3, <1>4 DEF EretHasEpc

\* What W is about to write is already in the data of a store in M.
LEMMA StoreStep ==
  ASSUME IInv, NEW in \in Inputs, Clock(in)
  PROVE  StoreDataFinal'
<1>1. CASE Held(in) = "M"
  <2>1. ~wb'.write
    BY <1>1 DEF Clock, StepW, EmptyW
  <2>2. QED BY <2>1 DEF StoreDataFinal
<1>2. CASE Held(in) \in {"flush", "E"}
  <2>1. ~me'.store
    BY <1>2 DEF Clock, StepM, EmptyM
  <2>2. QED BY <2>1 DEF StoreDataFinal
<1>3. CASE Held(in) \in {"D", "none"}
  <2>1. ~LoadFeedsE
    BY <1>3, HeldCases
  <2>2. /\ me'.store = MemWrite(ex.i)
        /\ MemWrite(ex.i) => me'.rt = ex.i.rt /\ me'.data = WriteDataE
    BY <1>3 DEF Clock, StepM
  <2>3. wb' = [write |-> me.write, dst |-> me.dst,
               result |-> IF me.load THEN mem[me.out] ELSE me.out]
    BY <1>3 DEF Clock, StepW
  <2>4. me.write /\ me.dst = ex.i.rt => ~me.load /\ WriteDataE = me.out
    BY <2>1 DEF LoadFeedsE, WriteDataE, ForwardE
  <2>5. QED BY <2>2, <2>3, <2>4 DEF StoreDataFinal
<1>4. QED BY <1>1, <1>2, <1>3, HeldCases

\* A multiplication enters E when the results it would be forwarded have left.
LEMMA MultStep ==
  ASSUME IInv, NEW in \in Inputs, Clock(in)
  PROVE  MultUndisturbed'
<1>1. CASE Held(in) \in {"flush", "D"}
  <2>1. ex'.i.op # "mult"
    BY <1>1, NopType DEF Clock, StepE, EmptyE
  <2>2. QED BY <2>1 DEF MultUndisturbed
<1>2. CASE Held(in) \in {"M", "E"}
  <2>1. ex' = ex
    BY <1>2 DEF Clock, StepE
  <2>2. /\ me' \in {me, EmptyM}
        /\ wb'.write => me.write /\ wb'.dst = me.dst
    BY <1>2 DEF Clock, StepM, StepW, EmptyW
  <2>3. QED BY <2>1, <2>2 DEF IInv, MultUndisturbed, EmptyM
<1>3. CASE Held(in) = "none"
  <2>1. ex'.i = dec.i /\ ~LoadFeedsD /\ ~MultWaits
    BY <1>3, HeldCases DEF Clock, StepE
  <2>2. me'.write = RegWrite(ex.i) /\ me'.dst = ex.i.dst
    BY <1>3 DEF Clock, StepM
  <2>3. wb'.write = me.write /\ wb'.dst = me.dst
    BY <1>3 DEF Clock, StepW
  <2>4. dec.i.op = "mult" => /\ ~FeedsD(me.write, me.dst)
                             /\ ~FeedsD(RegWrite(ex.i), ex.i.dst)
    BY <2>1 DEF LoadFeedsD, MultWaits, FeedsD
  <2>5. QED BY <2>1, <2>2, <2>3, <2>4 DEF MultUndisturbed, FeedsD
<1>4. QED BY <1>1, <1>2, <1>3, HeldCases

\* F goes on from the instruction of D, or from the target of the branch in E.
LEMMA OrderStep ==
  ASSUME IInv, NEW in \in Inputs, Clock(in)
  PROVE  FetchedInOrder'
<1>1. CASE Held(in) \in {"flush", "D"}
  <2>1. ex'.pc = 0
    BY <1>1 DEF Clock, StepE, EmptyE
  <2>2. QED BY <2>1 DEF FetchedInOrder
<1>2. CASE Held(in) \in {"M", "E"}
  <2>1. UNCHANGED <<pcF, dec, ex>>
    BY <1>2 DEF Clock, StepF, StepD, StepE
  <2>2. QED BY <2>1 DEF IInv, FetchedInOrder
<1>3. CASE Held(in) = "none"
  <2>1. ex'.i = dec.i /\ dec'.pc = pcF /\ pcF' = PC0(in)
    BY <1>3 DEF Clock, StepF, StepD, StepE
  <2>2. ~exception_enable(in) /\ ~EretE
    BY <1>3, HeldCases DEF ex_or_eret
  <2>3. ~BranchDelay(dec.i) => pcF' = Succ(pcF)
    BY <2>1, <2>2 DEF PC0, PCSrc, BranchDelay
  <2>4. QED BY <2>1, <2>3 DEF FetchedInOrder
<1>4. QED BY <1>1, <1>2, <1>3, HeldCases

-------------------------------------------------------------------------------
\* Reset leaves the pipeline empty.
LEMMA InitInv == Init => IInv
<1> SUFFICES ASSUME Init PROVE IInv
  OBVIOUS
<1>1. 0 \in Reg /\ 0 \in Val /\ Boot \in PC
  BY InstrAssumption, ProgramAssumption DEF Reg
<1>2. dec \in StageD /\ ex \in StageE /\ me \in StageM /\ wb \in StageW /\ cp0 \in Cp0
  BY <1>1, NopType DEF Init, EmptyD, EmptyE, EmptyM, EmptyW, StageD, StageE, StageM, StageW, Cp0
<1>3. TypeOK
  BY <1>1, <1>2, NopType, PCType DEF Init, TypeOK
<1>4. QED BY <1>3, NopType DEF Init, IInv, BubblesAreNops, EretHasEpc, StoreDataFinal,
        MultUndisturbed, FetchedInOrder, EmptyD, EmptyE, EmptyM, EmptyW

\* The invariant is inductive: every clock edge keeps it, whatever answers in it.
LEMMA NextInv == IInv /\ [Next]_vars => IInv'
<1> SUFFICES ASSUME IInv, [Next]_vars PROVE IInv'
  OBVIOUS
<1>1. ASSUME NEW in \in Inputs, Clock(in) PROVE IInv'
  BY <1>1, TypeStep, BubbleStep, EretStep, StoreStep, MultStep, OrderStep DEF IInv
<1>2. CASE UNCHANGED vars
  BY <1>2 DEF vars, coreVars, history, IInv, TypeOK, BubblesAreNops, EretHasEpc, StoreDataFinal,
              MultUndisturbed, FetchedInOrder
<1>3. QED BY <1>1, <1>2 DEF Next

\* Every clock edge keeps the invariant.
LEMMA Invariance == Spec => []IInv
BY InitInv, NextInv, PTL DEF Spec

\* The stages, the register files and the address on the instruction bus keep their types:
\* an exception or a return never sends F to the PC of a bubble.
THEOREM CoreTypeCorrect == Spec => []TypeOK
<1>1. IInv => TypeOK
  BY DEF IInv
<1>2. QED BY <1>1, Invariance, PTL

-------------------------------------------------------------------------------
\* A request to the instruction side or to the data side does not change before it is
\* answered: no branch, exception or flush takes F or M away from it, and what is
\* forwarded to the store in M is what it carries already.
THEOREM RequestsStay == Spec => RequestsAreHeld
<1> DEFINE Stays ==
      \A in \in Inputs : Clock(in) =>
        /\ ~in.iok => <<pcF, validF>>' = <<pcF, validF>>
        /\ ~in.dok => <<me.load, me.store, me.out, DataM>>' = <<me.load, me.store, me.out, DataM>>
<1>1. IInv => Stays
  <2> SUFFICES ASSUME IInv, NEW in \in Inputs, Clock(in)
               PROVE  /\ ~in.iok => <<pcF, validF>>' = <<pcF, validF>>
                      /\ ~in.dok => <<me.load, me.store, me.out, DataM>>' =
                                    <<me.load, me.store, me.out, DataM>>
    OBVIOUS
  <2>1. ASSUME ~in.iok PROVE UNCHANGED <<pcF, validF>>
    BY <2>1, HeldCases DEF Clock, StepF
  <2>2. ASSUME ~in.dok PROVE me' = me /\ DataM' = DataM
    <3>1. Held(in) = "M"
      BY <2>2, HeldCases
    <3>2. me' = me /\ ~wb'.write
      BY <3>1 DEF Clock, StepM, StepW, EmptyW
    <3>3. DataM = me.data
      BY DEF DataM, IInv, StoreDataFinal
    <3>4. DataM' = me'.data
      BY <3>2 DEF DataM
    <3>5. QED BY <3>2, <3>3, <3>4
  <2>3. QED BY <2>1, <2>2
<1>2. QED BY <1>1, Invariance, PTL DEF RequestsAreHeld

\* The operands of a multiplication or division stay while it is in E, in every program
\* of more than one word.
THEOREM OperandsStay ==
  ASSUME NumPC # 1
  PROVE  Spec => MultOperandsHeld
<1> DEFINE Stay ==
      ex.i.op = "mult" /\ ex'.i.op = "mult" /\ ex'.pc = ex.pc /\ dec' = dec =>
        <<SrcA, WriteDataE>>' = <<SrcA, WriteDataE>>
<1>1. IInv /\ IInv' /\ [Next]_vars => [Stay]_vars
  <2> SUFFICES ASSUME IInv, IInv', NEW in \in Inputs, Clock(in),
                      ex.i.op = "mult", ex'.i.op = "mult", ex'.pc = ex.pc, dec' = dec
               PROVE  <<SrcA, WriteDataE>>' = <<SrcA, WriteDataE>>
    BY DEF Next
  <2>1. ex.pc # 0
    BY NopType DEF IInv, BubblesAreNops
  <2>2. Held(in) # "none"
    <3>1. SUFFICES ASSUME Held(in) = "none" PROVE FALSE
      OBVIOUS
    <3>2. dec.pc = ex.pc /\ dec'.pc = pcF
      BY <3>1 DEF Clock, StepD, StepE
    <3>3. pcF = Succ(dec.pc)
      BY <2>1, <3>2 DEF IInv, FetchedInOrder, BranchDelay
    <3>4. pcF \in PC
      BY DEF IInv, TypeOK
    <3>5. QED BY <3>2, <3>3, <3>4, PCType
  <2>3. ex' = ex
    BY <2>2, HeldCases, NopType DEF Clock, StepE, EmptyE
  <2>4. SrcA = ex.a /\ WriteDataE = ex.b
    BY DEF SrcA, WriteDataE, ForwardE, IInv, MultUndisturbed
  <2>5. SrcA' = ex'.a /\ WriteDataE' = ex'.b
    BY DEF SrcA, WriteDataE, ForwardE, IInv, MultUndisturbed
  <2>6. QED BY <2>3, <2>4, <2>5
<1>2. QED BY <1>1, Invariance, PTL DEF MultOperandsHeld, Spec
-------------------------------------------------------------------------------
(***************************************************************************)
(* The refinement of Mips.  What it asks of the program is needed: MFC0    *)
(* to $0 is forwarded, a load that waits in M loses an interrupt, and a    *)
(* multiplication may have written HI when one is taken.                   *)
(***************************************************************************)
ProgramInScope ==
  /\ \A i \in Instructions : i.op \in {"mfc0", "jal"} => i.dst # 0
  /\ Interrupts => \A i \in Instructions : i.op \notin {"load", "store", "mult"}

\* What the instruction in E raises by itself, of the operands it got in D.
RaisedE == Raised(ex.i, ex.a, ex.b, ex.pc)

\* Bubbles are no-ops, the others are of the program, and delay slots hold neither a branch nor
\* an ERET.
StagesFollowProgram ==
  /\ dec.i \in Instructions \cup {Nop} /\ ex.i \in Instructions \cup {Nop}
  /\ dec.bd => ~BranchDelay(dec.i) /\ dec.i.op # "eret"
  /\ ex.bd => ~BranchDelay(ex.i) /\ ex.i.op # "eret"

\* E is fed by D, which stays filled; D's delay slot bit and F's address are what E makes of them.
OrderOfStages ==
  /\ dec.pc = 0 => ~dec.bd
  /\ ex.pc # 0 =>
       /\ dec.pc # 0 /\ dec.bd = BranchDelay(ex.i)
       /\ pcF = IF PCSrc(ex.i, ex.a, ex.b) THEN PCBranch(ex.i, ex.a) ELSE Succ(dec.pc)

\* What M and W are about to do.
ResultsInOrder ==
  /\ me.write => me.dst # 0
  /\ wb.write => wb.dst # 0
  /\ ~(me.load /\ me.store)
  /\ Interrupts => ~me.load /\ ~me.store
  /\ me.write /\ me.load => me.dst \notin {ex.i.rs, ex.i.rt}

\* The operands taken in D are those of all older instructions executed.
OperandsAreArchitectural ==
  /\ ex.pc # 0 => ex.a = Executed[ex.i.rs] /\ ex.b = Executed[ex.i.rt]
  /\ ex.i.op = "mfhi" => ex.x = hi
  /\ ex.i.op = "mfc0" => ex.x = cp0.compare
  /\ HiWrite(ex.i) /\ (ex.pc \in Misaligned \/ Interrupts) => hi = kept

\* An exception or a return that cp0 has recorded stays what it was while E waits.
RecordedStays ==
  /\ taken # "no" => ex.pc # 0 /\ ~Interrupts
  /\ taken = "exception" => RaisedE # "none" /\ cp0.exl /\ cp0.cause = RaisedE
  /\ taken = "eret" => RaisedE = "none" /\ EretE /\ ~cp0.exl

RInv ==
  /\ StagesFollowProgram
  /\ OrderOfStages
  /\ ResultsInOrder
  /\ OperandsAreArchitectural
  /\ RecordedStays

\* All that the refinement rests on.
Inv == IInv /\ RInv

\* What the decoder says of the instructions a stage may hold.
LEMMA StageInstr ==
  ASSUME ProgramInScope, NEW i \in Instructions \cup {Nop}
  PROVE  /\ RegWrite(i) => i.dst # 0
         /\ ~(MemtoReg(i) /\ MemWrite(i))
         /\ Interrupts => ~MemtoReg(i) /\ ~MemWrite(i) /\ i.op # "mult"
<1>1. CASE i = Nop
  BY <1>1, NopType DEF RegWrite, MemtoReg, MemWrite
<1>2. CASE i \in Instructions
  BY <1>2 DEF ProgramInScope, RegWrite, MemtoReg, MemWrite
<1> QED BY <1>1, <1>2

\* M is held exactly while its request waits.
LEMMA HeldByM == ASSUME NEW in PROVE Held(in) = "M" <=> ~in.dok
BY DEF Held

\* The registers, seen through W and M.
LEMMA ExecutedType ==
  ASSUME IInv
  PROVE  /\ RegsAfterW \in [Reg -> Val] /\ Executed \in [Reg -> Val]
         /\ MemAfterM \in [Val -> Val] /\ DataM = me.data
<1>1. /\ regs \in [Reg -> Val] /\ wb.dst \in Reg /\ wb.result \in Val
      /\ me.dst \in Reg /\ me.out \in Val /\ me.data \in Val /\ mem \in [Val -> Val]
  BY DEF IInv, TypeOK, StageM, StageW
<1>2. RegsAfterW \in [Reg -> Val]
  BY <1>1, WriteRegType DEF RegsAfterW
<1>3. (IF me.load THEN mem[me.out] ELSE me.out) \in Val
  BY <1>1
<1>4. Executed \in [Reg -> Val]
  BY <1>1, <1>2, <1>3, WriteRegType DEF Executed
<1>5. DataM = me.data
  BY DEF DataM, IInv, StoreDataFinal
<1>6. MemAfterM \in [Val -> Val]
  BY <1>1, <1>5 DEF MemAfterM
<1> QED BY <1>2, <1>4, <1>5, <1>6

\* Forwarding gives the register as all older instructions leave it, unless M has only
\* the address of a load.
LEMMA ForwardIsExecuted ==
  ASSUME Inv, NEW r \in Reg, ~(me.write /\ me.load /\ me.dst = r)
  PROVE  ForwardE(r, regs[r]) = Executed[r] /\ ForwardE(r, Executed[r]) = Executed[r]
<1>1. /\ regs \in [Reg -> Val] /\ wb.dst \in Reg /\ me.dst \in Reg
      /\ RegsAfterW \in [Reg -> Val]
      /\ me.write => me.dst # 0
      /\ wb.write => wb.dst # 0
  BY ExecutedType DEF Inv, IInv, TypeOK, StageM, StageW, RInv, ResultsInOrder
<1>2. RegsAfterW[r] = IF wb.write /\ wb.dst = r THEN wb.result ELSE regs[r]
  BY <1>1 DEF RegsAfterW, WriteReg
<1>3. CASE me.write /\ me.dst = r
  <2>1. ~me.load
    BY <1>3
  <2>2. Executed = [RegsAfterW EXCEPT ![me.dst] = me.out]
    BY <1>1, <1>3, <2>1 DEF Executed, WriteReg
  <2> QED BY <1>1, <1>3, <2>1, <2>2 DEF ForwardE
<1>4. CASE ~(me.write /\ me.dst = r)
  <2>1. Executed[r] = RegsAfterW[r]
    BY <1>1, <1>4 DEF Executed, WriteReg
  <2> QED BY <1>2, <1>4, <2>1 DEF ForwardE
<1> QED BY <1>3, <1>4

\* The operands in E are the registers as all older instructions leave them.
LEMMA OperandsInE ==
  ASSUME Inv, ex.pc # 0
  PROVE  /\ SrcA = ex.a /\ WriteDataE = ex.b
         /\ SrcA = Executed[ex.i.rs] /\ WriteDataE = Executed[ex.i.rt]
<1>1. ex.i.rs \in Reg /\ ex.i.rt \in Reg
  BY DEF Inv, IInv, TypeOK, StageE, Instr
<1>2. ex.a = Executed[ex.i.rs] /\ ex.b = Executed[ex.i.rt]
  BY DEF Inv, RInv, OperandsAreArchitectural
<1>3. me.write /\ me.load => me.dst \notin {ex.i.rs, ex.i.rt}
  BY DEF Inv, RInv, ResultsInOrder
<1> QED BY <1>1, <1>2, <1>3, ForwardIsExecuted DEF SrcA, WriteDataE

\* What the instruction in E does to the registers and the memory when it leaves E, and
\* that nothing does otherwise.
LEMMA ExecutedStep ==
  ASSUME Inv, NEW in \in Inputs, Clock(in), IInv'
  PROVE  /\ Held(in) \in {"M", "flush", "E"} => Executed' = Executed /\ MemAfterM' = MemAfterM
         /\ Held(in) \in {"D", "none"} =>
              /\ Executed' = IF RegWrite(ex.i)
                             THEN WriteReg(Executed, ex.i.dst,
                                           IF MemtoReg(ex.i) THEN MemAfterM[ALUOutE] ELSE ALUOutE)
                             ELSE Executed
              /\ MemAfterM' = IF MemWrite(ex.i) THEN [MemAfterM EXCEPT ![ALUOutE] = WriteDataE]
                              ELSE MemAfterM
<1>1. DataM = me.data /\ DataM' = me'.data /\ ~(me.load /\ me.store)
  BY ExecutedType DEF Inv, RInv, ResultsInOrder, IInv, StoreDataFinal, DataM
<1>2. regs' = RegsAfterW
  BY DEF Clock, StepState, RegsAfterW
<1>3. mem' = IF in.dok THEN MemAfterM ELSE mem
  BY DEF Clock, StepState, MemAfterM
<1>4. CASE Held(in) = "M"
  <2>1. ~in.dok /\ me' = me /\ ~wb'.write
    BY <1>4, HeldByM DEF Clock, StepM, StepW, EmptyW
  <2> QED BY <1>1, <1>2, <1>3, <1>4, <2>1 DEF Executed, RegsAfterW, MemAfterM
<1>5. CASE Held(in) # "M"
  <2>1. in.dok
    BY <1>5, HeldByM
  <2>2. wb' = [write |-> me.write, dst |-> me.dst,
               result |-> IF me.load THEN mem[me.out] ELSE me.out]
    BY <1>5 DEF Clock, StepW
  <2>3. RegsAfterW' = Executed
    BY <1>2, <2>2 DEF Executed, RegsAfterW
  <2>4. CASE Held(in) \in {"flush", "E"}
    <3>1. ~me'.write /\ ~me'.store
      BY <2>4 DEF Clock, StepM, EmptyM
    <3> QED BY <1>3, <2>1, <2>3, <2>4, <3>1 DEF Executed, MemAfterM
  <2>5. CASE Held(in) \in {"D", "none"}
    <3>1. /\ me'.write = RegWrite(ex.i) /\ me'.load = MemtoReg(ex.i) /\ me'.store = MemWrite(ex.i)
          /\ me'.dst = ex.i.dst /\ me'.out = ALUOutE
          /\ MemWrite(ex.i) => me'.data = WriteDataE
      BY <2>5 DEF Clock, StepM
    <3>2. mem' = MemAfterM
      BY <1>3, <2>1
    <3>3. Executed' = IF RegWrite(ex.i)
                      THEN WriteReg(Executed, ex.i.dst,
                                    IF MemtoReg(ex.i) THEN MemAfterM[ALUOutE] ELSE ALUOutE)
                      ELSE Executed
      BY <2>3, <3>1, <3>2 DEF Executed
    <3>4. MemAfterM' = IF MemWrite(ex.i) THEN [MemAfterM EXCEPT ![ALUOutE] = WriteDataE]
                       ELSE MemAfterM
      BY <1>1, <3>1, <3>2 DEF MemAfterM
    <3> QED BY <2>5, <3>3, <3>4
  <2> QED BY <1>5, <2>4, <2>5, HeldCases
<1> QED BY <1>4, <1>5, HeldCases

\* What raises an exception in E, and that a bubble does not.
LEMMA ExceptionsInE ==
  ASSUME Inv, NEW in
  PROVE  /\ exception_enable(in) <=> ex.pc # 0 /\ (in.irq \/ RaisedE # "none")
         /\ ex.pc # 0 => Code(in) = IF in.irq THEN "Int" ELSE RaisedE
         /\ EretE => ex.pc # 0
<1>1. ex.pc # 0 => Code(in) = IF in.irq THEN "Int" ELSE RaisedE
  BY OperandsInE DEF Code, RaisedE
<1>2. EretE => ex.pc # 0
  BY NopType DEF EretE, Inv, IInv, BubblesAreNops
<1> QED BY <1>1, <1>2 DEF exception_enable

\* The stages go on holding the instructions of the program at their PCs.
LEMMA ProgramStep ==
  ASSUME Inv, NEW in \in Inputs, Clock(in)
  PROVE  StagesFollowProgram'
<1> USE DEF Inv, RInv, StagesFollowProgram
<1>1. /\ EmptyD.i = Nop /\ ~EmptyD.bd /\ EmptyE.i = Nop /\ ~EmptyE.bd
  BY DEF EmptyD, EmptyE
<1>2. /\ dec'.i \in Instructions \cup {Nop}
      /\ dec'.bd => ~BranchDelay(dec'.i) /\ dec'.i.op # "eret"
  <2>1. CASE Held(in) = "none"
    <3>1. PICK i \in Fetched : dec' = [pc |-> pcF, i |-> i, bd |-> BranchDelay(dec.i)]
      BY <2>1 DEF Clock, StepD
    <3>2. ~BranchDelay(Nop) /\ Nop.op # "eret"
      BY NopType DEF BranchDelay
    <3> QED BY <3>1, <3>2 DEF Fetched
  <2>2. CASE Held(in) # "none"
    <3>1. dec' \in {EmptyD, dec}
      BY <2>2 DEF Clock, StepD
    <3> QED BY <3>1, <1>1
  <2> QED BY <2>1, <2>2
<1>3. /\ ex'.i \in Instructions \cup {Nop}
      /\ ex'.bd => ~BranchDelay(ex'.i) /\ ex'.i.op # "eret"
  <2>1. CASE Held(in) = "none"
    <3>1. ex'.i = dec.i /\ ex'.bd = dec.bd
      BY <2>1 DEF Clock, StepE
    <3> QED BY <3>1
  <2>2. CASE Held(in) # "none"
    <3>1. ex' \in {EmptyE, ex}
      BY <2>2 DEF Clock, StepE
    <3> QED BY <3>1, <1>1
  <2> QED BY <2>1, <2>2
<1> QED BY <1>2, <1>3

\* The stages go on holding consecutive instructions, with their delay slots.
LEMMA FetchStep ==
  ASSUME Inv, NEW in \in Inputs, Clock(in)
  PROVE  OrderOfStages'
<1>1. CASE Held(in) \in {"flush", "D"}
  <2>1. ex'.pc = 0 /\ dec' \in {EmptyD, dec}
    BY <1>1 DEF Clock, StepD, StepE, EmptyE
  <2> QED BY <2>1 DEF Inv, RInv, OrderOfStages, EmptyD
<1>2. CASE Held(in) \in {"M", "E"}
  <2>1. UNCHANGED <<pcF, dec, ex>>
    BY <1>2 DEF Clock, StepF, StepD, StepE
  <2> QED BY <2>1 DEF Inv, RInv, OrderOfStages
<1>3. CASE Held(in) = "none"
  <2>1. /\ ex'.i = dec.i /\ ex'.pc = dec.pc /\ ex'.a = RsDD /\ ex'.b = RtDD
        /\ dec'.pc = pcF /\ dec'.bd = BranchDelay(dec.i) /\ pcF' = PC0(in)
    BY <1>3 DEF Clock, StepF, StepD, StepE
  <2>2. ~exception_enable(in) /\ ~EretE
    BY <1>3, HeldCases DEF ex_or_eret
  <2>3. pcF # 0
    BY PCType DEF Inv, IInv, TypeOK
  <2> QED BY <2>1, <2>2, <2>3 DEF PC0, OrderOfStages
<1> QED BY <1>1, <1>2, <1>3, HeldCases

\* Results go on leaving the stages in program order.
LEMMA ResultsStep ==
  ASSUME ProgramInScope, Inv, NEW in \in Inputs, Clock(in)
  PROVE  ResultsInOrder'
<1>1. ex.i \in Instructions \cup {Nop} /\ ResultsInOrder
  BY DEF Inv, RInv, StagesFollowProgram
<1>2. wb'.write => wb'.dst # 0
  BY <1>1 DEF Clock, StepW, EmptyW, ResultsInOrder
<1>3. CASE Held(in) = "M"
  <2>1. me' = me /\ ex' = ex
    BY <1>3 DEF Clock, StepM, StepE
  <2> QED BY <1>1, <1>2, <2>1 DEF ResultsInOrder
<1>4. CASE Held(in) \in {"flush", "E"}
  <2>1. ~me'.write /\ ~me'.load /\ ~me'.store
    BY <1>4 DEF Clock, StepM, EmptyM
  <2> QED BY <1>2, <2>1 DEF ResultsInOrder
<1>5. CASE Held(in) \in {"D", "none"}
  <2>1. /\ me'.write = RegWrite(ex.i) /\ me'.load = MemtoReg(ex.i) /\ me'.store = MemWrite(ex.i)
        /\ me'.dst = ex.i.dst
    BY <1>5 DEF Clock, StepM
  <2>2. RegWrite(ex.i) /\ MemtoReg(ex.i) => ex.i.dst \notin {ex'.i.rs, ex'.i.rt}
    <3>1. CASE Held(in) = "D"
      <4>1. ex'.i.rs = 0 /\ ex'.i.rt = 0
        BY <3>1 DEF Clock, StepE, EmptyE, Nop
      <4> QED BY <1>1, <4>1, StageInstr
    <3>2. CASE Held(in) = "none"
      <4>1. ex'.i = dec.i /\ ~LoadFeedsD
        BY <3>2, HeldCases DEF Clock, StepE
      <4> QED BY <4>1 DEF LoadFeedsD, FeedsD
    <3> QED BY <1>5, <3>1, <3>2
  <2> QED BY <1>1, <1>2, <2>1, <2>2, StageInstr DEF ResultsInOrder
<1> QED BY <1>3, <1>4, <1>5, HeldCases

\* What D takes is the register as it is once the instruction in E has been executed.
LEMMA OperandsOfD ==
  ASSUME ProgramInScope, Inv, NEW in \in Inputs, Clock(in), IInv', Held(in) = "none",
         NEW r \in {dec.i.rs, dec.i.rt}
  PROVE  ForwardD(r) = Executed'[r]
<1>1. /\ r \in Reg /\ ex.i.dst \in Reg /\ ex.i \in Instructions \cup {Nop}
      /\ Executed \in [Reg -> Val]
  BY ExecutedType DEF Inv, IInv, TypeOK, StageD, StageE, Instr, RInv, StagesFollowProgram
<1>2. /\ ~(me.write /\ me.load /\ me.dst = r)
      /\ ~(RegWrite(ex.i) /\ MemtoReg(ex.i) /\ ex.i.dst = r)
  BY HeldCases DEF LoadFeedsD, FeedsD
<1>3. Executed' = IF RegWrite(ex.i)
                  THEN WriteReg(Executed, ex.i.dst,
                                IF MemtoReg(ex.i) THEN MemAfterM[ALUOutE] ELSE ALUOutE)
                  ELSE Executed
  BY ExecutedStep
<1>4. CASE RegWrite(ex.i) /\ ex.i.dst = r
  <2>1. ex.i.dst # 0 /\ ~MemtoReg(ex.i)
    BY <1>1, <1>2, <1>4, StageInstr
  <2>2. Executed' = [Executed EXCEPT ![r] = ALUOutE]
    BY <1>3, <1>4, <2>1 DEF WriteReg
  <2> QED BY <1>1, <1>4, <2>1, <2>2 DEF ForwardD
<1>5. CASE ~(RegWrite(ex.i) /\ ex.i.dst = r)
  <2>1. Executed'[r] = Executed[r]
    BY <1>1, <1>3, <1>5 DEF WriteReg
  <2>2. ForwardD(r) = ForwardE(r, regs[r])
    BY <1>5 DEF ForwardD
  <2> QED BY <1>1, <1>2, <2>1, <2>2, ForwardIsExecuted
<1> QED BY <1>4, <1>5

\* An exception in E keeps it from writing HI; so does whatever holds it while interrupts
\* are possible.
LEMMA HiOfHeld ==
  ASSUME ProgramInScope, Inv, NEW in \in Inputs, Clock(in), StallE(in),
         HiWrite(ex.i), ex.pc \in Misaligned \/ Interrupts
  PROVE  hi' = hi
<1>1. ex.pc # 0
  BY NopType DEF HiWrite, Inv, IInv, BubblesAreNops
<1>2. CASE ex.pc \in Misaligned
  <2>1. RaisedE # "none"
    BY <1>2 DEF RaisedE, Raised
  <2>2. exception_enable(in)
    BY <1>1, <2>1, ExceptionsInE
  <2> QED BY <2>2 DEF Clock, StepState, NextHi, ex_or_eret
<1>3. CASE Interrupts
  <2>1. in.dok /\ ~me.load
    BY <1>3 DEF Clock, Possible, Inv, RInv, ResultsInOrder
  <2>2. in.done
    BY <1>3, StageInstr DEF Clock, Possible, Inv, RInv, StagesFollowProgram
  <2>3. ~LoadFeedsE
    BY <2>1 DEF LoadFeedsE
  <2>4. ex_or_eret(in)
    BY <2>1, <2>2, <2>3 DEF StallE, Held
  <2> QED BY <2>4 DEF Clock, StepState, NextHi
<1> QED BY <1>2, <1>3

\* What an instruction in E has read goes on being what its turn will bring.
LEMMA OperandsStep ==
  ASSUME ProgramInScope, Inv, NEW in \in Inputs, Clock(in), IInv'
  PROVE  OperandsAreArchitectural'
<1>1. hi' = NextHi(in) /\ cp0' = NextCp0(in)
  BY DEF Clock, StepState
<1>2. CASE Held(in) \in {"flush", "D"}
  <2>1. ex'.pc = 0 /\ ex'.i.op = "alu"
    BY <1>2, NopType DEF Clock, StepE, EmptyE
  <2> QED BY <2>1 DEF OperandsAreArchitectural, HiWrite
<1>3. CASE Held(in) \in {"M", "E"}
  <2>1. ex' = ex /\ kept' = kept /\ StallE(in)
    BY <1>3 DEF Clock, StepE, StepHistory, StallE
  <2>2. Executed' = Executed
    BY <1>3, ExecutedStep
  <2>3. ~HiWrite(ex.i) => hi' = hi
    BY <1>1 DEF NextHi
  <2>4. ex.i.op = "mfc0" => cp0'.compare = cp0.compare
    <3>1. cp0 \in Cp0
      BY DEF Inv, IInv, TypeOK
    <3> QED BY <1>1, <3>1 DEF NextCp0, Cp0
  <2>5. HiWrite(ex.i) /\ (ex.pc \in Misaligned \/ Interrupts) => hi' = hi
    BY <2>1, HiOfHeld
  <2> QED BY <2>1, <2>2, <2>3, <2>4, <2>5 DEF Inv, RInv, OperandsAreArchitectural, HiWrite
<1>4. CASE Held(in) = "none"
  <2>1. ex' = [pc |-> dec.pc, i |-> dec.i, bd |-> dec.bd, a |-> RsDD, b |-> RtDD,
               x |-> CASE dec.i.op = "mfhi" -> NextHi(in)
                       [] dec.i.op = "mfc0" -> NextCp0(in).compare
                       [] OTHER -> 0]
    BY <1>4 DEF Clock, StepE
  <2>2. RsDD = Executed'[dec.i.rs] /\ RtDD = Executed'[dec.i.rt]
    BY <1>4, OperandsOfD DEF RsDD, RtDD
  <2>3. kept' = hi'
    BY <1>1, <1>4 DEF Clock, StepHistory, StallE
  <2> QED BY <1>1, <2>1, <2>2, <2>3 DEF OperandsAreArchitectural
<1> QED BY <1>2, <1>3, <1>4, HeldCases

\* CP0 changes when an exception or a return is recorded first, and when MTC0 leaves E.
LEMMA Cp0Step ==
  ASSUME Inv, NEW in \in Inputs, Clock(in)
  PROVE  /\ exception_enable(in) /\ in.iok =>
              /\ cp0'.exl = TRUE /\ cp0'.cause = Code(in) /\ cp0'.compare = cp0.compare
              /\ cp0'.epc = IF cp0.exl THEN cp0.epc ELSE ReturnPC
              /\ cp0'.bd = IF cp0.exl THEN cp0.bd ELSE ex.bd
         /\ ~exception_enable(in) /\ EretE /\ in.iok =>
              /\ cp0'.exl = FALSE
              /\ UNCHANGED <<cp0.compare, cp0.epc, cp0.bd, cp0.cause>>
         /\ ~Recorded(in) /\ Held(in) # "flush" =>
              /\ cp0'.compare = IF ex.i.op = "mtc0" /\ ~ex_or_eret(in) /\ ~StallE(in) THEN ex.b
                                ELSE cp0.compare
              /\ UNCHANGED <<cp0.exl, cp0.epc, cp0.bd, cp0.cause>>
<1>1. cp0' = NextCp0(in) /\ cp0 \in Cp0
  BY DEF Clock, StepState, Inv, IInv, TypeOK
<1> QED BY <1>1 DEF NextCp0, Cp0, Recorded, ex_or_eret

\* The instruction in M and W stays recorded until it has taken effect.
LEMMA RecordedStep ==
  ASSUME ProgramInScope, Inv, NEW in \in Inputs, Clock(in)
  PROVE  RecordedStays'
<1>1. CASE ~StallE(in)
  BY <1>1 DEF Clock, StepHistory, RecordedStays
<1>2. CASE StallE(in)
  <2>1. ex' = ex /\ RaisedE' = RaisedE /\ EretE' = EretE
    BY <1>2 DEF StallE, Clock, StepE, RaisedE, EretE
  <2>2. CASE Recorded(in)
    <3>1. ~Interrupts /\ ~in.irq
      <4>1. ~in.dok
        BY <1>2, <2>2 DEF StallE, Held, Recorded
      <4> QED BY <4>1 DEF Clock, Possible, Inv, RInv, ResultsInOrder
    <3>2. CASE exception_enable(in)
      <4>1. taken' = "exception"
        BY <1>2, <2>2, <3>2 DEF Clock, StepHistory
      <4>2. ex.pc # 0 /\ RaisedE # "none" /\ cp0'.exl /\ cp0'.cause = RaisedE
        BY <2>2, <3>1, <3>2, ExceptionsInE, Cp0Step DEF Recorded
      <4> QED BY <2>1, <3>1, <4>1, <4>2 DEF RecordedStays
    <3>3. CASE ~exception_enable(in)
      <4>1. taken' = "eret" /\ EretE
        BY <1>2, <2>2, <3>3 DEF Clock, StepHistory, Recorded, ex_or_eret
      <4>2. ex.pc # 0 /\ RaisedE = "none" /\ ~cp0'.exl
        BY <2>2, <3>3, <4>1, ExceptionsInE, Cp0Step DEF Recorded
      <4> QED BY <2>1, <3>1, <4>1, <4>2 DEF RecordedStays
    <3> QED BY <3>2, <3>3
  <2>3. CASE ~Recorded(in)
    <3>1. taken' = taken
      BY <1>2, <2>3 DEF Clock, StepHistory
    <3>2. UNCHANGED <<cp0.exl, cp0.cause>>
      BY <1>2, <2>3, Cp0Step DEF StallE
    <3> QED BY <2>1, <3>1, <3>2 DEF Inv, RInv, RecordedStays
  <2> QED BY <2>2, <2>3
<1> QED BY <1>1, <1>2

\* Reset satisfies the strengthened invariant.
LEMMA InitStrong == Init => Inv
<1> SUFFICES ASSUME Init PROVE Inv
  OBVIOUS
<1>1. dec = EmptyD /\ ex = EmptyE /\ me = EmptyM /\ wb = EmptyW /\ taken = "no"
  BY DEF Init
<1>2. StagesFollowProgram
  BY <1>1 DEF StagesFollowProgram, EmptyD, EmptyE
<1>3. OrderOfStages
  BY <1>1 DEF OrderOfStages, EmptyD, EmptyE
<1>4. ResultsInOrder
  BY <1>1 DEF ResultsInOrder, EmptyM, EmptyW
<1>5. OperandsAreArchitectural
  BY <1>1, NopType DEF OperandsAreArchitectural, EmptyE, HiWrite
<1>6. RecordedStays
  BY <1>1 DEF RecordedStays
<1> QED BY <1>2, <1>3, <1>4, <1>5, <1>6, InitInv DEF Inv, RInv

\* Every clock edge keeps the strengthened invariant.
LEMMA NextStrong ==
  ASSUME ProgramInScope
  PROVE  Inv /\ [Next]_vars => Inv'
<1> SUFFICES ASSUME Inv, [Next]_vars PROVE Inv'
  OBVIOUS
<1>1. IInv'
  BY NextInv DEF Inv
<1>2. ASSUME NEW in \in Inputs, Clock(in) PROVE RInv'
  BY <1>1, <1>2, ProgramStep, FetchStep, ResultsStep, OperandsStep, RecordedStep DEF RInv
<1>3. ASSUME UNCHANGED vars PROVE RInv'
  BY <1>3 DEF vars, coreVars, history, Inv, RInv, StagesFollowProgram, OrderOfStages,
              ResultsInOrder, OperandsAreArchitectural, RecordedStays, Executed, RegsAfterW,
              RaisedE, EretE
<1>4. RInv'
  BY <1>2, <1>3 DEF Next
<1> QED BY <1>1, <1>4 DEF Inv

\* The strengthened invariant holds throughout.
LEMMA StrongInvariance ==
  ASSUME ProgramInScope
  PROVE  Spec => []Inv
BY InitStrong, NextStrong, PTL DEF Spec

-------------------------------------------------------------------------------
\* How the architecture's state follows the stages.

\* The architecture's helpers are those of the pipeline.
LEMMA SameHelpers ==
  /\ \A p : Arch!Succ(p) = Succ(p) /\ Arch!Pred(p) = Pred(p)
  /\ \A i, a, b, p : Arch!Raised(i, a, b, p) = Raised(i, a, b, p)
  /\ \A i, a, b : Arch!PCSrc(i, a, b) = PCSrc(i, a, b) /\ Arch!PCBranch(i, a) = PCBranch(i, a)
  /\ \A i : /\ Arch!BranchDelay(i) = BranchDelay(i)
            /\ Arch!MemtoReg(i) = MemtoReg(i) /\ Arch!MemWrite(i) = MemWrite(i)
  /\ \A f, r, v : Arch!WriteReg(f, r, v) = WriteReg(f, r, v)
  /\ Arch!Nop = Nop /\ Arch!Interrupt = Interrupt
<1>1. Arch!Nop = Nop /\ Arch!Interrupt = Interrupt
  BY DEF Arch!Nop, Nop, Arch!Interrupt, Interrupt
<1>2. \A i : /\ Arch!BranchDelay(i) = BranchDelay(i)
             /\ Arch!MemtoReg(i) = MemtoReg(i) /\ Arch!MemWrite(i) = MemWrite(i)
  BY DEF Arch!BranchDelay, BranchDelay, Arch!MemtoReg, MemtoReg, Arch!MemWrite, MemWrite
<1>3. /\ \A i, a, b, p : Arch!Raised(i, a, b, p) = Raised(i, a, b, p)
      /\ \A i, a, b : /\ Arch!PCSrc(i, a, b) = PCSrc(i, a, b)
                      /\ Arch!PCBranch(i, a) = PCBranch(i, a)
  BY <1>2 DEF Arch!Raised, Raised, Arch!PCSrc, PCSrc, Arch!PCBranch, PCBranch
<1>4. /\ \A p : Arch!Succ(p) = Succ(p) /\ Arch!Pred(p) = Pred(p)
      /\ \A f, r, v : Arch!WriteReg(f, r, v) = WriteReg(f, r, v)
  BY DEF Arch!Succ, Succ, Arch!Pred, Pred, Arch!WriteReg, WriteReg
<1> QED BY <1>1, <1>2, <1>3, <1>4

\* HI is what it was, whatever the unit drives, until the instruction in E leaves.
LEMMA HiStep ==
  ASSUME ProgramInScope, Inv, NEW in \in Inputs, Clock(in)
  PROVE  /\ Held(in) \in {"M", "flush", "E"} => HiBeforeE' = HiBeforeE
         /\ Held(in) \in {"D", "none"} =>
              HiBeforeE' = CASE ex.i.op = "mult" -> HiOf(SrcA, WriteDataE)
                             [] ex.i.op = "mthi" -> ex.a
                             [] OTHER -> HiBeforeE
<1>1. hi' = NextHi(in)
  BY DEF Clock, StepState
<1>2. CASE Held(in) \in {"M", "E"}
  <2>1. ex' = ex /\ kept' = kept
    BY <1>2 DEF Clock, StepE, StepHistory, StallE
  <2> QED BY <1>1, <1>2, <2>1 DEF HiBeforeE, NextHi
<1>3. CASE Held(in) = "flush"
  <2>1. ex_or_eret(in) /\ ~HiWrite(ex'.i)
    BY <1>3, HeldCases, NopType DEF Clock, StepE, EmptyE, HiWrite
  <2>2. HiBeforeE' = hi
    BY <1>1, <2>1 DEF HiBeforeE, NextHi
  <2>3. ASSUME HiWrite(ex.i) PROVE hi = kept
    <3>1. in.irq \/ RaisedE # "none"
      BY <2>1, <2>3, ExceptionsInE DEF ex_or_eret, EretE, HiWrite
    <3>2. RaisedE # "none" => ex.pc \in Misaligned
      BY <2>3 DEF RaisedE, Raised, HiWrite, MemtoReg, MemWrite
    <3>3. in.irq => Interrupts
      BY DEF Clock, Possible
    <3> QED BY <2>3, <3>1, <3>2, <3>3 DEF Inv, RInv, OperandsAreArchitectural
  <2> QED BY <1>3, <2>2, <2>3 DEF HiBeforeE
<1>4. CASE Held(in) \in {"D", "none"}
  <2>1. ~ex_or_eret(in) /\ in.done /\ kept' = NextHi(in)
    BY <1>4, HeldCases DEF Clock, StepHistory, StallE
  <2>2. HiBeforeE' = NextHi(in)
    BY <1>1, <2>1 DEF HiBeforeE
  <2> QED BY <1>4, <2>1, <2>2 DEF NextHi, HiDataE, HiBeforeE, HiWrite
<1> QED BY <1>2, <1>3, <1>4, HeldCases

\* What leaves E has recorded nothing.
LEMMA NothingRecorded ==
  ASSUME Inv, NEW in \in Inputs, Held(in) \in {"D", "none"}
  PROVE  taken = "no" /\ ~exception_enable(in) /\ ~EretE
<1>1. ~exception_enable(in) /\ ~EretE
  BY HeldCases DEF ex_or_eret
<1>2. taken \in {"no", "exception", "eret"} /\ RecordedStays
  BY DEF Inv, IInv, TypeOK, RInv
<1>3. taken # "exception" /\ taken # "eret"
  BY <1>1, <1>2, ExceptionsInE DEF RecordedStays
<1> QED BY <1>1, <1>2, <1>3

\* The program counters of the architecture when an instruction leaves E, and when a bubble does.
LEMMA PositionsOnCompletion ==
  ASSUME Inv, NEW in \in Inputs, Clock(in), Held(in) \in {"D", "none"}
  PROVE  /\ ex.pc # 0 =>
              /\ NextPC = ex.pc /\ NextInSlot = ex.bd /\ NextPC' = PCAfterNext
              /\ PCAfterNext' = IF PCSrc(ex.i, ex.a, ex.b) THEN PCBranch(ex.i, ex.a)
                                ELSE Succ(PCAfterNext)
              /\ NextInSlot' = BranchDelay(ex.i)
         /\ ex.pc = 0 => UNCHANGED <<NextPC, PCAfterNext, NextInSlot>>
<1>1. taken = "no" /\ taken' = "no"
  BY NothingRecorded DEF Clock, StepHistory, StallE
<1>2. /\ dec.pc = 0 => ex.pc = 0 /\ ~dec.bd /\ dec.i = Nop
      /\ pcF # 0 /\ pcF' # 0
  BY StageTypes, PCType DEF Inv, IInv, TypeOK, BubblesAreNops, RInv, OrderOfStages
<1>3. /\ ex.bd \in BOOLEAN /\ dec.bd \in BOOLEAN
      /\ ex'.bd \in BOOLEAN /\ dec'.bd \in BOOLEAN
  BY StageTypes DEF Inv, IInv, TypeOK, StageD, StageE
<1>4. /\ NextPC = IF ex.pc # 0 THEN ex.pc ELSE IF dec.pc # 0 THEN dec.pc ELSE pcF
      /\ PCAfterNext = IF ex.pc = 0 /\ dec.pc = 0 THEN Succ(NextPC)
                       ELSE IF ex.pc # 0 THEN dec.pc ELSE pcF
      /\ NextInSlot = IF ex.pc # 0 THEN ex.bd ELSE dec.bd
  BY <1>1, <1>3 DEF NextPC, PCAfterNext, NextInSlot
<1>5. /\ NextPC' = IF ex'.pc # 0 THEN ex'.pc ELSE IF dec'.pc # 0 THEN dec'.pc ELSE pcF'
      /\ PCAfterNext' = IF ex'.pc = 0 /\ dec'.pc = 0 THEN Succ(NextPC')
                        ELSE IF ex'.pc # 0 THEN dec'.pc ELSE pcF'
      /\ NextInSlot' = IF ex'.pc # 0 THEN ex'.bd ELSE dec'.bd
  BY <1>1, <1>3 DEF NextPC, PCAfterNext, NextInSlot
<1>6. ex.pc # 0 =>
        /\ dec.pc # 0 /\ dec.bd = BranchDelay(ex.i)
        /\ pcF = IF PCSrc(ex.i, ex.a, ex.b) THEN PCBranch(ex.i, ex.a) ELSE Succ(dec.pc)
  BY DEF Inv, RInv, OrderOfStages
<1>7. CASE Held(in) = "D"
  <2>1. ex'.pc = 0 /\ dec' = dec /\ pcF' = pcF
    BY <1>7 DEF Clock, StepF, StepD, StepE, EmptyE
  <2>2. CASE ex.pc # 0
    BY <1>4, <1>5, <1>6, <2>1, <2>2
  <2>3. CASE ex.pc = 0
    BY <1>4, <1>5, <2>1, <2>3
  <2> QED BY <2>2, <2>3
<1>8. CASE Held(in) = "none"
  <2>1. /\ ex'.pc = dec.pc /\ ex'.bd = dec.bd /\ dec'.pc = pcF /\ dec'.bd = BranchDelay(dec.i)
        /\ pcF' = PC0(in)
    BY <1>8 DEF Clock, StepF, StepD, StepE
  <2>2. dec.pc = 0 => pcF' = Succ(pcF) /\ ~BranchDelay(dec.i)
    BY <1>2, <2>1, NothingRecorded, NopType DEF PC0, PCSrc, BranchDelay
  <2>3. CASE ex.pc # 0
    BY <1>4, <1>5, <1>6, <2>1, <2>3
  <2>4. CASE ex.pc = 0 /\ dec.pc # 0
    BY <1>4, <1>5, <2>1, <2>4
  <2>5. CASE ex.pc = 0 /\ dec.pc = 0
    <3>1. BranchDelay(dec.i) = FALSE /\ dec.bd = FALSE
      BY <1>2, <2>2, <2>5 DEF BranchDelay, Inv, IInv, TypeOK, StageD
    <3> QED BY <1>2, <1>4, <1>5, <2>1, <2>2, <2>5, <3>1
  <2> QED BY <2>3, <2>4, <2>5
<1> QED BY <1>7, <1>8

\* Where it is after an exception or a return has been recorded, whether E waits or not.
LEMMA PositionsOnRecord ==
  ASSUME Inv, NEW in \in Inputs, Clock(in), Recorded(in)
  PROVE  /\ exception_enable(in) => NextPC' = Handler
         /\ ~exception_enable(in) => NextPC' = cp0.epc
         /\ PCAfterNext' = Succ(NextPC') /\ NextInSlot' = FALSE
<1>1. Held(in) \in {"M", "flush"}
  BY DEF Held, Recorded
<1>2. CASE Held(in) = "M"
  <2>1. taken' = IF exception_enable(in) THEN "exception" ELSE "eret"
    BY <1>2 DEF Clock, StepHistory, StallE
  <2>2. ~exception_enable(in) => cp0'.epc = cp0.epc
    BY Cp0Step DEF Recorded, ex_or_eret
  <2> QED BY <2>1, <2>2 DEF NextPC, PCAfterNext, NextInSlot
<1>3. CASE Held(in) = "flush"
  <2>1. taken' = "no" /\ ex'.pc = 0 /\ dec'.pc = 0 /\ ~dec'.bd /\ pcF' = PC0(in)
    BY <1>3 DEF Clock, StepHistory, StallE, StepF, StepD, StepE, EmptyD, EmptyE
  <2>2. PC0(in) = IF exception_enable(in) THEN Handler ELSE cp0.epc
    BY DEF PC0, Recorded, ex_or_eret
  <2> QED BY <2>1, <2>2 DEF NextPC, PCAfterNext, NextInSlot
<1> QED BY <1>1, <1>2, <1>3

\* An exception, an interrupt or a return that cp0 records first is the architecture's.
LEMMA RecordRefines ==
  ASSUME ProgramInScope, Inv, NEW in \in Inputs, Clock(in), IInv', Recorded(in), taken = "no"
  PROVE  Arch!MipsNext
<1>1. /\ Held(in) \in {"M", "flush"} /\ ex.pc # 0
      /\ ran' = IF in.irq THEN Interrupt ELSE ex.i
  BY ExceptionsInE DEF Held, Recorded, ex_or_eret, exception_enable, Clock, StepHistory
<1>2. UNCHANGED <<Executed, MemAfterM, HiBeforeE>>
  BY <1>1, ExecutedStep, HiStep
<1>3. /\ NextPC = ex.pc /\ NextInSlot = ex.bd
      /\ PCAfterNext' = Succ(NextPC') /\ NextInSlot' = FALSE
  BY <1>1, PositionsOnRecord DEF NextPC, NextInSlot, Inv, IInv, TypeOK, StageE
<1>4. ReturnPC = IF NextInSlot THEN Pred(NextPC) ELSE NextPC
  BY <1>3 DEF ReturnPC
<1>5. ASSUME exception_enable(in) PROVE Arch!Throw(Code(in))
  <2>1. NextPC' = Handler
    BY <1>5, PositionsOnRecord
  <2>2. /\ cp0'.exl = TRUE /\ cp0'.cause = Code(in) /\ cp0'.compare = cp0.compare
        /\ cp0'.epc = IF cp0.exl THEN cp0.epc ELSE ReturnPC
        /\ cp0'.bd = IF cp0.exl THEN cp0.bd ELSE ex.bd
    BY <1>5, Cp0Step DEF Recorded
  <2> QED BY <1>2, <1>3, <1>4, <2>1, <2>2, SameHelpers DEF Arch!Throw
<1>6. CASE in.irq
  <2>1. exception_enable(in) /\ Code(in) = "Int"
    BY <1>1, <1>6, ExceptionsInE
  <2>2. Interrupts /\ ~cp0.exl
    BY <1>6 DEF Clock, Possible
  <2> QED BY <1>1, <1>5, <1>6, <2>1, <2>2, SameHelpers DEF Arch!MipsNext, Arch!TakeInterrupt
<1>7. CASE ~in.irq
  <2>1. /\ ex.i \in Instructions \cup {Nop} /\ ran' = ex.i
        /\ ex.a = Executed[ex.i.rs] /\ ex.b = Executed[ex.i.rt]
    BY <1>1, <1>7 DEF Inv, RInv, StagesFollowProgram, OperandsAreArchitectural
  <2>2. Arch!Allowed(ex.i)
    BY <1>3, SameHelpers
       DEF Arch!Allowed, Inv, IInv, EretHasEpc, RInv, StagesFollowProgram
  <2>3. Raised(ex.i, Executed[ex.i.rs], Executed[ex.i.rt], NextPC) = RaisedE
    BY <1>3, <2>1 DEF RaisedE
  <2>4. CASE exception_enable(in)
    <3>1. RaisedE # "none" /\ Code(in) = RaisedE
      BY <1>1, <1>7, <2>4, ExceptionsInE
    <3>2. Arch!Execute(ex.i)
      BY <1>5, <2>1, <2>2, <2>3, <2>4, <3>1, SameHelpers DEF Arch!Execute
    <3> QED BY <2>1, <3>2, SameHelpers DEF Arch!MipsNext
  <2>5. CASE ~exception_enable(in)
    <3>1. RaisedE = "none" /\ ex.i.op = "eret"
      BY <1>1, <2>5, ExceptionsInE DEF Recorded, ex_or_eret, EretE
    <3>2. /\ NextPC' = cp0.epc /\ cp0'.exl = FALSE
          /\ UNCHANGED <<cp0.compare, cp0.epc, cp0.bd, cp0.cause>>
      BY <2>5, PositionsOnRecord, Cp0Step DEF Recorded, ex_or_eret
    <3>3. Arch!Return
      BY <1>2, <1>3, <3>2, SameHelpers DEF Arch!Return
    <3>4. Arch!Execute(ex.i)
      BY <2>1, <2>2, <2>3, <3>1, <3>3, SameHelpers DEF Arch!Execute
    <3> QED BY <2>1, <3>4, SameHelpers DEF Arch!MipsNext
  <2> QED BY <2>4, <2>5
<1> QED BY <1>6, <1>7

\* An instruction that leaves E is executed as the architecture executes it.
LEMMA CompletionRefines ==
  ASSUME ProgramInScope, Inv, NEW in \in Inputs, Clock(in), IInv',
         Held(in) \in {"D", "none"}, ex.pc # 0
  PROVE  Arch!MipsNext
<1>1. taken = "no" /\ ~exception_enable(in) /\ ~EretE /\ ~Recorded(in) /\ ~StallE(in)
  BY NothingRecorded DEF Recorded, ex_or_eret, StallE
<1>2. RaisedE = "none" /\ ran' = ex.i
  BY <1>1, ExceptionsInE DEF Clock, StepHistory
<1>3. /\ ex.i \in Instructions \cup {Nop}
      /\ SrcA = ex.a /\ WriteDataE = ex.b
      /\ ex.a = Executed[ex.i.rs] /\ ex.b = Executed[ex.i.rt]
      /\ ex.i.op = "mfhi" => ex.x = HiBeforeE
      /\ ex.i.op = "mfc0" => ex.x = cp0.compare
      /\ ex.i \in Instr
  BY OperandsInE DEF Inv, IInv, TypeOK, StageE, RInv, StagesFollowProgram,
                     OperandsAreArchitectural, HiBeforeE, HiWrite
<1>4. /\ NextPC = ex.pc /\ NextInSlot = ex.bd /\ NextPC' = PCAfterNext
      /\ PCAfterNext' = IF PCSrc(ex.i, ex.a, ex.b) THEN PCBranch(ex.i, ex.a)
                        ELSE Succ(PCAfterNext)
      /\ NextInSlot' = BranchDelay(ex.i)
  BY PositionsOnCompletion
<1>5. Executed' = CASE MemtoReg(ex.i)   -> WriteReg(Executed, ex.i.dst, MemAfterM[ex.a])
                    [] ex.i.op = "mfhi" -> WriteReg(Executed, ex.i.dst, HiBeforeE)
                    [] ex.i.op = "mfc0" -> WriteReg(Executed, ex.i.dst, cp0.compare)
                    [] ex.i.op = "jal"  -> WriteReg(Executed, ex.i.dst, Link(ex.pc))
                    [] ex.i.op \in {"alu", "add"} -> WriteReg(Executed, ex.i.dst, Alu(ex.a, ex.b))
                    [] OTHER            -> Executed
  <2>1. Executed' = IF RegWrite(ex.i)
                    THEN WriteReg(Executed, ex.i.dst,
                                  IF MemtoReg(ex.i) THEN MemAfterM[ALUOutE] ELSE ALUOutE)
                    ELSE Executed
    BY ExecutedStep
  <2>2. ex.i.op # "reserved"
    BY <1>2 DEF RaisedE, Raised
  <2>3. /\ ex.i.op \in {"alu", "add"}   => ALUOutE = Alu(ex.a, ex.b)
        /\ ex.i.op \in {"mfhi", "mfc0"} => ALUOutE = ex.x
        /\ ex.i.op = "load"             => ALUOutE = ex.a
        /\ ex.i.op = "jal"              => ALUOutE = Link(ex.pc)
    BY <1>3 DEF ALUOutE, ALUOut
  <2>4. \A v : ex.i.dst = 0 => WriteReg(Executed, ex.i.dst, v) = Executed
    BY DEF WriteReg
  <2>5. ~RegWrite(ex.i) <=> \/ ex.i.op \notin {"mfc0", "jal", "alu", "add", "mfhi", "load", "reserved"}
                            \/ ex.i.op \in {"alu", "add", "mfhi", "load", "reserved"} /\ ex.i.dst = 0
    BY DEF RegWrite
  <2> QED BY <1>3, <2>1, <2>2, <2>3, <2>4, <2>5 DEF MemtoReg
<1>6. HiBeforeE' = CASE ex.i.op = "mult" -> HiOf(ex.a, ex.b)
                     [] ex.i.op = "mthi" -> ex.a
                     [] OTHER -> HiBeforeE
  BY <1>3, HiStep
<1>7. MemAfterM' = IF MemWrite(ex.i) THEN [MemAfterM EXCEPT ![ex.a] = ex.b] ELSE MemAfterM
  <2>1. MemWrite(ex.i) => ALUOutE = ex.a
    BY <1>3 DEF ALUOutE, ALUOut, MemWrite
  <2> QED BY <1>3, <2>1, ExecutedStep
<1>8. /\ cp0'.compare = IF ex.i.op = "mtc0" THEN ex.b ELSE cp0.compare
      /\ UNCHANGED <<cp0.exl, cp0.epc, cp0.bd, cp0.cause>>
  BY <1>1, Cp0Step DEF ex_or_eret
<1>9. Arch!Complete(ex.i, ex.a, ex.b)
  BY <1>4, <1>5, <1>6, <1>7, <1>8, SameHelpers DEF Arch!Complete
<1>10. Arch!Allowed(ex.i)
  BY <1>4, SameHelpers DEF Arch!Allowed, Inv, IInv, EretHasEpc, RInv, StagesFollowProgram
<1>11. Raised(ex.i, Executed[ex.i.rs], Executed[ex.i.rt], NextPC) = "none"
  BY <1>2, <1>3, <1>4 DEF RaisedE
<1>12. Arch!Execute(ex.i)
  BY <1>1, <1>2, <1>3, <1>9, <1>10, <1>11, SameHelpers DEF Arch!Execute, EretE
<1> QED BY <1>3, <1>12, SameHelpers DEF Arch!MipsNext

\* All other cycles leave the architecture where it is: a stage waits, a bubble passes E, or
\* E waits with what cp0 has recorded before and records it again.
LEMMA OtherCyclesStutter ==
  ASSUME ProgramInScope, Inv, NEW in \in Inputs, Clock(in), IInv',
         Recorded(in) => taken # "no", Held(in) \in {"D", "none"} => ex.pc = 0
  PROVE  UNCHANGED <<NextPC, PCAfterNext, NextInSlot, Executed, HiBeforeE, MemAfterM, cp0.compare,
                     cp0.exl, cp0.epc, cp0.bd, cp0.cause, ran>>
<1>1. ran' = ran
  BY DEF Clock, StepHistory
<1>2. ASSUME ex.pc = 0
      PROVE  ~Recorded(in) /\ Held(in) # "flush" /\ ex.i.op # "mtc0" /\ ~HiWrite(ex.i)
  <2>1. ~ex_or_eret(in)
    BY <1>2, ExceptionsInE DEF ex_or_eret
  <2> QED BY <1>2, <2>1, HeldCases, NopType DEF Recorded, HiWrite, Inv, IInv, BubblesAreNops
<1>3. UNCHANGED <<Executed, MemAfterM, HiBeforeE>>
  <2>1. CASE Held(in) \in {"M", "flush", "E"}
    BY <2>1, ExecutedStep, HiStep
  <2>2. CASE Held(in) \in {"D", "none"}
    <3>1. ex.i = Nop /\ Nop.op = "alu" /\ Nop.dst = 0
      BY <2>2, NopType DEF Inv, IInv, BubblesAreNops, Nop
    <3>2. ~RegWrite(ex.i) /\ ~MemWrite(ex.i)
      BY <3>1 DEF RegWrite, MemWrite
    <3> QED BY <2>2, <3>1, <3>2, ExecutedStep, HiStep
  <2> QED BY <2>1, <2>2, HeldCases
<1>4. UNCHANGED <<cp0.compare, cp0.exl, cp0.epc, cp0.bd, cp0.cause>>
  <2>1. CASE Recorded(in)
    <3>1. taken \in {"exception", "eret"} /\ RecordedStays /\ ~in.irq
      BY <2>1 DEF Inv, IInv, TypeOK, RInv, RecordedStays, Clock, Possible
    <3>2. CASE taken = "exception"
      <4>1. exception_enable(in) /\ Code(in) = RaisedE /\ cp0.exl = TRUE /\ cp0.cause = RaisedE
        BY <3>1, <3>2, ExceptionsInE DEF RecordedStays, Inv, IInv, TypeOK, Cp0
      <4> QED BY <2>1, <4>1, Cp0Step DEF Recorded
    <3>3. CASE taken = "eret"
      <4>1. ~exception_enable(in) /\ EretE /\ cp0.exl = FALSE
        BY <3>1, <3>3, ExceptionsInE DEF RecordedStays, Inv, IInv, TypeOK, Cp0
      <4> QED BY <2>1, <4>1, Cp0Step DEF Recorded
    <3> QED BY <3>1, <3>2, <3>3
  <2>2. CASE ~Recorded(in)
    <3>1. Held(in) # "flush"
      BY <2>2, HeldCases DEF Recorded
    <3>2. ~(ex.i.op = "mtc0" /\ ~StallE(in))
      BY <1>2, <3>1, HeldCases DEF StallE
    <3> QED BY <2>2, <3>1, <3>2, Cp0Step
  <2> QED BY <2>1, <2>2
<1>5. UNCHANGED <<NextPC, PCAfterNext, NextInSlot>>
  <2>1. CASE Held(in) \in {"D", "none"}
    BY <2>1, PositionsOnCompletion
  <2>2. CASE Held(in) = "flush"
    <3>1. Recorded(in) /\ taken \in {"exception", "eret"} /\ RecordedStays /\ ~in.irq
      BY <2>2, HeldCases DEF Recorded, Inv, IInv, TypeOK, RInv, RecordedStays, Clock, Possible
    <3>2. /\ NextPC = IF taken = "exception" THEN Handler ELSE cp0.epc
          /\ PCAfterNext = Succ(NextPC) /\ NextInSlot = FALSE
      BY <3>1 DEF NextPC, PCAfterNext, NextInSlot
    <3>3. exception_enable(in) <=> taken = "exception"
      BY <3>1, ExceptionsInE DEF RecordedStays
    <3> QED BY <3>1, <3>2, <3>3, PositionsOnRecord
  <2>3. CASE Held(in) \in {"M", "E"}
    <3>1. UNCHANGED <<pcF, dec, ex>>
      BY <2>3 DEF Clock, StepF, StepD, StepE
    <3>2. taken' = taken
      <4>1. CASE Recorded(in)
        <5>1. taken \in {"exception", "eret"} /\ RecordedStays /\ ~in.irq
          BY <4>1 DEF Inv, IInv, TypeOK, RInv, RecordedStays, Clock, Possible
        <5>2. exception_enable(in) <=> taken = "exception"
          BY <5>1, ExceptionsInE DEF RecordedStays
        <5> QED BY <2>3, <4>1, <5>1, <5>2 DEF Clock, StepHistory, StallE
      <4>2. CASE ~Recorded(in)
        BY <2>3, <4>2 DEF Clock, StepHistory, StallE
      <4> QED BY <4>1, <4>2
    <3> QED BY <1>4, <3>1, <3>2 DEF NextPC, PCAfterNext, NextInSlot
  <2> QED BY <2>1, <2>2, <2>3, HeldCases
<1> QED BY <1>1, <1>3, <1>4, <1>5

\* After reset the pipeline stands for the processor after reset.
LEMMA CoreInitRefines == Init => Arch!MipsInit
<1> SUFFICES ASSUME Init PROVE Arch!MipsInit
  OBVIOUS
<1>1. /\ NextPC = Pred(Boot) /\ PCAfterNext = Succ(NextPC) /\ NextInSlot = FALSE
      /\ Executed = regs /\ MemAfterM = mem /\ HiBeforeE = hi
  BY NopType DEF Init, NextPC, PCAfterNext, NextInSlot, Executed, RegsAfterW, MemAfterM, HiBeforeE,
                 EmptyD, EmptyE, EmptyM, EmptyW, HiWrite
<1> QED BY <1>1, SameHelpers DEF Init, Arch!MipsInit, Arch!Reg, Reg

\* Every clock edge is an instruction of the processor, or nothing.
LEMMA CoreNextRefines ==
  ASSUME ProgramInScope, Inv, Inv', [Next]_vars
  PROVE  [Arch!MipsNext]_(Arch!mipsVars)
<1>1. ASSUME NEW in \in Inputs, Clock(in)
      PROVE  [Arch!MipsNext]_(Arch!mipsVars)
  <2>1. CASE Recorded(in) /\ taken = "no"
    BY <1>1, <2>1, RecordRefines DEF Inv
  <2>2. CASE Held(in) \in {"D", "none"} /\ ex.pc # 0
    BY <1>1, <2>2, CompletionRefines DEF Inv
  <2>3. CASE ~(Recorded(in) /\ taken = "no") /\ ~(Held(in) \in {"D", "none"} /\ ex.pc # 0)
    BY <1>1, <2>3, OtherCyclesStutter DEF Inv, Arch!mipsVars
  <2> QED BY <2>1, <2>2, <2>3
<1>2. CASE UNCHANGED vars
  BY <1>2 DEF vars, coreVars, history, Arch!mipsVars, NextPC, PCAfterNext, NextInSlot, Executed,
              RegsAfterW, HiBeforeE, MemAfterM, DataM
<1> QED BY <1>1, <1>2 DEF Next

\* The pipeline implements the architecture, whatever the program, the instruction side, the
\* memory and the multiplier do: with all its forwarding, stalls, delay slots, flushes and waits
\* its registers, HI, CP0 and memory are those of a machine that executes one instruction
\* at a time.
THEOREM CoreRefinement ==
  ASSUME ProgramInScope
  PROVE  Spec => ImplementsMips
<1>1. Init => Arch!MipsInit
  BY CoreInitRefines
<1>2. Inv /\ Inv' /\ [Next]_vars => [Arch!MipsNext]_(Arch!mipsVars)
  BY CoreNextRefines
<1> QED BY <1>1, <1>2, StrongInvariance, PTL DEF Spec, ImplementsMips, Arch!MipsSpec
===============================================================================
