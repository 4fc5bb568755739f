------------------------------- MODULE MyCore ---------------------------------
(***************************************************************************)
(* src/source/mycpu/MyCore.sv: five stages, F D E M W, one Clock per edge. *)
(* A stage holds, empties or takes what the one before it holds; all of    *)
(* them follow the one verdict of hazard.sv.  Memory and the instruction   *)
(* side answer when they like.                                             *)
(***************************************************************************)
EXTENDS MipsInstr

VARIABLES
  pcF, validF, \* F: the address asked for, and whether it is (ireq)
  dec,         \* D
  ex,          \* E
  me,          \* M: the data request (dreq) is its address and data
  wb,          \* W
  regs, hi,    \* regfile, hilo
  cp0,         \* the CP0 registers
  mem          \* the memory behind the data bus

coreVars == <<pcF, validF, dec, ex, me, wb, regs, hi, cp0, mem>>

\* What has been executed, for the refinement: not in the code.
VARIABLES
  taken,  \* whether cp0 has recorded the exception or the return of E, which still waits
  kept,   \* hi when the instruction in E got there
  ran     \* the last instruction executed

history == <<taken, kept, ran>>
vars    == <<coreVars, history>>

StageD == [pc: PC \cup {0}, i: Instr, bd: BOOLEAN]
StageE == [pc: PC \cup {0}, i: Instr, bd: BOOLEAN, a: Val, b: Val, x: Val]
StageM == [write: BOOLEAN, load: BOOLEAN, store: BOOLEAN, dst: Reg, rt: Reg, out: Val, data: Val]
StageW == [write: BOOLEAN, dst: Reg, result: Val]
Cp0    == [compare: Val, exl: BOOLEAN, epc: PC \cup {0}, bd: BOOLEAN,
           cause: ExcCode \cup {"none"}]

EmptyD == [pc |-> 0, i |-> Nop, bd |-> FALSE]
EmptyE == [pc |-> 0, i |-> Nop, bd |-> FALSE, a |-> 0, b |-> 0, x |-> 0]
EmptyM == [write |-> FALSE, load |-> FALSE, store |-> FALSE, dst |-> 0, rt |-> 0,
           out |-> 0, data |-> 0]
EmptyW == [write |-> FALSE, dst |-> 0, result |-> 0]

TypeOK ==
  /\ pcF \in PC /\ validF \in BOOLEAN
  /\ dec \in StageD /\ ex \in StageE /\ me \in StageM /\ wb \in StageW
  /\ regs \in [Reg -> Val] /\ hi \in Val /\ cp0 \in Cp0 /\ mem \in [Val -> Val]
  /\ taken \in {"no", "exception", "eret"} /\ kept \in Val /\ ran \in Instr \cup {Interrupt}

Init ==
  /\ pcF = Pred(Boot) /\ validF = FALSE
  /\ dec = EmptyD /\ ex = EmptyE /\ me = EmptyM /\ wb = EmptyW
  /\ regs = [r \in Reg |-> 0] /\ hi = 0 /\ mem = [v \in Val |-> 0]
  /\ cp0 = [compare |-> 0, exl |-> FALSE, epc |-> 0, bd |-> FALSE, cause |-> "none"]
  /\ taken = "no" /\ kept = 0 /\ ran = Nop

\* What the core sees in one cycle: i_data_ok, d_data_ok, the multiplier's done and what
\* it shows while it is not, and the interrupt lines.
Inputs == [iok: BOOLEAN, dok: BOOLEAN, done: BOOLEAN, junk: Val, irq: BOOLEAN]

\* ok is true when nothing is asked; what is not looked at has one value.
Possible(in) ==
  /\ ~validF => in.iok
  /\ ~(me.load \/ me.store) => in.dok
  /\ ex.i.op # "mult" => in.done
  /\ in.done => in.junk = 0
  /\ in.irq => Interrupts /\ ~cp0.exl

-------------------------------------------------------------------------------
\* Forwarding.

\* An operand in E: the newer result first; the word a load in M waits for is not there.
ForwardE(r, captured) ==
  IF me.write /\ ~me.load /\ me.dst = r THEN me.out
  ELSE IF wb.write /\ wb.dst = r THEN wb.result
  ELSE captured

SrcA       == ForwardE(ex.i.rs, ex.a)
WriteDataE == ForwardE(ex.i.rt, ex.b)
ALUOutE    == ALUOut(ex.i, SrcA, WriteDataE, ex.x, ex.pc)

\* Slip: E is not looked at.
ForwardDFromM(r) == ForwardE(r, regs[r])

\* An operand in D.
ForwardD(r) ==
  IF RegWrite(ex.i) /\ ~MemtoReg(ex.i) /\ ex.i.dst = r THEN ALUOutE
  ELSE ForwardE(r, regs[r])

RsDD == ForwardD(dec.i.rs)
RtDD == ForwardD(dec.i.rt)

\* Store data in M.
DataM == IF wb.write /\ me.store /\ wb.dst = me.rt THEN wb.result ELSE me.data

-------------------------------------------------------------------------------
\* Exceptions.

Code(in) == IF in.irq THEN "Int" ELSE Raised(ex.i, SrcA, WriteDataE, ex.pc)

exception_enable(in) == ex.pc # 0 /\ Code(in) # "none"
EretE                == ex.i.op = "eret"
ex_or_eret(in)       == exception_enable(in) \/ EretE

-------------------------------------------------------------------------------
\* The hazard unit.

LoadFeedsE == me.write /\ me.load /\ me.dst \in {ex.i.rs, ex.i.rt}

FeedsD(write, r) == write /\ r \in {dec.i.rs, dec.i.rt}

\* Slip: only the load in E is looked at.
LoadFeedsDFromE == FeedsD(RegWrite(ex.i) /\ MemtoReg(ex.i), ex.i.dst)

LoadFeedsD ==
  \/ FeedsD(me.write /\ me.load, me.dst)
  \/ FeedsD(RegWrite(ex.i) /\ MemtoReg(ex.i), ex.i.dst)

\* A multiplication reads its operands from the register file.
MultWaits ==
  /\ dec.i.op = "mult"
  /\ \/ FeedsD(wb.write, wb.dst)
     \/ FeedsD(me.write /\ ~me.load, me.dst)
     \/ FeedsD(RegWrite(ex.i) /\ ~MemtoReg(ex.i), ex.i.dst)

\* Slip: an exception is not kept back for the fetch that is under way.
HeldNotForFetch(in) ==
  IF ~in.dok THEN "M"
  ELSE IF ex_or_eret(in) THEN "flush"
  ELSE IF LoadFeedsE \/ ~in.done THEN "E"
  ELSE IF ~in.iok \/ LoadFeedsD \/ MultWaits THEN "D"
  ELSE "none"

\* The last stage that holds what it has; "flush" empties D, E and M and holds nothing.
Held(in) ==
  IF ~in.dok THEN "M"
  ELSE IF ex_or_eret(in) THEN IF in.iok THEN "flush" ELSE "E"
  ELSE IF LoadFeedsE \/ ~in.done THEN "E"
  ELSE IF ~in.iok \/ LoadFeedsD \/ MultWaits THEN "D"
  ELSE "none"

StallE(in) == Held(in) \in {"M", "E"}

-------------------------------------------------------------------------------
\* HI and CP0.

HiDataE(in) ==
  IF ex.i.op = "mult" THEN IF in.done THEN HiOf(SrcA, WriteDataE) ELSE in.junk
  ELSE ex.a

\* HI is written in every cycle an instruction that writes it is in E; D reads it through.
NextHi(in) == IF HiWrite(ex.i) /\ ~ex_or_eret(in) THEN HiDataE(in) ELSE hi

\* Slip: delay slot or not.
ReturnPCOfSlot == ex.pc

\* Where the program resumes: at the branch if the instruction is in its delay slot.
ReturnPC == IF ex.bd THEN Pred(ex.pc) ELSE ex.pc

\* An exception that is recorded while EXL is set leaves EPC and BD alone.
NextCp0(in) ==
  IF exception_enable(in) /\ in.iok
  THEN [cp0 EXCEPT !.cause = Code(in), !.exl = TRUE,
                   !.epc = IF cp0.exl THEN @ ELSE ReturnPC,
                   !.bd  = IF cp0.exl THEN @ ELSE ex.bd]
  ELSE IF EretE /\ in.iok THEN [cp0 EXCEPT !.exl = FALSE]
  ELSE IF ex.i.op = "mtc0" /\ ~ex_or_eret(in) /\ ~StallE(in)
  THEN [cp0 EXCEPT !.compare = ex.b]
  ELSE cp0

-------------------------------------------------------------------------------
\* The stages.

\* Slip: the branch in D goes before the exception in E.
PC0BranchFirst(in) ==
  IF PCSrc(dec.i, RsDD, RtDD) THEN PCBranch(dec.i, RsDD)
  ELSE IF exception_enable(in) THEN Handler
  ELSE IF EretE THEN cp0.epc
  ELSE Succ(pcF)

PC0(in) ==
  IF exception_enable(in) THEN Handler
  ELSE IF EretE THEN cp0.epc
  ELSE IF PCSrc(dec.i, RsDD, RtDD) THEN PCBranch(dec.i, RsDD)
  ELSE Succ(pcF)

\* Slip: F is emptied with the others.
StepFFlushed(in) ==
  CASE Held(in) = "none"  -> pcF' = PC0(in) /\ validF' = TRUE
    [] Held(in) = "flush" -> pcF' = 0 /\ validF' = FALSE
    [] OTHER              -> UNCHANGED <<pcF, validF>>

StepF(in) ==
  IF Held(in) \in {"none", "flush"} THEN pcF' = PC0(in) /\ validF' = TRUE
  ELSE UNCHANGED <<pcF, validF>>

\* What the instruction side may return: 0 when it was not asked; no branch or ERET in a
\* delay slot, and no ERET before EPC is set.
Fetched ==
  IF ~validF THEN {Nop}
  ELSE {i \in Instructions : /\ BranchDelay(dec.i) => ~BranchDelay(i) /\ i.op # "eret"
                             /\ i.op = "eret" => cp0.epc # 0}

StepD(in) ==
  CASE Held(in) = "flush" -> dec' = EmptyD
    [] Held(in) = "none"  -> \E i \in Fetched :
                               dec' = [pc |-> pcF, i |-> i, bd |-> BranchDelay(dec.i)]
    [] OTHER              -> UNCHANGED dec

\* Slip: E keeps what it has passed on while D waits.
StepEKept(in) ==
  ex' = CASE Held(in) = "flush" -> EmptyE
          [] Held(in) = "none" ->
               [pc |-> dec.pc, i |-> dec.i, bd |-> dec.bd, a |-> RsDD, b |-> RtDD,
                x |-> CASE dec.i.op = "mfhi" -> NextHi(in)
                        [] dec.i.op = "mfc0" -> NextCp0(in).compare
                        [] OTHER -> 0]
          [] OTHER -> ex

\* x is HI for MFHI and the CP0 register for MFC0.
StepE(in) ==
  ex' = CASE Held(in) \in {"flush", "D"} -> EmptyE
          [] Held(in) = "none" ->
               [pc |-> dec.pc, i |-> dec.i, bd |-> dec.bd, a |-> RsDD, b |-> RtDD,
                x |-> CASE dec.i.op = "mfhi" -> NextHi(in)
                        [] dec.i.op = "mfc0" -> NextCp0(in).compare
                        [] OTHER -> 0]
          [] OTHER -> ex

\* The data of an instruction that is no store, which no one looks at, is 0.
StepM(in) ==
  me' = CASE Held(in) \in {"flush", "E"} -> EmptyM
          [] Held(in) = "M" -> me
          [] OTHER ->
               [write |-> RegWrite(ex.i), load |-> MemtoReg(ex.i), store |-> MemWrite(ex.i),
                dst |-> ex.i.dst, rt |-> IF MemWrite(ex.i) THEN ex.i.rt ELSE 0, out |-> ALUOutE,
                data |-> IF MemWrite(ex.i) THEN WriteDataE ELSE 0]

StepW(in) ==
  wb' = IF Held(in) = "M" THEN EmptyW
        ELSE [write |-> me.write, dst |-> me.dst,
              result |-> IF me.load THEN mem[me.out] ELSE me.out]

StepState(in) ==
  /\ regs' = IF wb.write THEN WriteReg(regs, wb.dst, wb.result) ELSE regs
  /\ hi' = NextHi(in)
  /\ cp0' = NextCp0(in)
  /\ mem' = IF me.store /\ in.dok THEN [mem EXCEPT ![me.out] = DataM] ELSE mem

-------------------------------------------------------------------------------
\* An instruction is executed when it leaves E for M, an exception or a return when cp0
\* first records it.
Recorded(in) == ex_or_eret(in) /\ in.iok

StepHistory(in) ==
  /\ taken' = IF ~StallE(in) THEN "no"
              ELSE IF Recorded(in) THEN IF exception_enable(in) THEN "exception" ELSE "eret"
              ELSE taken
  /\ kept' = IF StallE(in) THEN kept ELSE NextHi(in)
  /\ ran' = IF Recorded(in) /\ taken = "no" THEN IF in.irq THEN Interrupt ELSE ex.i
            ELSE IF ex.pc # 0 /\ Held(in) \in {"D", "none"} THEN ex.i
            ELSE ran

Clock(in) ==
  /\ Possible(in)
  /\ StepF(in) /\ StepD(in) /\ StepE(in) /\ StepM(in) /\ StepW(in)
  /\ StepState(in)
  /\ StepHistory(in)

Next == \E in \in Inputs : Clock(in)

Spec == Init /\ [][Next]_vars

\* The clock runs, and the instruction side, the memory and the multiplier each answer
\* again and again.
Fairness ==
  /\ WF_vars(\E in \in Inputs : in.iok /\ Clock(in))
  /\ WF_vars(\E in \in Inputs : in.dok /\ Clock(in))
  /\ WF_vars(\E in \in Inputs : in.done /\ Clock(in))

FairSpec == Spec /\ Fairness

===============================================================================
