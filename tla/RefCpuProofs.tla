----------------------------- MODULE RefCpuProofs -----------------------------
(***************************************************************************)
(* Proofs about the reference CPU, for every word size, register file,     *)
(* program and ALU, and for all buses that obey their protocol.            *)
(***************************************************************************)
EXTENDS RefCpuImplements, TLAPS

\* The states of an instruction that has been fetched and has had no effect yet.
Underway == {"DECODE", "ARITHMETIC", "RTYPE", "BRANCH_EVAL", "ADDR_CHECK", "LOAD",
             "LOAD_ADDR_SENT", "LOADED", "STORE", "STORE_ADDR_SENT", "COP0_DECODE",
             "COP0_ACCESS", "EXCEPTION_RETURN"}

\* It was fetched from an aligned address, and software is as Fetched says.
FetchedByTheRules ==
  /\ state = "FETCH_ADDR_SENT" => pc \notin Misaligned
  /\ state \in Underway =>
       /\ pc \notin Misaligned /\ instr \in Instructions
       /\ delayed => ~BranchDelay(instr) /\ instr.op # "eret"
       /\ instr.op = "eret" => cp0.epc # 0

\* Every state meets the instructions it is made for.
Dispatched ==
  /\ state = "ARITHMETIC" => instr.op \in {"alu", "add"}
  /\ state = "RTYPE" => instr.op \in {"alu", "add", "mult", "mfhi", "mthi", "jr", "syscall",
                                      "reserved"}
  /\ state = "BRANCH_EVAL" => instr.op \in {"branch", "jal", "reserved"}
  /\ state = "ADDR_CHECK" => instr.op \in {"load", "store"}
  /\ state \in {"LOAD", "LOAD_ADDR_SENT", "LOADED"} => instr.op = "load"
  /\ state \in {"STORE", "STORE_ADDR_SENT"} => instr.op = "store"
  /\ state = "COP0_DECODE" => instr.op \in {"mfc0", "mtc0", "eret", "reserved"}
  /\ state = "COP0_ACCESS" => instr.op \in {"mfc0", "mtc0", "reserved"}
  /\ state = "EXCEPTION_RETURN" => instr.op = "eret"

\* A delay slot has a target to go to, and a branch is in none.
SlotHasTarget ==
  /\ delayed => delayed_pc \in PC
  /\ state = "EXCEPTION" => ~delayed /\ (args.delayed => delayed_pc \in PC)
  /\ state = "BRANCH" => args.new_pc \in PC /\ ~delayed

\* What a load or a store has got so far.
MemoryArgs ==
  /\ state \in {"LOAD", "LOAD_ADDR_SENT", "LOADED", "STORE", "STORE_ADDR_SENT"} =>
       rs \in Aligned /\ args.addr = rs
  /\ state \in {"STORE", "STORE_ADDR_SENT"} => args.data = rt
  /\ state = "LOADED" => args.data = mem[rs]
  /\ state \in {"LOAD_ADDR_SENT", "STORE_ADDR_SENT"} => asked.addr = rs
  /\ state = "STORE_ADDR_SENT" => asked.data = rt

\* The exception is the one the instruction raises, or an interrupt that may be taken.
RightException ==
  state = "EXCEPTION" =>
    IF args.code = "Int" THEN Interrupts /\ ~cp0.exl /\ ~args.delayed
    ELSE IF pc \in Misaligned THEN args.code = "AdEL"
    ELSE /\ instr \in Instructions
         /\ args.code = Raised(instr, rs, rt, pc)

IInv ==
  /\ RefTypeOK
  /\ NeverTrapped
  /\ AskedOnce
  /\ FetchedByTheRules
  /\ Dispatched
  /\ SlotHasTarget
  /\ MemoryArgs
  /\ RightException

-------------------------------------------------------------------------------
\* The helpers of the model return what their names say.

\* The PCs are counted round, and 0 is not one of them.
LEMMA PCType ==
  /\ \A p \in PC : Succ(p) \in PC /\ Pred(p) \in PC
  /\ 0 \notin PC
BY InstrAssumption DEF PC, Succ, Pred

\* The word of an empty slot, and the word an interrupt puts there.
LEMMA NopType == Nop \in Instr /\ Interrupt = [Nop EXCEPT !.op = "interrupt"]
<1>1. 0 \in Reg /\ 1 \in PC
  BY InstrAssumption DEF Reg, PC
<1>2. QED BY <1>1 DEF Nop, Instr, Op, Interrupt

\* The arguments that one state leaves to the next.
LEMMA NoArgsType ==
  /\ NoArgs \in Args
  /\ \A code \in ExcCode, d \in BOOLEAN :
       [NoArgs EXCEPT !.code = code, !.delayed = d] \in Args
  /\ \A p \in PC : [NoArgs EXCEPT !.new_pc = p] \in Args
  /\ \A a, v \in Val : [NoArgs EXCEPT !.addr = a, !.data = v] \in Args
<1>1. 0 \in Val
  BY InstrAssumption
<1>2. QED BY <1>1 DEF NoArgs, Args, ExcCode

\* A register file stays one when it is written.
LEMMA WriteRegType ==
  ASSUME NEW file \in [Reg -> Val], NEW r \in Reg, NEW v \in Val
  PROVE  WriteReg(file, r, v) \in [Reg -> Val]
BY DEF WriteReg

\* The operands of the current instruction, and what is computed of them.
LEMMA OperandType ==
  ASSUME RefTypeOK
  PROVE  /\ instr.op \in Op /\ instr.rs \in Reg /\ instr.rt \in Reg
         /\ instr.dst \in Reg /\ instr.to \in PC
         /\ rs \in Val /\ rt \in Val
         /\ Alu(rs, rt) \in Val /\ HiOf(rs, rt) \in Val /\ Link(pc) \in Val
         /\ PCBranch(instr, rs) \in PC
<1>1. /\ instr.op \in Op /\ instr.rs \in Reg /\ instr.rt \in Reg
      /\ instr.dst \in Reg /\ instr.to \in PC
  BY DEF RefTypeOK, Instr
<1>2. rs \in Val /\ rt \in Val
  BY <1>1 DEF RefTypeOK, rs, rt
<1>3. Target(rs) \in PC
  BY <1>2, InstrAssumption
<1>4. Alu(rs, rt) \in Val /\ HiOf(rs, rt) \in Val /\ Link(pc) \in Val
  BY <1>2, InstrAssumption DEF RefTypeOK
<1>5. QED BY <1>1, <1>2, <1>3, <1>4 DEF PCBranch

\* A bus cycle keeps its request and the memory well-formed.
LEMMA BusType ==
  ASSUME RefTypeOK, NEW resp \in Response, BusCycle(resp)
  PROVE  /\ Driven \in Request \cup {Nothing}
         /\ asked' \in Request \cup {Nothing}
         /\ mem' \in [Val -> Val]
         /\ resp.data_ok => InFlight \in Request
<1>1. 0 \in Val
  BY InstrAssumption
<1>2. Driven \in Request \cup {Nothing}
  <2>1. args.addr \in Val /\ args.data \in Val
    BY DEF RefTypeOK, Args
  <2>2. CASE state = "FETCH" /\ pc \notin Misaligned
    BY <1>1, <2>2 DEF Driven, Request
  <2>3. CASE state = "LOAD"
    BY <1>1, <2>1, <2>3 DEF Driven, Request
  <2>4. CASE state = "STORE"
    BY <2>1, <2>4 DEF Driven, Request
  <2>5. CASE ~(state = "FETCH" /\ pc \notin Misaligned) /\ state \notin {"LOAD", "STORE"}
    BY <2>5 DEF Driven
  <2>6. QED BY <2>2, <2>3, <2>4, <2>5
<1>3. asked' \in Request \cup {Nothing}
  BY <1>2 DEF BusCycle, RefTypeOK
<1>4. resp.data_ok => InFlight \in Request
  BY <1>2 DEF BusCycle, BusPossible, InFlight, RefTypeOK
<1>5. mem' \in [Val -> Val]
  BY <1>4 DEF BusCycle, RefTypeOK, Request
<1>6. QED BY <1>2, <1>3, <1>4, <1>5

-------------------------------------------------------------------------------
\* The invariant, action by action.

\* Reset satisfies the invariant.
LEMMA InitInv == RefInit => IInv
<1> SUFFICES ASSUME RefInit PROVE IInv
  OBVIOUS
<1>1. 0 \in Val /\ 0 \in Reg
  BY InstrAssumption DEF Reg
<1>2. RefTypeOK
  BY <1>1, NopType, NoArgsType, ProgramAssumption, InstrAssumption
     DEF RefInit, RefTypeOK, RefState, RefCp0, Nothing
<1>3. AskedOnce /\ NeverTrapped
  BY DEF RefInit, AskedOnce, NeverTrapped, Nothing
<1>4. FetchedByTheRules /\ Dispatched /\ SlotHasTarget /\ MemoryArgs /\ RightException
  BY DEF RefInit, FetchedByTheRules, Dispatched, SlotHasTarget, MemoryArgs, RightException,
         Underway
<1>5. QED BY <1>2, <1>3, <1>4 DEF IInv

\* An instruction that throws what it raises.
LEMMA ThrowKeeps ==
  ASSUME IInv, NEW code \in ExcCode, code # "Int", Throw(code),
         IF pc \in Misaligned THEN code = "AdEL"
         ELSE instr \in Instructions /\ code = Raised(instr, rs, rt, pc),
         asked = Nothing,
         UNCHANGED <<pc, delayed_pc, instr, regs, hi, cp0, asked, mem, ran>>
  PROVE  IInv'
<1>1. RefTypeOK'
  BY NoArgsType DEF IInv, RefTypeOK, RefState, Throw
<1>2. NeverTrapped' /\ AskedOnce'
  BY DEF Throw, NeverTrapped, AskedOnce, Nothing
<1>3. args'.code = code /\ args'.delayed = delayed
  BY DEF Throw, NoArgs
<1>4. FetchedByTheRules' /\ Dispatched' /\ MemoryArgs'
  BY DEF Throw, FetchedByTheRules, Dispatched, MemoryArgs, Underway
<1>5. SlotHasTarget'
  BY <1>3 DEF IInv, Throw, SlotHasTarget
<1>6. RightException'
  BY <1>3 DEF RightException, rs, rt
<1>7. QED BY <1>1, <1>2, <1>4, <1>5, <1>6 DEF IInv

\* Out of the states that wait for an answer nothing is asked.
LEMMA NothingAsked ==
  ASSUME IInv, state \notin {"FETCH_ADDR_SENT", "LOAD_ADDR_SENT", "STORE_ADDR_SENT"}
  PROVE  asked = Nothing
BY DEF IInv, AskedOnce, RefTypeOK, Request

\* FETCH keeps the invariant: the request is on the bus from here to its answer.
LEMMA FetchKeeps ==
  ASSUME IInv, NEW resp \in Response, BusCycle(resp), Fetch(resp)
  PROVE  IInv'
<1>1. asked = Nothing
  BY NothingAsked DEF Fetch
<1>2. CASE pc \in Misaligned
  <2>1. Driven = Nothing /\ resp = Quiet
    BY <1>1, <1>2 DEF Fetch, Driven, BusCycle, BusPossible, Response, Quiet
  <2>2. UNCHANGED <<asked, mem>>
    BY <1>1, <2>1 DEF BusCycle, Quiet
  <2>3. QED BY <1>1, <1>2, <2>2, ThrowKeeps DEF Fetch, ExcCode
<1>3. CASE pc \notin Misaligned
  <2>1. Driven.kind = "fetch"
    BY <1>3 DEF Fetch, Driven
  <2>2. /\ asked' = IF resp.data_ok THEN Nothing ELSE IF resp.addr_ok THEN Driven ELSE Nothing
        /\ mem' = mem
        /\ resp.data_ok => resp.addr_ok
    BY <1>1, <2>1 DEF BusCycle, BusPossible, InFlight
  <2>3. /\ state' = IF resp.addr_ok /\ resp.data_ok THEN "DECODE"
                    ELSE IF resp.addr_ok THEN "FETCH_ADDR_SENT" ELSE "FETCH"
        /\ IF resp.data_ok THEN instr' \in Fetched ELSE instr' = instr
    BY <1>3 DEF Fetch, MemWait, TakeInstr
  <2>4. instr' \in Instr
    BY <2>3, ProgramAssumption DEF IInv, RefTypeOK, Fetched
  <2>5. RefTypeOK'
    BY <1>3, <2>2, <2>3, <2>4, BusType DEF IInv, RefTypeOK, RefState, Fetch
  <2>6. NeverTrapped' /\ AskedOnce'
    BY <2>1, <2>2, <2>3 DEF NeverTrapped, AskedOnce, Nothing
  <2>7. FetchedByTheRules'
    BY <1>3, <2>2, <2>3 DEF FetchedByTheRules, Underway, Fetch, Fetched
  <2>8. Dispatched' /\ MemoryArgs' /\ RightException'
    BY <2>3 DEF Dispatched, MemoryArgs, RightException
  <2>9. SlotHasTarget'
    BY <1>3, <2>3 DEF IInv, SlotHasTarget, Fetch
  <2>10. QED BY <2>5, <2>6, <2>7, <2>8, <2>9 DEF IInv
<1>4. QED BY <1>2, <1>3

\* FETCH_ADDR_SENT keeps it: the answer is the instruction at PC.
LEMMA FetchAddrSentKeeps ==
  ASSUME IInv, NEW resp \in Response, BusCycle(resp), FetchAddrSent(resp)
  PROVE  IInv'
<1>1. asked.kind = "fetch"
  BY DEF IInv, AskedOnce, FetchAddrSent
<1>2. asked' = IF resp.data_ok THEN Nothing ELSE asked
  BY <1>1 DEF BusCycle, BusPossible, Nothing
<1>3. /\ state' = IF resp.data_ok THEN "DECODE" ELSE "FETCH_ADDR_SENT"
      /\ IF resp.data_ok THEN instr' \in Fetched ELSE instr' = instr
  BY DEF FetchAddrSent, TakeInstr
<1>4. instr' \in Instr
  BY <1>3, ProgramAssumption DEF IInv, RefTypeOK, Fetched
<1>5. RefTypeOK'
  BY <1>3, <1>4, BusType DEF IInv, RefTypeOK, RefState, FetchAddrSent
<1>6. NeverTrapped' /\ AskedOnce'
  BY <1>1, <1>2, <1>3 DEF NeverTrapped, AskedOnce, Nothing
<1>7. FetchedByTheRules'
  BY <1>3 DEF IInv, FetchedByTheRules, Underway, FetchAddrSent, Fetched
<1>8. Dispatched' /\ MemoryArgs' /\ RightException'
  BY <1>3 DEF Dispatched, MemoryArgs, RightException
<1>9. SlotHasTarget'
  BY <1>3 DEF IInv, SlotHasTarget, FetchAddrSent
<1>10. QED BY <1>5, <1>6, <1>7, <1>8, <1>9 DEF IInv

\* The actions within the CPU.
Silent == UNCHANGED <<asked, mem>>

\* What an instruction raises by itself.
LEMMA Raises ==
  ASSUME IInv, pc \notin Misaligned
  PROVE  /\ instr.op = "syscall"  => Raised(instr, rs, rt, pc) = "Sys"
         /\ instr.op = "reserved" => Raised(instr, rs, rt, pc) = "RI"
         /\ instr.op = "add" /\ Overflow(rs, rt) => Raised(instr, rs, rt, pc) = "Ov"
         /\ instr.op = "load" /\ rs \notin Aligned => Raised(instr, rs, rt, pc) = "AdEL"
         /\ instr.op = "store" /\ rs \notin Aligned => Raised(instr, rs, rt, pc) = "AdES"
BY DEF Raised, MemtoReg, MemWrite

\* DECODE keeps it.
LEMMA DecodeKeeps ==
  ASSUME IInv, Decode, Silent
  PROVE  IInv'
<1>1. asked = Nothing
  BY NothingAsked DEF Decode
<1>2. pc \notin Misaligned /\ instr \in Instructions
  BY DEF Decode, IInv, FetchedByTheRules, Underway
<1>3. CASE instr.op = "reserved" /\ Throw("RI")
  BY <1>1, <1>2, <1>3, Raises, ThrowKeeps DEF Decode, Silent, ExcCode
<1>4. CASE ~(instr.op = "reserved" /\ Throw("RI"))
  <2>1. /\ state' \in {"RTYPE", "BRANCH_EVAL", "ARITHMETIC", "ADDR_CHECK", "COP0_DECODE"}
        /\ UNCHANGED <<args, delayed>>
    BY <1>4 DEF Decode
  <2>2. RefTypeOK'
    BY <2>1 DEF Decode, Silent, IInv, RefTypeOK, RefState
  <2>3. NeverTrapped' /\ AskedOnce'
    BY <1>1, <2>1 DEF NeverTrapped, AskedOnce, Nothing, Silent
  <2>4. FetchedByTheRules'
    BY <2>1 DEF Decode, IInv, FetchedByTheRules, Underway
  <2>5. Dispatched'
    BY <1>4 DEF Decode, Dispatched
  <2>6. SlotHasTarget' /\ MemoryArgs' /\ RightException'
    BY <2>1 DEF Decode, IInv, SlotHasTarget, MemoryArgs, RightException
  <2>7. QED BY <2>2, <2>3, <2>4, <2>5, <2>6 DEF IInv
<1>5. QED BY <1>3, <1>4

\* A step to COMMIT only has to keep the types.
LEMMA CommitReached ==
  ASSUME IInv, state' = "COMMIT", UNCHANGED <<delayed, delayed_pc>>,
         asked' = Nothing, RefTypeOK'
  PROVE  IInv'
<1>1. NeverTrapped' /\ AskedOnce'
  BY DEF NeverTrapped, AskedOnce, Nothing
<1>2. FetchedByTheRules' /\ Dispatched' /\ MemoryArgs' /\ RightException'
  BY DEF FetchedByTheRules, Underway, Dispatched, MemoryArgs, RightException
<1>3. SlotHasTarget'
  BY DEF IInv, SlotHasTarget
<1>4. QED BY <1>1, <1>2, <1>3 DEF IInv

\* The result computed in ARITHMETIC and RTYPE keeps it.
LEMMA ComputeKeeps ==
  ASSUME IInv, state \in {"ARITHMETIC", "RTYPE"}, Compute, Silent,
         instr.op \in {"alu", "add"},
         UNCHANGED <<pc, delayed_pc, instr, hi, cp0>>
  PROVE  IInv'
<1>1. asked = Nothing
  BY NothingAsked
<1>2. pc \notin Misaligned /\ instr \in Instructions
  BY DEF IInv, FetchedByTheRules, Underway
<1>3. CASE instr.op = "add" /\ Overflow(rs, rt)
  BY <1>1, <1>2, <1>3, Raises, ThrowKeeps DEF Compute, Silent, ExcCode
<1>4. CASE ~(instr.op = "add" /\ Overflow(rs, rt))
  <2>1. regs' \in [Reg -> Val]
    BY <1>4, OperandType, WriteRegType DEF Compute, IInv, RefTypeOK
  <2>2. RefTypeOK'
    BY <1>4, <2>1 DEF Compute, Silent, IInv, RefTypeOK, RefState
  <2>3. QED BY <1>1, <1>4, <2>2, CommitReached DEF Compute, Silent
<1>5. QED BY <1>3, <1>4

\* A jump or a branch finds where to go.
LEMMA BranchReached ==
  ASSUME IInv, state' = "BRANCH", NEW p \in PC, args' = [NoArgs EXCEPT !.new_pc = p],
         ~delayed, UNCHANGED <<delayed, delayed_pc>>, asked' = Nothing, RefTypeOK'
  PROVE  IInv'
<1>1. NeverTrapped' /\ AskedOnce'
  BY DEF NeverTrapped, AskedOnce, Nothing
<1>2. FetchedByTheRules' /\ Dispatched' /\ MemoryArgs' /\ RightException'
  BY DEF FetchedByTheRules, Underway, Dispatched, MemoryArgs, RightException
<1>3. SlotHasTarget'
  BY DEF SlotHasTarget, NoArgs
<1>4. QED BY <1>1, <1>2, <1>3 DEF IInv

\* ARITHMETIC keeps it.
LEMMA ArithmeticKeeps ==
  ASSUME IInv, Arithmetic, Silent
  PROVE  IInv'
BY ComputeKeeps DEF Arithmetic, IInv, Dispatched

\* RTYPE keeps it, the writes to HI included.
LEMMA RTypeKeeps ==
  ASSUME IInv, RType, Silent
  PROVE  IInv'
<1>1. asked = Nothing
  BY NothingAsked DEF RType
<1>2. /\ pc \notin Misaligned /\ instr \in Instructions
      /\ delayed => ~BranchDelay(instr)
  BY DEF RType, IInv, FetchedByTheRules, Underway
<1>3. CASE instr.op \in {"alu", "add"}
  BY <1>3, ComputeKeeps DEF RType
<1>4. CASE instr.op \in {"mult", "mthi", "mfhi"}
  <2>1. /\ regs' = IF instr.op = "mfhi" THEN WriteReg(regs, instr.dst, hi) ELSE regs
        /\ state' = "COMMIT" /\ ran' = instr /\ UNCHANGED <<args, delayed>>
    BY <1>4 DEF RType
  <2>2. hi' \in Val
    BY <1>4, OperandType DEF RType, IInv, RefTypeOK
  <2>3. regs' \in [Reg -> Val]
    BY <2>1, OperandType, WriteRegType DEF IInv, RefTypeOK
  <2>4. RefTypeOK'
    BY <2>1, <2>2, <2>3 DEF RType, Silent, IInv, RefTypeOK, RefState
  <2>5. QED BY <1>1, <2>1, <2>4, CommitReached DEF RType, Silent
<1>5. CASE instr.op = "jr"
  <2>1. PCBranch(instr, rs) \in PC
    BY OperandType DEF IInv
  <2>2. /\ args' = [NoArgs EXCEPT !.new_pc = PCBranch(instr, rs)]
        /\ state' = "BRANCH" /\ ran' = instr /\ UNCHANGED <<delayed, regs, hi>>
    BY <1>5 DEF RType
  <2>3. RefTypeOK'
    BY <2>1, <2>2, NoArgsType DEF RType, Silent, IInv, RefTypeOK, RefState
  <2>4. QED BY <1>1, <1>2, <1>5, <2>1, <2>2, <2>3, BranchReached DEF RType, Silent, BranchDelay
<1>6. CASE instr.op = "syscall"
  BY <1>1, <1>2, <1>6, Raises, ThrowKeeps DEF RType, Silent, ExcCode
<1>7. CASE instr.op = "reserved"
  BY <1>1, <1>2, <1>7, Raises, ThrowKeeps DEF RType, Silent, ExcCode
<1>8. QED BY <1>3, <1>4, <1>5, <1>6, <1>7 DEF RType

\* BRANCH_EVAL keeps it: the target waits for the delay slot.
LEMMA BranchEvalKeeps ==
  ASSUME IInv, BranchEval, Silent
  PROVE  IInv'
<1>1. asked = Nothing
  BY NothingAsked DEF BranchEval
<1>2. /\ pc \notin Misaligned /\ instr \in Instructions
      /\ delayed => ~BranchDelay(instr)
      /\ instr.op \in {"branch", "jal", "reserved"}
  BY DEF BranchEval, IInv, FetchedByTheRules, Dispatched, Underway
<1>3. CASE instr.op = "reserved"
  BY <1>1, <1>2, <1>3, Raises, ThrowKeeps DEF BranchEval, Silent, ExcCode
<1>4. CASE instr.op # "reserved"
  <2> DEFINE p == IF PCSrc(instr, rs, rt) THEN PCBranch(instr, rs) ELSE Succ(Succ(pc))
  <2>1. p \in PC
    BY PCType, OperandType DEF IInv, RefTypeOK
  <2>2. /\ args' = [NoArgs EXCEPT !.new_pc = p]
        /\ regs' = IF instr.op = "jal" THEN WriteReg(regs, instr.dst, Link(pc)) ELSE regs
        /\ state' = "BRANCH" /\ ran' = instr /\ UNCHANGED delayed
    BY <1>4 DEF BranchEval
  <2> HIDE DEF p
  <2>3. regs' \in [Reg -> Val]
    BY <2>2, OperandType, WriteRegType DEF IInv, RefTypeOK
  <2>4. RefTypeOK'
    BY <2>1, <2>2, <2>3, NoArgsType DEF BranchEval, Silent, IInv, RefTypeOK, RefState
  <2>5. QED BY <1>1, <1>2, <1>4, <2>1, <2>2, <2>4, BranchReached
        DEF BranchEval, Silent, BranchDelay
<1>5. QED BY <1>3, <1>4

\* What FETCH begins with.
LEMMA FetchReached ==
  ASSUME IInv, state' = "FETCH", delayed' => delayed_pc' \in PC, asked' = Nothing, RefTypeOK'
  PROVE  IInv'
<1>1. NeverTrapped' /\ AskedOnce'
  BY DEF NeverTrapped, AskedOnce, Nothing
<1>2. FetchedByTheRules' /\ Dispatched' /\ MemoryArgs' /\ RightException' /\ SlotHasTarget'
  BY DEF FetchedByTheRules, Underway, Dispatched, MemoryArgs, RightException, SlotHasTarget
<1>3. QED BY <1>1, <1>2 DEF IInv

\* BRANCH keeps it.
LEMMA BranchKeeps ==
  ASSUME IInv, Branch, Silent
  PROVE  IInv'
<1>1. asked = Nothing
  BY NothingAsked DEF Branch
<1>2. state' = "FETCH" /\ delayed_pc' \in PC
  BY DEF Branch, IInv, SlotHasTarget
<1>3. RefTypeOK'
  BY <1>2, PCType DEF Branch, Silent, IInv, RefTypeOK, RefState
<1>4. QED BY <1>1, <1>2, <1>3, FetchReached DEF Silent

\* ADDR_CHECK keeps it, misaligned addresses included.
LEMMA AddrCheckKeeps ==
  ASSUME IInv, AddrCheck, Silent
  PROVE  IInv'
<1>1. asked = Nothing
  BY NothingAsked DEF AddrCheck
<1>2. /\ pc \notin Misaligned /\ instr \in Instructions
      /\ instr.op \in {"load", "store"}
  BY DEF AddrCheck, IInv, FetchedByTheRules, Dispatched, Underway
<1>3. CASE rs \notin Aligned
  BY <1>1, <1>2, <1>3, Raises, ThrowKeeps DEF AddrCheck, Silent, ExcCode
<1>4. CASE rs \in Aligned
  <2> DEFINE v == IF instr.op = "store" THEN rt ELSE 0
  <2>1. v \in Val /\ rs \in Val
    BY OperandType, InstrAssumption DEF IInv
  <2>2. /\ args' = [NoArgs EXCEPT !.addr = rs, !.data = v]
        /\ state' = IF instr.op = "load" THEN "LOAD" ELSE "STORE"
        /\ UNCHANGED <<delayed, delayed_pc, pc, instr, regs, cp0>>
    BY <1>4 DEF AddrCheck
  <2>3. args'.addr = rs /\ args'.data = v
    BY <2>2 DEF NoArgs
  <2>4. RefTypeOK'
    BY <2>1, <2>2, NoArgsType DEF AddrCheck, Silent, IInv, RefTypeOK, RefState
  <2>5. NeverTrapped' /\ AskedOnce'
    BY <1>1, <2>2 DEF NeverTrapped, AskedOnce, Nothing, Silent
  <2>6. FetchedByTheRules' /\ Dispatched'
    BY <1>2, <2>2 DEF AddrCheck, IInv, FetchedByTheRules, Dispatched, Underway
  <2>7. SlotHasTarget' /\ RightException'
    BY <2>2 DEF IInv, SlotHasTarget, RightException
  <2>8. rs' = rs /\ rt' = rt
    BY <2>2 DEF rs, rt
  <2>9. MemoryArgs'
    BY <1>2, <1>4, <2>2, <2>3, <2>8 DEF MemoryArgs
  <2>10. QED BY <2>4, <2>5, <2>6, <2>7, <2>9 DEF IInv
<1>5. QED BY <1>3, <1>4

\* What the five states of a memory access leave alone.
SameInstruction == UNCHANGED <<pc, delayed, delayed_pc, instr, regs, hi, cp0>>

\* A step from one of them to another that keeps the rest of the invariant.
LEMMA AccessKeeps ==
  ASSUME IInv, SameInstruction,
         state \in {"LOAD", "LOAD_ADDR_SENT", "STORE", "STORE_ADDR_SENT"},
         state' \in {"LOAD", "LOAD_ADDR_SENT", "LOADED", "STORE", "STORE_ADDR_SENT"},
         state' \in {"LOAD", "LOAD_ADDR_SENT", "LOADED"} <=> state \in {"LOAD", "LOAD_ADDR_SENT"},
         RefTypeOK', AskedOnce', MemoryArgs'
  PROVE  IInv'
<1>1. NeverTrapped' /\ FetchedByTheRules' /\ Dispatched'
  BY DEF SameInstruction, IInv, NeverTrapped, FetchedByTheRules, Dispatched, Underway
<1>2. SlotHasTarget' /\ RightException'
  BY DEF SameInstruction, IInv, SlotHasTarget, RightException
<1>3. QED BY <1>1, <1>2 DEF IInv

\* The data bus is read when data_ok is up, and carries the word asked for.
LEMMA TakeDataType ==
  ASSUME IInv, NEW resp \in Response, BusCycle(resp), TakeData(resp)
  PROVE  /\ args' \in Args
         /\ args'.addr = args.addr
         /\ resp.data_ok => args'.data = mem[InFlight.addr]
<1>1. resp.data_ok => mem[InFlight.addr] \in Val
  BY BusType DEF IInv, RefTypeOK, Request
<1>2. args \in Args
  BY DEF IInv, RefTypeOK
<1>3. QED BY <1>1, <1>2 DEF TakeData, Args

\* LOAD keeps it: the request is on the bus from here to its answer.
LEMMA LoadKeeps ==
  ASSUME IInv, NEW resp \in Response, BusCycle(resp), Load(resp)
  PROVE  IInv'
<1>1. asked = Nothing
  BY NothingAsked DEF Load
<1>2. Driven = [kind |-> "load", addr |-> args.addr, data |-> 0]
  BY DEF Load, Driven
<1>3. /\ asked' = IF resp.data_ok THEN Nothing ELSE IF resp.addr_ok THEN Driven ELSE Nothing
      /\ mem' = mem
      /\ resp.data_ok => resp.addr_ok
      /\ InFlight = Driven
  BY <1>1, <1>2 DEF BusCycle, BusPossible, InFlight
<1>4. /\ state' = IF resp.addr_ok /\ resp.data_ok THEN "LOADED"
                  ELSE IF resp.addr_ok THEN "LOAD_ADDR_SENT" ELSE "LOAD"
      /\ TakeData(resp) /\ SameInstruction /\ ran' = ran
  BY DEF Load, MemWait, SameInstruction
<1>5. args.addr = rs /\ rs \in Aligned
  BY DEF Load, IInv, MemoryArgs
<1>6. RefTypeOK'
  BY <1>3, <1>4, BusType, TakeDataType DEF SameInstruction, IInv, RefTypeOK, RefState
<1>7. AskedOnce'
  BY <1>2, <1>3, <1>4 DEF AskedOnce, Nothing
<1>8. rs' = rs
  BY <1>4 DEF rs, SameInstruction
<1>9. MemoryArgs'
  BY <1>2, <1>3, <1>4, <1>5, <1>8, TakeDataType DEF MemoryArgs
<1>10. QED BY <1>4, <1>6, <1>7, <1>9, AccessKeeps DEF Load

\* LOAD_ADDR_SENT keeps it.
LEMMA LoadAddrSentKeeps ==
  ASSUME IInv, NEW resp \in Response, BusCycle(resp), LoadAddrSent(resp)
  PROVE  IInv'
<1>1. asked.kind = "load" /\ asked # Nothing
  BY DEF IInv, AskedOnce, LoadAddrSent, Nothing
<1>2. /\ asked' = IF resp.data_ok THEN Nothing ELSE asked
      /\ mem' = mem
      /\ InFlight = asked
  BY <1>1 DEF BusCycle, BusPossible, InFlight
<1>3. /\ state' = IF resp.data_ok THEN "LOADED" ELSE "LOAD_ADDR_SENT"
      /\ TakeData(resp) /\ SameInstruction /\ ran' = ran
  BY DEF LoadAddrSent, SameInstruction
<1>4. asked.addr = rs /\ args.addr = rs /\ rs \in Aligned
  BY DEF LoadAddrSent, IInv, MemoryArgs
<1>5. RefTypeOK'
  BY <1>2, <1>3, BusType, TakeDataType DEF SameInstruction, IInv, RefTypeOK, RefState
<1>6. AskedOnce'
  BY <1>1, <1>2, <1>3 DEF AskedOnce, Nothing
<1>7. rs' = rs
  BY <1>3 DEF rs, SameInstruction
<1>8. MemoryArgs'
  BY <1>2, <1>3, <1>4, <1>7, TakeDataType DEF MemoryArgs
<1>9. QED BY <1>3, <1>5, <1>6, <1>8, AccessKeeps DEF LoadAddrSent

\* LOADED keeps it.
LEMMA LoadedKeeps ==
  ASSUME IInv, Loaded, Silent
  PROVE  IInv'
<1>1. asked = Nothing
  BY NothingAsked DEF Loaded
<1>2. regs' \in [Reg -> Val]
  BY OperandType, WriteRegType DEF Loaded, IInv, RefTypeOK, Args
<1>3. RefTypeOK'
  BY <1>2 DEF Loaded, Silent, IInv, RefTypeOK, RefState
<1>4. QED BY <1>1, <1>3, CommitReached DEF Loaded, Silent

\* STORE keeps it: the request is on the bus from here to its answer.
LEMMA StoreKeeps ==
  ASSUME IInv, NEW resp \in Response, BusCycle(resp), Store(resp)
  PROVE  IInv'
<1>1. asked = Nothing
  BY NothingAsked DEF Store
<1>2. Driven = [kind |-> "store", addr |-> args.addr, data |-> args.data]
  BY DEF Store, Driven
<1>3. /\ asked' = IF resp.data_ok THEN Nothing ELSE IF resp.addr_ok THEN Driven ELSE Nothing
      /\ resp.data_ok => resp.addr_ok
  BY <1>1, <1>2 DEF BusCycle, BusPossible
<1>4. /\ state' = IF resp.addr_ok /\ resp.data_ok THEN "COMMIT"
                  ELSE IF resp.addr_ok THEN "STORE_ADDR_SENT" ELSE "STORE"
      /\ UNCHANGED args /\ SameInstruction
      /\ ran' \in {ran, instr}
  BY DEF Store, StoreStep, MemWait, SameInstruction
<1>5. args.addr = rs /\ args.data = rt /\ rs \in Aligned
  BY DEF Store, IInv, MemoryArgs
<1>6. RefTypeOK'
  BY <1>4, BusType DEF SameInstruction, IInv, RefTypeOK, RefState
<1>7. CASE resp.addr_ok /\ resp.data_ok
  BY <1>3, <1>4, <1>6, <1>7, CommitReached DEF SameInstruction
<1>8. CASE ~(resp.addr_ok /\ resp.data_ok)
  <2>1. AskedOnce'
    BY <1>2, <1>3, <1>4, <1>8 DEF AskedOnce, Nothing
  <2>2. rs' = rs /\ rt' = rt
    BY <1>4 DEF rs, rt, SameInstruction
  <2>3. MemoryArgs'
    BY <1>2, <1>3, <1>4, <1>5, <1>8, <2>2 DEF MemoryArgs
  <2>4. QED BY <1>4, <1>6, <1>8, <2>1, <2>3, AccessKeeps DEF Store
<1>9. QED BY <1>7, <1>8

\* STORE_ADDR_SENT keeps it.
LEMMA StoreAddrSentKeeps ==
  ASSUME IInv, NEW resp \in Response, BusCycle(resp), StoreAddrSent(resp)
  PROVE  IInv'
<1>1. asked.kind = "store" /\ asked # Nothing
  BY DEF IInv, AskedOnce, StoreAddrSent, Nothing
<1>2. asked' = IF resp.data_ok THEN Nothing ELSE asked
  BY <1>1 DEF BusCycle, BusPossible
<1>3. /\ state' = IF resp.data_ok THEN "COMMIT" ELSE "STORE_ADDR_SENT"
      /\ UNCHANGED args /\ SameInstruction
      /\ ran' \in {ran, instr}
  BY DEF StoreAddrSent, StoreStep, SameInstruction
<1>4. RefTypeOK'
  BY <1>3, BusType DEF SameInstruction, IInv, RefTypeOK, RefState
<1>5. CASE resp.data_ok
  BY <1>2, <1>3, <1>4, <1>5, CommitReached DEF SameInstruction
<1>6. CASE ~resp.data_ok
  <2>1. AskedOnce'
    BY <1>1, <1>2, <1>3, <1>6 DEF AskedOnce
  <2>2. rs' = rs /\ rt' = rt
    BY <1>3 DEF rs, rt, SameInstruction
  <2>3. MemoryArgs'
    BY <1>2, <1>3, <1>6, <2>2 DEF StoreAddrSent, IInv, MemoryArgs
  <2>4. QED BY <1>3, <1>4, <1>6, <2>1, <2>3, AccessKeeps DEF StoreAddrSent
<1>7. QED BY <1>5, <1>6

\* COP0_DECODE keeps it.
LEMMA COP0DecodeKeeps ==
  ASSUME IInv, COP0Decode, Silent
  PROVE  IInv'
<1>1. asked = Nothing
  BY NothingAsked DEF COP0Decode
<1>2. pc \notin Misaligned /\ instr \in Instructions
  BY DEF COP0Decode, IInv, FetchedByTheRules, Underway
<1>3. CASE instr.op = "reserved" /\ Throw("RI")
  BY <1>1, <1>2, <1>3, Raises, ThrowKeeps DEF COP0Decode, Silent, ExcCode
<1>4. CASE ~(instr.op = "reserved" /\ Throw("RI"))
  <2>1. /\ state' = IF instr.op = "eret" THEN "EXCEPTION_RETURN" ELSE "COP0_ACCESS"
        /\ UNCHANGED <<args, delayed>>
    BY <1>4 DEF COP0Decode
  <2>2. RefTypeOK'
    BY <2>1 DEF COP0Decode, Silent, IInv, RefTypeOK, RefState
  <2>3. NeverTrapped' /\ AskedOnce'
    BY <1>1, <2>1 DEF NeverTrapped, AskedOnce, Nothing, Silent
  <2>4. FetchedByTheRules' /\ Dispatched'
    BY <2>1 DEF COP0Decode, IInv, FetchedByTheRules, Dispatched, Underway
  <2>5. SlotHasTarget' /\ MemoryArgs' /\ RightException'
    BY <2>1 DEF COP0Decode, IInv, SlotHasTarget, MemoryArgs, RightException
  <2>6. QED BY <2>2, <2>3, <2>4, <2>5 DEF IInv
<1>5. QED BY <1>3, <1>4

\* MFC0 and MTC0 keep it.
LEMMA COP0AccessKeeps ==
  ASSUME IInv, COP0Access, Silent
  PROVE  IInv'
<1>1. asked = Nothing
  BY NothingAsked DEF COP0Access
<1>2. pc \notin Misaligned /\ instr \in Instructions
  BY DEF COP0Access, IInv, FetchedByTheRules, Underway
<1>3. CASE instr.op = "reserved"
  BY <1>1, <1>2, <1>3, Raises, ThrowKeeps DEF COP0Access, Silent, ExcCode
<1>4. CASE instr.op # "reserved"
  <2>1. cp0.compare \in Val
    BY DEF IInv, RefTypeOK, RefCp0
  <2>2. regs' \in [Reg -> Val]
    BY <1>4, <2>1, OperandType, WriteRegType DEF COP0Access, IInv, RefTypeOK
  <2>3. cp0' \in RefCp0
    BY <1>4, OperandType DEF COP0Access, IInv, RefTypeOK, RefCp0
  <2>4. RefTypeOK'
    BY <1>4, <2>2, <2>3 DEF COP0Access, Silent, IInv, RefTypeOK, RefState
  <2>5. QED BY <1>1, <1>4, <2>4, CommitReached DEF COP0Access, Silent
<1>5. QED BY <1>3, <1>4

\* EXCEPTION keeps it: EPC is the faulting PC or that of its branch.
LEMMA ExceptionKeeps ==
  ASSUME IInv, Exception, Silent
  PROVE  IInv'
<1>1. asked = Nothing
  BY NothingAsked DEF Exception
<1>2. state' = "FETCH"
  BY DEF Exception, IInv, RightException
<1>3. cp0' \in RefCp0
  <2>1. args.code \in ExcCode /\ args.delayed \in BOOLEAN /\ Pred(pc) \in PC
    BY PCType DEF IInv, RefTypeOK, Args
  <2>2. QED BY <2>1 DEF Exception, IInv, RefTypeOK, RefCp0
<1>4. ran' \in Instr \cup {Interrupt}
  BY NopType DEF Exception, IInv, RefTypeOK
<1>5. RefTypeOK'
  BY <1>2, <1>3, <1>4, ProgramAssumption DEF Exception, Silent, IInv, RefTypeOK, RefState
<1>6. delayed' => delayed_pc' \in PC
  BY DEF Exception, IInv, SlotHasTarget
<1>7. QED BY <1>1, <1>2, <1>5, <1>6, FetchReached DEF Silent

\* ERET keeps it.
LEMMA ExceptionReturnKeeps ==
  ASSUME IInv, ExceptionReturn, Silent
  PROVE  IInv'
<1>1. asked = Nothing
  BY NothingAsked DEF ExceptionReturn
<1>2. ~delayed /\ cp0.epc # 0
  BY DEF ExceptionReturn, IInv, FetchedByTheRules, Dispatched, Underway
<1>3. cp0' \in RefCp0 /\ cp0.epc \in PC
  BY <1>2 DEF ExceptionReturn, IInv, RefTypeOK, RefCp0
<1>4. RefTypeOK'
  BY <1>2, <1>3 DEF ExceptionReturn, Silent, IInv, RefTypeOK, RefState
<1>5. QED BY <1>1, <1>2, <1>4, FetchReached DEF ExceptionReturn, Silent

\* COMMIT keeps it, whether an interrupt is taken there or not.
LEMMA CommitKeeps ==
  ASSUME IInv, NEW irq \in BOOLEAN, Commit(irq), Silent
  PROVE  IInv'
<1>1. asked = Nothing
  BY NothingAsked DEF Commit
<1>2. pc' \in PC
  BY PCType DEF Commit, IInv, RefTypeOK, SlotHasTarget
<1>3. RefTypeOK'
  BY <1>2, NoArgsType DEF Commit, Silent, IInv, RefTypeOK, RefState
<1>4. CASE ~irq
  BY <1>1, <1>3, <1>4, FetchReached DEF Commit, Silent
<1>5. CASE irq
  <2>1. /\ state' = "EXCEPTION" /\ ~delayed' /\ args' = NoArgs
        /\ Interrupts /\ ~cp0.exl /\ cp0' = cp0
    BY <1>5 DEF Commit
  <2>2. NeverTrapped' /\ AskedOnce'
    BY <1>1, <2>1 DEF NeverTrapped, AskedOnce, Nothing, Silent
  <2>3. FetchedByTheRules' /\ Dispatched' /\ MemoryArgs'
    BY <2>1 DEF FetchedByTheRules, Underway, Dispatched, MemoryArgs
  <2>4. SlotHasTarget' /\ RightException'
    BY <2>1 DEF SlotHasTarget, RightException, NoArgs
  <2>5. QED BY <1>3, <2>2, <2>3, <2>4 DEF IInv
<1>6. QED BY <1>4, <1>5

\* Every state of the machine keeps the invariant.
LEMMA NextInv == IInv /\ [RefNext]_refVars => IInv'
<1> SUFFICES ASSUME IInv, [RefNext]_refVars PROVE IInv'
  OBVIOUS
<1>1. CASE Inner
  <2>1. Silent
    BY <1>1 DEF Inner, Silent
  <2>2. QED
    BY <1>1, <2>1, DecodeKeeps, RTypeKeeps, BranchEvalKeeps, BranchKeeps, AddrCheckKeeps,
       LoadedKeeps, COP0DecodeKeeps, COP0AccessKeeps, ExceptionKeeps, ExceptionReturnKeeps,
       CommitKeeps, ArithmeticKeeps
       DEF Inner
<1>2. CASE \E resp \in Response : Asking(resp)
  BY <1>2, FetchKeeps, FetchAddrSentKeeps, LoadKeeps, LoadAddrSentKeeps, StoreKeeps,
     StoreAddrSentKeeps DEF Asking
<1>3. CASE UNCHANGED refVars
  BY <1>3 DEF refVars, IInv, RefTypeOK, NeverTrapped, AskedOnce, FetchedByTheRules, Dispatched,
     SlotHasTarget, MemoryArgs, RightException, rs, rt
<1>4. QED BY <1>1, <1>2, <1>3 DEF RefNext

\* The invariant holds throughout.
LEMMA Invariance == RefSpec => []IInv
BY InitInv, NextInv, PTL DEF RefSpec

\* Every variable of the reference CPU keeps its type: in particular no exception, return
\* or delay slot sends it to a program counter that is none.
THEOREM RefTypeCorrect == RefSpec => []RefTypeOK
<1>1. IInv => RefTypeOK
  BY DEF IInv
<1>2. QED BY <1>1, Invariance, PTL

\* S_UNKNOWN is never reached, whatever program that keeps the rules of Fetched runs and
\* whenever the interrupt lines are raised.
THEOREM NeverInUnknown == RefSpec => []NeverTrapped
<1>1. IInv => NeverTrapped
  BY DEF IInv
<1>2. QED BY <1>1, Invariance, PTL

\* The ADDR_SENT states and the request the buses have accepted stay together, for every
\* spreading of addr_ok and data_ok.
THEOREM RequestsAskedOnce == RefSpec => []AskedOnce
<1>1. IInv => AskedOnce
  BY DEF IInv
<1>2. QED BY <1>1, Invariance, PTL

-------------------------------------------------------------------------------
(***************************************************************************)
(* Refinement of Mips.  Where the architecture is, by state.               *)
(***************************************************************************)
Position ==
  /\ state \notin {"COMMIT", "BRANCH", "EXCEPTION"} =>
       /\ ArchPC = pc /\ ArchSlot = delayed
       /\ ArchNextPC = IF delayed THEN delayed_pc ELSE Succ(pc)
  /\ state = "COMMIT" =>
       /\ ArchPC = IF delayed THEN delayed_pc ELSE Succ(pc)
       /\ ArchSlot = FALSE /\ ArchNextPC = Succ(ArchPC)
  /\ state = "BRANCH" =>
       ArchPC = Succ(pc) /\ ArchSlot = TRUE /\ ArchNextPC = args.new_pc
  /\ state = "EXCEPTION" =>
       /\ ArchPC = pc /\ ArchSlot = args.delayed
       /\ ArchNextPC = IF args.delayed THEN delayed_pc ELSE Succ(pc)

\* Where the machine is, before a step and after it.
LEMMA Positions == Position /\ Position'
<1>1. Position
  <2>1. ASSUME state \notin {"COMMIT", "BRANCH", "EXCEPTION"}
        PROVE  /\ ArchPC = pc /\ ArchSlot = delayed
               /\ ArchNextPC = IF delayed THEN delayed_pc ELSE Succ(pc)
    BY <2>1 DEF ArchPC, ArchSlot, ArchNextPC
  <2>2. ASSUME state = "COMMIT"
        PROVE  /\ ArchPC = IF delayed THEN delayed_pc ELSE Succ(pc)
               /\ ArchSlot = FALSE /\ ArchNextPC = Succ(ArchPC)
    BY <2>2 DEF ArchPC, ArchSlot, ArchNextPC
  <2>3. ASSUME state = "BRANCH"
        PROVE  ArchPC = Succ(pc) /\ ArchSlot = TRUE /\ ArchNextPC = args.new_pc
    BY <2>3 DEF ArchPC, ArchSlot, ArchNextPC
  <2>4. ASSUME state = "EXCEPTION"
        PROVE  /\ ArchPC = pc /\ ArchSlot = args.delayed
               /\ ArchNextPC = IF args.delayed THEN delayed_pc ELSE Succ(pc)
    BY <2>4 DEF ArchPC, ArchSlot, ArchNextPC
  <2>5. QED BY <2>1, <2>2, <2>3, <2>4 DEF Position
<1>2. Position'
  <2>1. ASSUME state' \notin {"COMMIT", "BRANCH", "EXCEPTION"}
        PROVE  /\ ArchPC' = pc' /\ ArchSlot' = delayed'
               /\ ArchNextPC' = IF delayed' THEN delayed_pc' ELSE Succ(pc')
    BY <2>1 DEF ArchPC, ArchSlot, ArchNextPC
  <2>2. ASSUME state' = "COMMIT"
        PROVE  /\ ArchPC' = IF delayed' THEN delayed_pc' ELSE Succ(pc')
               /\ ArchSlot' = FALSE /\ ArchNextPC' = Succ(ArchPC')
    BY <2>2 DEF ArchPC, ArchSlot, ArchNextPC
  <2>3. ASSUME state' = "BRANCH"
        PROVE  ArchPC' = Succ(pc') /\ ArchSlot' = TRUE /\ ArchNextPC' = args'.new_pc
    BY <2>3 DEF ArchPC, ArchSlot, ArchNextPC
  <2>4. ASSUME state' = "EXCEPTION"
        PROVE  /\ ArchPC' = pc' /\ ArchSlot' = args'.delayed
               /\ ArchNextPC' = IF args'.delayed THEN delayed_pc' ELSE Succ(pc')
    BY <2>4 DEF ArchPC, ArchSlot, ArchNextPC
  <2>5. QED BY <2>1, <2>2, <2>3, <2>4 DEF Position
<1>3. QED BY <1>1, <1>2

\* The architecture's helpers are those of the CPU.
LEMMA SameHelpers ==
  /\ \A p : Arch!Succ(p) = Succ(p) /\ Arch!Pred(p) = Pred(p)
  /\ \A i, a, b, p : Arch!Raised(i, a, b, p) = Raised(i, a, b, p)
  /\ \A i, a, b : Arch!PCSrc(i, a, b) = PCSrc(i, a, b) /\ Arch!PCBranch(i, a) = PCBranch(i, a)
  /\ \A i : /\ Arch!BranchDelay(i) = BranchDelay(i)
            /\ Arch!MemtoReg(i) = MemtoReg(i) /\ Arch!MemWrite(i) = MemWrite(i)
  /\ \A f, r, v : Arch!WriteReg(f, r, v) = WriteReg(f, r, v)
  /\ Arch!Nop = Nop /\ Arch!Interrupt = Interrupt
<1>1. Arch!Nop = Nop /\ Arch!Interrupt = Interrupt
  BY DEF Arch!Nop, Nop, Arch!Interrupt, Interrupt
<1>2. \A i : /\ Arch!BranchDelay(i) = BranchDelay(i)
            /\ Arch!MemtoReg(i) = MemtoReg(i) /\ Arch!MemWrite(i) = MemWrite(i)
  BY DEF Arch!BranchDelay, BranchDelay, Arch!MemtoReg, MemtoReg, Arch!MemWrite, MemWrite
<1>3. /\ \A i, a, b, p : Arch!Raised(i, a, b, p) = Raised(i, a, b, p)
      /\ \A i, a, b : /\ Arch!PCSrc(i, a, b) = PCSrc(i, a, b)
                      /\ Arch!PCBranch(i, a) = PCBranch(i, a)
  BY <1>2 DEF Arch!Raised, Raised, Arch!PCSrc, PCSrc, Arch!PCBranch, PCBranch
<1>4. /\ \A p : Arch!Succ(p) = Succ(p) /\ Arch!Pred(p) = Pred(p)
      /\ \A f, r, v : Arch!WriteReg(f, r, v) = WriteReg(f, r, v)
  BY DEF Arch!Succ, Succ, Arch!Pred, Pred, Arch!WriteReg, WriteReg
<1>5. QED BY <1>1, <1>2, <1>3, <1>4

\* The part of the context that is the architecture's as it is.
Context == <<regs, hi, mem, cp0, ran>>

\* A step that moves neither the PCs nor the registers is invisible.
LEMMA Stays ==
  ASSUME UNCHANGED <<ArchPC, ArchNextPC, ArchSlot>>, UNCHANGED Context
  PROVE  UNCHANGED Arch!mipsVars
BY DEF Context, Arch!mipsVars

\* A step within an instruction, or one to the next, is no step of the architecture.
LEMMA QuietSteps ==
  ASSUME UNCHANGED Context, UNCHANGED <<pc, delayed, delayed_pc>>,
         state \notin {"COMMIT", "BRANCH", "EXCEPTION"},
         state' \notin {"COMMIT", "BRANCH", "EXCEPTION"}
  PROVE  UNCHANGED Arch!mipsVars
BY Positions, Stays DEF Position

\* Finding an exception is invisible: it is taken in EXCEPTION.
LEMMA ThrowIsQuiet ==
  ASSUME UNCHANGED Context, UNCHANGED <<pc, delayed_pc>>, NEW code, Throw(code),
         state \notin {"COMMIT", "BRANCH", "EXCEPTION"}
  PROVE  UNCHANGED Arch!mipsVars
<1>1. state' = "EXCEPTION" /\ args'.delayed = delayed
  BY DEF Throw, NoArgs
<1>2. QED BY <1>1, Positions, Stays DEF Position

\* What an instruction other than a branch makes of the context.
Results ==
  /\ regs' = CASE instr.op = "load" -> WriteReg(regs, instr.dst, mem[rs])
               [] instr.op = "mfhi" -> WriteReg(regs, instr.dst, hi)
               [] instr.op = "mfc0" -> WriteReg(regs, instr.dst, cp0.compare)
               [] instr.op = "jal"  -> WriteReg(regs, instr.dst, Link(pc))
               [] instr.op \in {"alu", "add"} -> WriteReg(regs, instr.dst, Alu(rs, rt))
               [] OTHER             -> regs
  /\ hi' = CASE instr.op = "mult" -> HiOf(rs, rt) [] instr.op = "mthi" -> rs [] OTHER -> hi
  /\ mem' = IF instr.op = "store" THEN [mem EXCEPT ![rs] = rt] ELSE mem
  /\ cp0'.compare = IF instr.op = "mtc0" THEN rt ELSE cp0.compare
  /\ UNCHANGED <<cp0.exl, cp0.epc, cp0.bd, cp0.cause>>

\* Such an instruction is one step of the architecture, taken when COMMIT is reached.
LEMMA Completes ==
  ASSUME IInv, state \in Underway, state' = "COMMIT", Results, ran' = instr,
         UNCHANGED <<pc, delayed, delayed_pc>>,
         instr.op \notin {"branch", "jal", "jr", "eret", "syscall", "reserved"},
         instr.op = "add" => ~Overflow(rs, rt),
         instr.op \in {"load", "store"} => rs \in Aligned
  PROVE  Arch!MipsNext
<1>1. /\ pc \notin Misaligned /\ instr \in Instructions
      /\ state \notin {"COMMIT", "BRANCH", "EXCEPTION"}
  BY DEF IInv, FetchedByTheRules, Underway
<1>2. Raised(instr, rs, rt, pc) = "none"
  BY <1>1 DEF Raised, MemtoReg, MemWrite
<1>3. /\ ArchPC = pc /\ ArchSlot = delayed
      /\ ArchPC' = ArchNextPC /\ ArchNextPC' = Succ(ArchNextPC) /\ ArchSlot' = FALSE
  BY <1>1, Positions DEF Position
<1>4. PCSrc(instr, rs, rt) = FALSE /\ BranchDelay(instr) = FALSE
  BY DEF PCSrc, BranchDelay
<1>5. Arch!Complete(instr, rs, rt)
  BY <1>3, <1>4, SameHelpers DEF Arch!Complete, Results, MemtoReg, MemWrite
<1>6. Arch!Allowed(instr)
  BY <1>3, <1>4, SameHelpers DEF Arch!Allowed
<1>7. Arch!Execute(instr)
  BY <1>2, <1>3, <1>5, <1>6, SameHelpers DEF Arch!Execute, rs, rt
<1>8. QED BY <1>1, <1>7 DEF Arch!MipsNext

\* [Arch!MipsNext]_(Arch!mipsVars), which is what every action is shown to be.
ArchStep == Arch!MipsNext \/ UNCHANGED Arch!mipsVars

\* ARITHMETIC and RTYPE execute their instruction, or find an overflow.
LEMMA ComputeRefines ==
  ASSUME IInv, state \in {"ARITHMETIC", "RTYPE"}, Compute, Silent,
         instr.op \in {"alu", "add"},
         UNCHANGED <<pc, delayed_pc, instr, hi, cp0>>
  PROVE  ArchStep
<1>1. CASE instr.op = "add" /\ Overflow(rs, rt)
  BY <1>1, ThrowIsQuiet DEF Compute, Silent, Context, ArchStep
<1>2. CASE ~(instr.op = "add" /\ Overflow(rs, rt))
  <2>1. /\ state' = "COMMIT" /\ ran' = instr /\ UNCHANGED delayed
        /\ regs' = WriteReg(regs, instr.dst, Alu(rs, rt))
    BY <1>2 DEF Compute
  <2>2. Results
    BY <2>1 DEF Results, Silent
  <2>3. QED BY <1>2, <2>1, <2>2, Completes DEF Underway, ArchStep
<1>3. QED BY <1>1, <1>2

\* A branch or a jump is one step of the architecture, taken when BRANCH is reached.
LEMMA Branches ==
  ASSUME IInv, state \in {"RTYPE", "BRANCH_EVAL"}, state' = "BRANCH", BranchDelay(instr),
         args'.new_pc = IF PCSrc(instr, rs, rt) THEN PCBranch(instr, rs) ELSE Succ(Succ(pc)),
         regs' = IF instr.op = "jal" THEN WriteReg(regs, instr.dst, Link(pc)) ELSE regs,
         ran' = instr, Silent, UNCHANGED <<pc, delayed, delayed_pc, instr, hi, cp0>>
  PROVE  Arch!MipsNext
<1>1. /\ pc \notin Misaligned /\ instr \in Instructions /\ ~delayed
      /\ instr.op \in {"branch", "jal", "jr"}
  BY DEF IInv, FetchedByTheRules, Underway, BranchDelay
<1>2. Raised(instr, rs, rt, pc) = "none" /\ BranchDelay(instr) = TRUE
  BY <1>1 DEF Raised, MemtoReg, MemWrite, BranchDelay
<1>3. /\ ArchPC = pc /\ ~ArchSlot /\ ArchNextPC = Succ(pc)
      /\ ArchPC' = Succ(pc) /\ ArchSlot' = TRUE /\ ArchNextPC' = args'.new_pc
  BY <1>1, Positions DEF Position
<1>4. Arch!Complete(instr, rs, rt)
  BY <1>1, <1>2, <1>3, SameHelpers DEF Arch!Complete, MemtoReg, MemWrite, Silent
<1>5. Arch!Allowed(instr)
  BY <1>1, <1>3 DEF Arch!Allowed
<1>6. Arch!Execute(instr)
  BY <1>1, <1>2, <1>3, <1>4, <1>5, SameHelpers DEF Arch!Execute, rs, rt
<1>7. QED BY <1>1, <1>6 DEF Arch!MipsNext

\* RTYPE executes the others of its instructions, which use HI or jump.
LEMMA RTypeRefines ==
  ASSUME IInv, RType, Silent
  PROVE  ArchStep
<1>1. CASE instr.op \in {"alu", "add"}
  BY <1>1, ComputeRefines DEF RType
<1>2. CASE instr.op \in {"mult", "mthi", "mfhi"}
  <2>1. /\ regs' = IF instr.op = "mfhi" THEN WriteReg(regs, instr.dst, hi) ELSE regs
        /\ hi' = CASE instr.op = "mult" -> HiOf(rs, rt) [] instr.op = "mthi" -> rs [] OTHER -> hi
        /\ state' = "COMMIT" /\ ran' = instr
        /\ UNCHANGED <<pc, delayed, delayed_pc, instr, cp0>>
    BY <1>2 DEF RType
  <2>2. Results
    BY <1>2, <2>1 DEF Results, Silent
  <2>3. QED BY <1>2, <2>1, <2>2, Completes DEF RType, Underway, ArchStep
<1>3. CASE instr.op = "jr"
  <2>1. args'.new_pc = PCBranch(instr, rs) /\ PCSrc(instr, rs, rt)
    BY <1>3 DEF RType, NoArgs, PCSrc
  <2>2. QED BY <1>3, <2>1, Branches DEF RType, BranchDelay, ArchStep
<1>4. CASE instr.op \in {"syscall", "reserved"}
  BY <1>4, ThrowIsQuiet DEF RType, Silent, Context, ArchStep
<1>5. QED BY <1>1, <1>2, <1>3, <1>4 DEF RType

\* BRANCH_EVAL executes the branch, or finds that the instruction is reserved.
LEMMA BranchEvalRefines ==
  ASSUME IInv, BranchEval, Silent
  PROVE  ArchStep
<1>1. CASE instr.op = "reserved"
  BY <1>1, ThrowIsQuiet DEF BranchEval, Silent, Context, ArchStep
<1>2. CASE instr.op # "reserved"
  <2>1. BranchDelay(instr)
    BY <1>2 DEF BranchEval, IInv, Dispatched, BranchDelay
  <2>2. args'.new_pc = IF PCSrc(instr, rs, rt) THEN PCBranch(instr, rs) ELSE Succ(Succ(pc))
    BY <1>2 DEF BranchEval, NoArgs
  <2>3. QED BY <1>2, <2>1, <2>2, Branches DEF BranchEval, ArchStep
<1>3. QED BY <1>1, <1>2

\* BRANCH is invisible: the branch is executed already.
LEMMA BranchRefines ==
  ASSUME IInv, Branch, Silent
  PROVE  ArchStep
<1>1. state' = "FETCH"
  BY DEF Branch, IInv, SlotHasTarget
<1>2. UNCHANGED <<ArchPC, ArchNextPC, ArchSlot>>
  BY <1>1, Positions DEF Branch, Position
<1>3. QED BY <1>2, Stays DEF Branch, Silent, Context, ArchStep

\* LOADED executes the load.
LEMMA LoadedRefines ==
  ASSUME IInv, Loaded, Silent
  PROVE  ArchStep
<1>1. /\ instr.op = "load" /\ rs \in Aligned /\ args.data = mem[rs]
  BY DEF Loaded, IInv, Dispatched, MemoryArgs
<1>2. Results
  BY <1>1 DEF Loaded, Results, Silent
<1>3. QED BY <1>1, <1>2, Completes DEF Loaded, Underway, ArchStep

\* A store is done when its answer comes; the reading states leave the context alone.
LEMMA StoreRefines ==
  ASSUME IInv, NEW resp \in Response, BusCycle(resp), Store(resp) \/ StoreAddrSent(resp)
  PROVE  ArchStep
<1>1. /\ state \in {"STORE", "STORE_ADDR_SENT"}
      /\ instr.op = "store" /\ rs \in Aligned /\ args.addr = rs /\ args.data = rt
  BY DEF Store, StoreAddrSent, IInv, Dispatched, MemoryArgs
<1>2. /\ state = "STORE" => asked = Nothing
      /\ state = "STORE_ADDR_SENT" => asked # Nothing /\ asked.kind = "store"
                                     /\ asked.addr = rs /\ asked.data = rt
  BY NothingAsked DEF IInv, AskedOnce, MemoryArgs, Nothing
<1>3. /\ InFlight.kind = "store" /\ InFlight.addr = rs /\ InFlight.data = rt
  BY <1>1, <1>2 DEF InFlight, Driven
<1>4. mem' = IF resp.data_ok THEN [mem EXCEPT ![rs] = rt] ELSE mem
  BY <1>3 DEF BusCycle
<1>5. /\ state' = IF resp.data_ok THEN "COMMIT" ELSE state'
      /\ ~resp.data_ok => state' \in {"STORE", "STORE_ADDR_SENT"}
      /\ ran' = IF resp.data_ok THEN instr ELSE ran
      /\ UNCHANGED <<pc, delayed, delayed_pc, instr, regs, hi, cp0>>
  <2>1. state = "STORE" => (resp.data_ok => resp.addr_ok)
    BY <1>2 DEF BusCycle, BusPossible
  <2>2. CASE Store(resp)
    BY <2>1, <2>2 DEF Store, StoreStep, MemWait
  <2>3. CASE StoreAddrSent(resp)
    BY <2>3 DEF StoreAddrSent, StoreStep
  <2>4. QED BY <2>2, <2>3
<1>6. CASE resp.data_ok
  <2>1. Results
    BY <1>1, <1>4, <1>5, <1>6 DEF Results
  <2>2. QED BY <1>1, <1>5, <1>6, <2>1, Completes DEF Underway, ArchStep
<1>7. CASE ~resp.data_ok
  BY <1>1, <1>4, <1>5, <1>7, QuietSteps DEF Context, ArchStep
<1>8. QED BY <1>6, <1>7

\* The states that ask a bus: a store is executed with its answer, the rest is invisible.
LEMMA AskingRefines ==
  ASSUME IInv, NEW resp \in Response, Asking(resp)
  PROVE  ArchStep
<1>1. CASE Fetch(resp) /\ pc \in Misaligned
  <2>1. asked = Nothing
    BY <1>1, NothingAsked DEF Fetch
  <2>2. mem' = mem
    BY <1>1, <2>1 DEF Asking, BusCycle, InFlight, Driven, Nothing, Fetch
  <2>3. QED BY <1>1, <2>2, ThrowIsQuiet DEF Fetch, Context, ArchStep
<1>2. CASE (Fetch(resp) /\ pc \notin Misaligned) \/ FetchAddrSent(resp)
           \/ Load(resp) \/ LoadAddrSent(resp)
  <2>1. /\ state \in {"FETCH", "FETCH_ADDR_SENT", "LOAD", "LOAD_ADDR_SENT"}
        /\ state' \in {"FETCH", "FETCH_ADDR_SENT", "DECODE", "LOAD", "LOAD_ADDR_SENT", "LOADED"}
        /\ UNCHANGED <<pc, delayed, delayed_pc, regs, hi, cp0, ran>>
    BY <1>2 DEF Fetch, FetchAddrSent, Load, LoadAddrSent, MemWait
  <2>2. InFlight.kind # "store"
    BY <2>1 DEF InFlight, Driven, Nothing, IInv, AskedOnce
  <2>3. mem' = mem
    BY <2>2 DEF Asking, BusCycle
  <2>4. QED BY <2>1, <2>3, QuietSteps DEF Context, ArchStep
<1>3. CASE Store(resp) \/ StoreAddrSent(resp)
  BY <1>3, StoreRefines DEF Asking
<1>4. QED BY <1>1, <1>2, <1>3 DEF Asking

\* The actions that only choose the next state, or throw.
LEMMA DispatchRefines ==
  ASSUME IInv, Decode \/ AddrCheck \/ COP0Decode, Silent
  PROVE  ArchStep
<1>1. /\ state \in {"DECODE", "ADDR_CHECK", "COP0_DECODE"}
      /\ UNCHANGED Context /\ UNCHANGED <<pc, delayed_pc>>
  BY DEF Decode, AddrCheck, COP0Decode, Silent, Context
<1>2. \/ \E code \in ExcCode : Throw(code)
      \/ state' \notin {"COMMIT", "BRANCH", "EXCEPTION"} /\ UNCHANGED delayed
  BY DEF Decode, AddrCheck, COP0Decode, ExcCode
<1>3. CASE \E code \in ExcCode : Throw(code)
  BY <1>1, <1>3, ThrowIsQuiet DEF ArchStep
<1>4. CASE state' \notin {"COMMIT", "BRANCH", "EXCEPTION"} /\ UNCHANGED delayed
  BY <1>1, <1>4, QuietSteps DEF ArchStep
<1>5. QED BY <1>2, <1>3, <1>4

\* COP0_ACCESS executes MFC0 and MTC0.
LEMMA COP0AccessRefines ==
  ASSUME IInv, COP0Access, Silent
  PROVE  ArchStep
<1>1. CASE instr.op = "reserved"
  BY <1>1, ThrowIsQuiet DEF COP0Access, Silent, Context, ArchStep
<1>2. CASE instr.op # "reserved"
  <2>1. instr.op \in {"mfc0", "mtc0"} /\ cp0 \in RefCp0
    BY <1>2 DEF COP0Access, IInv, Dispatched, RefTypeOK
  <2>2. /\ cp0'.compare = IF instr.op = "mtc0" THEN rt ELSE cp0.compare
        /\ UNCHANGED <<cp0.exl, cp0.epc, cp0.bd, cp0.cause>>
    BY <1>2, <2>1 DEF COP0Access, RefCp0
  <2>3. Results
    BY <1>2, <2>1, <2>2 DEF COP0Access, Results, Silent
  <2>4. QED BY <1>2, <2>1, <2>3, Completes DEF COP0Access, Underway, ArchStep
<1>3. QED BY <1>1, <1>2

\* EXCEPTION is an exception of the processor.
LEMMA ExceptionRefines ==
  ASSUME IInv, Exception, Silent
  PROVE  Arch!MipsNext
<1>1. /\ args.code \in ExcCode /\ args.code # "none" /\ args.delayed \in BOOLEAN
      /\ cp0 \in RefCp0
  BY DEF IInv, RefTypeOK, Args, ExcCode
<1>2. state' = "FETCH" /\ delayed' = FALSE
  BY DEF Exception, IInv, RightException, SlotHasTarget, RefTypeOK
<1>3. /\ ArchPC = pc /\ ArchSlot = args.delayed
      /\ ArchPC' = Handler /\ ArchNextPC' = Succ(Handler) /\ ArchSlot' = FALSE
  BY <1>2, Positions DEF Exception, Position
<1>4. /\ cp0'.exl = TRUE /\ cp0'.cause = args.code /\ cp0'.compare = cp0.compare
      /\ cp0'.epc = IF cp0.exl THEN cp0.epc ELSE IF args.delayed THEN Pred(pc) ELSE pc
      /\ cp0'.bd = IF cp0.exl THEN cp0.bd ELSE args.delayed
  BY <1>1 DEF Exception, RefCp0
<1>5. Arch!Throw(args.code)
  BY <1>3, <1>4, SameHelpers DEF Arch!Throw, Exception, Silent
<1>6. CASE args.code = "Int"
  <2>1. Interrupts /\ ~cp0.exl
    BY <1>6 DEF Exception, IInv, RightException
  <2>2. ran' = Interrupt
    BY <1>6 DEF Exception
  <2>3. Arch!TakeInterrupt
    BY <1>5, <1>6, <2>1, <2>2, SameHelpers DEF Arch!TakeInterrupt
  <2>4. QED BY <2>3 DEF Arch!MipsNext
<1>7. CASE args.code # "Int" /\ pc \in Misaligned
  <2>1. args.code = "AdEL" /\ ran' = Nop
    BY <1>7 DEF Exception, IInv, RightException
  <2>2. Raised(Nop, regs[Nop.rs], regs[Nop.rt], pc) = "AdEL"
    BY <1>7 DEF Raised
  <2>3. Nop.op = "alu" /\ ~BranchDelay(Nop)
    BY DEF Nop, BranchDelay
  <2>4. Arch!Allowed(Nop)
    BY <2>3, SameHelpers DEF Arch!Allowed
  <2>5. Arch!Execute(Nop)
    BY <1>3, <1>5, <2>1, <2>2, <2>4, SameHelpers DEF Arch!Execute
  <2>6. QED BY <2>5, SameHelpers DEF Arch!MipsNext
<1>8. CASE args.code # "Int" /\ pc \notin Misaligned
  <2>1. instr \in Instructions /\ args.code = Raised(instr, rs, rt, pc) /\ ran' = instr
    BY <1>8 DEF Exception, IInv, RightException
  <2>2. ~BranchDelay(instr) /\ instr.op # "eret"
    BY <1>1, <1>8, <2>1 DEF Raised, MemtoReg, MemWrite, BranchDelay
  <2>3. Arch!Allowed(instr)
    BY <2>2, SameHelpers DEF Arch!Allowed
  <2>4. Arch!Execute(instr)
    BY <1>1, <1>3, <1>5, <2>1, <2>3, SameHelpers DEF Arch!Execute, rs, rt
  <2>5. QED BY <2>1, <2>4 DEF Arch!MipsNext
<1>9. QED BY <1>6, <1>7, <1>8

\* ERET is that of the processor.
LEMMA ExceptionReturnRefines ==
  ASSUME IInv, ExceptionReturn, Silent
  PROVE  Arch!MipsNext
<1>1. /\ pc \notin Misaligned /\ instr \in Instructions /\ ~delayed /\ cp0.epc # 0
      /\ instr.op = "eret" /\ cp0 \in RefCp0
  BY DEF ExceptionReturn, IInv, FetchedByTheRules, Dispatched, Underway, RefTypeOK
<1>2. Raised(instr, rs, rt, pc) = "none" /\ ~BranchDelay(instr)
  BY <1>1 DEF Raised, MemtoReg, MemWrite, BranchDelay
<1>3. /\ ArchPC = pc /\ ~ArchSlot
      /\ ArchPC' = cp0.epc /\ ArchNextPC' = Succ(cp0.epc) /\ ArchSlot' = FALSE
  BY <1>1, Positions DEF ExceptionReturn, Position, IInv, RefTypeOK
<1>4. /\ cp0'.exl = FALSE /\ UNCHANGED <<cp0.compare, cp0.epc, cp0.bd, cp0.cause>>
  BY <1>1 DEF ExceptionReturn, RefCp0
<1>5. Arch!Return
  BY <1>3, <1>4, SameHelpers DEF Arch!Return, ExceptionReturn, Silent
<1>6. Arch!Execute(instr)
  BY <1>1, <1>2, <1>3, <1>5, SameHelpers
     DEF Arch!Execute, Arch!Allowed, ExceptionReturn, rs, rt
<1>7. QED BY <1>1, <1>6 DEF Arch!MipsNext

\* COMMIT is invisible, also when it finds an interrupt.
LEMMA CommitRefines ==
  ASSUME IInv, NEW irq \in BOOLEAN, Commit(irq), Silent
  PROVE  ArchStep
<1>1. /\ pc' = IF delayed THEN delayed_pc ELSE Succ(pc)
      /\ delayed' = FALSE /\ args'.delayed = FALSE
      /\ state = "COMMIT" /\ state' \in {"FETCH", "EXCEPTION"}
  BY DEF Commit, NoArgs
<1>2. UNCHANGED <<ArchPC, ArchNextPC, ArchSlot>>
  BY <1>1, Positions DEF Position
<1>3. QED BY <1>2, Stays DEF Commit, Silent, Context, ArchStep

\* Reset stands for the processor after reset.
LEMMA InitRefines == RefInit => Arch!MipsInit
<1> SUFFICES ASSUME RefInit PROVE Arch!MipsInit
  OBVIOUS
<1>1. ArchPC = Boot /\ ArchNextPC = Succ(Boot) /\ ArchSlot = FALSE
  BY Positions DEF RefInit, Position
<1>2. QED BY <1>1, SameHelpers DEF RefInit, Arch!MipsInit, Arch!Reg, Reg

\* Every state of the machine is an instruction of the processor, or nothing.
LEMMA NextRefines ==
  ASSUME IInv, [RefNext]_refVars
  PROVE  [Arch!MipsNext]_(Arch!mipsVars)
<1>1. CASE Inner
  <2>1. Silent
    BY <1>1 DEF Inner, Silent
  <2>2. ASSUME Arithmetic PROVE ArchStep
    BY <2>1, <2>2, ComputeRefines DEF Arithmetic, IInv, Dispatched
  <2>3. ArchStep
    BY <1>1, <2>1, <2>2, RTypeRefines, BranchEvalRefines, BranchRefines, LoadedRefines,
       DispatchRefines, COP0AccessRefines, ExceptionRefines, ExceptionReturnRefines,
       CommitRefines DEF Inner, ArchStep
  <2>4. QED BY <2>3 DEF ArchStep
<1>2. CASE \E resp \in Response : Asking(resp)
  BY <1>2, AskingRefines DEF ArchStep
<1>3. CASE UNCHANGED refVars
  BY <1>3, Stays DEF refVars, Context, ArchPC, ArchNextPC, ArchSlot
<1>4. QED BY <1>1, <1>2, <1>3 DEF RefNext

\* The reference CPU implements the architecture: whatever the program, the buses and the
\* interrupt lines do, its registers, memory and CP0 are those of a machine that executes
\* one instruction at a time.
THEOREM RefRefinement == RefSpec => RefImplementsMips
<1>1. RefInit => Arch!MipsInit
  BY InitRefines
<1>2. IInv /\ [RefNext]_refVars => [Arch!MipsNext]_(Arch!mipsVars)
  BY NextRefines
<1>3. QED BY <1>1, <1>2, Invariance, PTL DEF RefSpec, RefImplementsMips, Arch!MipsSpec
===============================================================================
