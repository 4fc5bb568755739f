-------------------------------- MODULE RefCpu --------------------------------
(***************************************************************************)
(* The reference CPU of src/source/refcpu: one instruction at a time, one  *)
(* action per clock edge and per state of Core.sv, on the context of       *)
(* context.svh.  CoreProxy.sv registers what the state in charge makes of  *)
(* the context.                                                            *)
(*                                                                         *)
(* Status.ERL is 0: boot code clears it before anything else, and while it *)
(* is set an exception stops the simulation.                               *)
(***************************************************************************)
EXTENDS MipsInstr

VARIABLES
  state,
  args,        \* arguments from one state to the next: the members of the union that are read
  pc, delayed, \* program counter, and whether it is in a delay slot
  delayed_pc,  \* where the branch before it goes
  instr,       \* the current instruction
  regs, hi, cp0,
  asked,       \* the buses: a request that has been accepted and not answered
  mem,         \* the memory behind the data bus
  ran          \* the instruction executed last, for the refinement

refVars == <<state, args, pc, delayed, delayed_pc, instr, regs, hi, cp0, asked, mem, ran>>

RefState == {"UNKNOWN", "COMMIT", "FETCH", "FETCH_ADDR_SENT", "DECODE", "BRANCH_EVAL", "BRANCH",
             "ARITHMETIC", "RTYPE", "EXCEPTION", "ADDR_CHECK", "LOAD", "LOAD_ADDR_SENT",
             "LOADED", "STORE", "STORE_ADDR_SENT", "COP0_DECODE", "COP0_ACCESS",
             "EXCEPTION_RETURN"}

Args == [new_pc: PC \cup {0}, code: ExcCode, delayed: BOOLEAN, addr: Val, data: Val]

\* ARGS_RESET; EX_INT is 0.
NoArgs == [new_pc |-> 0, code |-> "Int", delayed |-> FALSE, addr |-> 0, data |-> 0]

RefCp0  == [compare: Val, exl: BOOLEAN, epc: PC \cup {0}, bd: BOOLEAN,
            cause: ExcCode \cup {"none"}]

Request == [kind: {"fetch", "load", "store"}, addr: Val, data: Val]
Nothing == [kind |-> "nothing", addr |-> 0, data |-> 0]

RefTypeOK ==
  /\ state \in RefState /\ args \in Args
  /\ pc \in PC /\ delayed \in BOOLEAN /\ delayed_pc \in PC \cup {0} /\ instr \in Instr
  /\ regs \in [Reg -> Val] /\ hi \in Val /\ cp0 \in RefCp0
  /\ asked \in Request \cup {Nothing} /\ mem \in [Val -> Val]
  /\ ran \in Instr \cup {Interrupt}

RefInit ==
  /\ state = "FETCH" /\ args = NoArgs
  /\ pc = Boot /\ delayed = FALSE /\ delayed_pc = 0 /\ instr = Nop
  /\ regs = [r \in Reg |-> 0] /\ hi = 0
  /\ cp0 = [compare |-> 0, exl |-> FALSE, epc |-> 0, bd |-> FALSE, cause |-> "none"]
  /\ asked = Nothing /\ mem = [v \in Val |-> 0] /\ ran = Nop

rs == regs[instr.rs]
rt == regs[instr.rt]

-------------------------------------------------------------------------------
\* The buses.  An address is accepted by addr_ok, its answer comes with data_ok in the
\* same cycle or later, and nothing else is accepted in between.

Response == [addr_ok: BOOLEAN, data_ok: BOOLEAN]
Quiet    == [addr_ok |-> FALSE, data_ok |-> FALSE]

\* ireq or dreq, of the state in charge.
Driven ==
  CASE state = "FETCH" /\ pc \notin Misaligned -> [kind |-> "fetch", addr |-> 0, data |-> 0]
    [] state = "LOAD"  -> [kind |-> "load",  addr |-> args.addr, data |-> 0]
    [] state = "STORE" -> [kind |-> "store", addr |-> args.addr, data |-> args.data]
    [] OTHER           -> Nothing

BusPossible(resp) ==
  /\ resp.addr_ok => Driven # Nothing /\ asked = Nothing
  /\ resp.data_ok => asked # Nothing \/ resp.addr_ok

\* The request that is answered by data_ok.
InFlight == IF asked # Nothing THEN asked ELSE Driven

BusCycle(resp) ==
  /\ BusPossible(resp)
  /\ asked' = IF resp.data_ok THEN Nothing ELSE IF resp.addr_ok THEN Driven ELSE asked
  /\ mem' = IF resp.data_ok /\ InFlight.kind = "store"
            THEN [mem EXCEPT ![InFlight.addr] = InFlight.data] ELSE mem

\* Slip: the state in charge goes on asking until it has the answer.
MemWaitHolding(resp, self, step1, step2) ==
  IF resp.addr_ok /\ resp.data_ok THEN step2 ELSE self

\* MEM_WAIT
MemWait(resp, self, step1, step2) ==
  IF resp.addr_ok /\ resp.data_ok THEN step2 ELSE IF resp.addr_ok THEN step1 ELSE self

-------------------------------------------------------------------------------
\* Fetch and decode.

\* THROW: the exception keeps what it has to know of the delay slot.
Throw(code) ==
  /\ state' = "EXCEPTION"
  /\ args' = [NoArgs EXCEPT !.code = code, !.delayed = delayed]
  /\ delayed' = FALSE

\* What the instruction side may return: no branch or ERET in a delay slot, and no ERET
\* before EPC is set.
Fetched == {i \in Instructions : /\ delayed => ~BranchDelay(i) /\ i.op # "eret"
                                 /\ i.op = "eret" => cp0.epc # 0}

\* The word on the bus is taken in every cycle; only the one with data_ok is looked at.
TakeInstr(resp) == IF resp.data_ok THEN instr' \in Fetched ELSE UNCHANGED instr

Fetch(resp) ==
  /\ state = "FETCH"
  /\ IF pc \in Misaligned
     THEN Throw("AdEL") /\ UNCHANGED instr
     ELSE /\ state' = MemWait(resp, "FETCH", "FETCH_ADDR_SENT", "DECODE")
          /\ TakeInstr(resp)
          /\ UNCHANGED <<args, delayed>>
  /\ UNCHANGED <<pc, delayed_pc, regs, hi, cp0, ran>>

FetchAddrSent(resp) ==
  /\ state = "FETCH_ADDR_SENT"
  /\ state' = IF resp.data_ok THEN "DECODE" ELSE state
  /\ TakeInstr(resp)
  /\ UNCHANGED <<args, pc, delayed, delayed_pc, regs, hi, cp0, ran>>

\* An immediate is the 0 of an instruction whose rt is $0.  A reserved instruction may be
\* noticed here or in any of the states that tell the instructions of one opcode apart;
\* those among the branches are, like branches, not put into delay slots.
Decode ==
  /\ state = "DECODE"
  /\ \/ /\ instr.op \in {"alu", "add", "mult", "mfhi", "mthi", "jr", "syscall", "reserved"}
        /\ state' = "RTYPE" /\ UNCHANGED <<args, delayed>>
     \/ /\ \/ instr.op \in {"branch", "jal"}
           \/ instr.op = "reserved" /\ ~delayed
        /\ state' = "BRANCH_EVAL" /\ UNCHANGED <<args, delayed>>
     \/ /\ instr.op \in {"alu", "add"} /\ instr.rt = 0
        /\ state' = "ARITHMETIC" /\ UNCHANGED <<args, delayed>>
     \/ /\ instr.op \in {"load", "store"}
        /\ state' = "ADDR_CHECK" /\ UNCHANGED <<args, delayed>>
     \/ /\ instr.op \in {"mfc0", "mtc0", "eret", "reserved"}
        /\ state' = "COP0_DECODE" /\ UNCHANGED <<args, delayed>>
     \/ instr.op = "reserved" /\ Throw("RI")
  /\ UNCHANGED <<pc, delayed_pc, instr, regs, hi, cp0, ran>>

-------------------------------------------------------------------------------
\* Computation.

\* Slip: the overflow is noticed after the register has been written.
ComputeThenCheck ==
  /\ IF instr.op = "add" /\ Overflow(rs, rt)
     THEN Throw("Ov") /\ ran' = ran
     ELSE state' = "COMMIT" /\ ran' = instr /\ UNCHANGED <<args, delayed>>
  /\ regs' = WriteReg(regs, instr.dst, Alu(rs, rt))

Compute ==
  IF instr.op = "add" /\ Overflow(rs, rt)
  THEN Throw("Ov") /\ UNCHANGED <<regs, ran>>
  ELSE /\ state' = "COMMIT" /\ ran' = instr
       /\ regs' = WriteReg(regs, instr.dst, Alu(rs, rt))
       /\ UNCHANGED <<args, delayed>>

Arithmetic ==
  /\ state = "ARITHMETIC"
  /\ Compute
  /\ UNCHANGED <<pc, delayed_pc, instr, hi, cp0>>

RType ==
  /\ state = "RTYPE"
  /\ \/ instr.op \in {"alu", "add"} /\ Compute /\ UNCHANGED hi
     \/ /\ instr.op \in {"mult", "mthi", "mfhi"}
        /\ hi' = CASE instr.op = "mult" -> HiOf(rs, rt) [] instr.op = "mthi" -> rs [] OTHER -> hi
        /\ regs' = IF instr.op = "mfhi" THEN WriteReg(regs, instr.dst, hi) ELSE regs
        /\ state' = "COMMIT" /\ ran' = instr /\ UNCHANGED <<args, delayed>>
     \/ /\ instr.op = "jr"
        /\ args' = [NoArgs EXCEPT !.new_pc = PCBranch(instr, rs)]
        /\ state' = "BRANCH" /\ ran' = instr /\ UNCHANGED <<delayed, regs, hi>>
     \/ instr.op = "syscall"  /\ Throw("Sys") /\ UNCHANGED <<regs, hi, ran>>
     \/ instr.op = "reserved" /\ Throw("RI") /\ UNCHANGED <<regs, hi, ran>>
  /\ UNCHANGED <<pc, delayed_pc, instr, cp0>>

\* Where args is a union, the new PC overwrites what THROW has noted of the delay slot: here
\* there is none.
BranchEval ==
  /\ state = "BRANCH_EVAL"
  /\ IF instr.op = "reserved"
     THEN Throw("RI") /\ UNCHANGED <<regs, ran>>
     ELSE /\ state' = "BRANCH" /\ ran' = instr
          /\ args' = [NoArgs EXCEPT !.new_pc =
                        IF PCSrc(instr, rs, rt) THEN PCBranch(instr, rs) ELSE Succ(Succ(pc))]
          /\ regs' = IF instr.op = "jal" THEN WriteReg(regs, instr.dst, Link(pc)) ELSE regs
          /\ UNCHANGED delayed
  /\ UNCHANGED <<pc, delayed_pc, instr, hi, cp0>>

\* The delay slot follows; a branch in a delay slot stops the simulation.
Branch ==
  /\ state = "BRANCH"
  /\ state' = IF delayed THEN "UNKNOWN" ELSE "FETCH"
  /\ pc' = Succ(pc)
  /\ delayed' = TRUE
  /\ delayed_pc' = args.new_pc
  /\ UNCHANGED <<args, instr, regs, hi, cp0, ran>>

-------------------------------------------------------------------------------
\* Loads and stores.

AddrCheck ==
  /\ state = "ADDR_CHECK"
  /\ IF rs \notin Aligned
     THEN Throw(IF instr.op = "load" THEN "AdEL" ELSE "AdES")
     ELSE /\ state' = IF instr.op = "load" THEN "LOAD" ELSE "STORE"
          /\ args' = [NoArgs EXCEPT !.addr = rs, !.data = IF instr.op = "store" THEN rt ELSE 0]
          /\ UNCHANGED delayed
  /\ UNCHANGED <<pc, delayed_pc, instr, regs, hi, cp0, ran>>

TakeData(resp) ==
  args' = IF resp.data_ok THEN [args EXCEPT !.data = mem[InFlight.addr]] ELSE args

Load(resp) ==
  /\ state = "LOAD"
  /\ state' = MemWait(resp, "LOAD", "LOAD_ADDR_SENT", "LOADED")
  /\ TakeData(resp)
  /\ UNCHANGED <<pc, delayed, delayed_pc, instr, regs, hi, cp0, ran>>

LoadAddrSent(resp) ==
  /\ state = "LOAD_ADDR_SENT"
  /\ state' = IF resp.data_ok THEN "LOADED" ELSE state
  /\ TakeData(resp)
  /\ UNCHANGED <<pc, delayed, delayed_pc, instr, regs, hi, cp0, ran>>

Loaded ==
  /\ state = "LOADED"
  /\ state' = "COMMIT"
  /\ regs' = WriteReg(regs, instr.dst, args.data)
  /\ ran' = instr
  /\ UNCHANGED <<args, pc, delayed, delayed_pc, instr, hi, cp0>>

StoreStep(next) ==
  /\ state' = next
  /\ ran' = IF next = "COMMIT" THEN instr ELSE ran
  /\ UNCHANGED <<args, pc, delayed, delayed_pc, instr, regs, hi, cp0>>

Store(resp) ==
  state = "STORE" /\ StoreStep(MemWait(resp, "STORE", "STORE_ADDR_SENT", "COMMIT"))

StoreAddrSent(resp) ==
  state = "STORE_ADDR_SENT" /\ StoreStep(IF resp.data_ok THEN "COMMIT" ELSE state)

-------------------------------------------------------------------------------
\* Coprocessor 0.

COP0Decode ==
  /\ state = "COP0_DECODE"
  /\ \/ /\ state' = IF instr.op = "eret" THEN "EXCEPTION_RETURN" ELSE "COP0_ACCESS"
        /\ UNCHANGED <<args, delayed>>
     \/ instr.op = "reserved" /\ Throw("RI")
  /\ UNCHANGED <<pc, delayed_pc, instr, regs, hi, cp0, ran>>

COP0Access ==
  /\ state = "COP0_ACCESS"
  /\ IF instr.op = "reserved"
     THEN Throw("RI") /\ UNCHANGED <<regs, cp0, ran>>
     ELSE /\ state' = "COMMIT" /\ ran' = instr
          /\ regs' = IF instr.op = "mfc0" THEN WriteReg(regs, instr.dst, cp0.compare) ELSE regs
          /\ cp0' = IF instr.op = "mtc0" THEN [cp0 EXCEPT !.compare = rt] ELSE cp0
          /\ UNCHANGED <<args, delayed>>
  /\ UNCHANGED <<pc, delayed_pc, instr, hi>>

\* An interrupt while EXL is set stops the simulation.
Exception ==
  /\ state = "EXCEPTION"
  /\ state' = IF args.code = "Int" /\ cp0.exl THEN "UNKNOWN" ELSE "FETCH"
  /\ cp0' = [cp0 EXCEPT !.cause = args.code, !.exl = TRUE,
                        !.epc = IF cp0.exl THEN @ ELSE IF args.delayed THEN Pred(pc) ELSE pc,
                        !.bd  = IF cp0.exl THEN @ ELSE args.delayed]
  /\ pc' = Handler
  /\ ran' = IF args.code = "Int" THEN Interrupt ELSE IF pc \in Misaligned THEN Nop ELSE instr
  /\ UNCHANGED <<args, delayed, delayed_pc, instr, regs, hi>>

\* An ERET in a delay slot stops the simulation.
ExceptionReturn ==
  /\ state = "EXCEPTION_RETURN"
  /\ state' = IF delayed THEN "UNKNOWN" ELSE "FETCH"
  /\ cp0' = [cp0 EXCEPT !.exl = FALSE]
  /\ pc' = cp0.epc
  /\ ran' = instr
  /\ UNCHANGED <<args, delayed, delayed_pc, instr, regs, hi>>

\* Slip: CoreProxy does not reset the arguments, so those of THROW stay.
CommitKeepsArgs(irq) ==
  /\ state = "COMMIT"
  /\ irq => Interrupts /\ ~cp0.exl
  /\ pc' = IF delayed THEN delayed_pc ELSE Succ(pc)
  /\ IF irq THEN Throw("Int") ELSE state' = "FETCH" /\ delayed' = FALSE /\ UNCHANGED args
  /\ UNCHANGED <<delayed_pc, instr, regs, hi, cp0, ran>>

\* Slip: an interrupt is not masked by EXL.
CommitUnmasked(irq) ==
  /\ state = "COMMIT"
  /\ irq => Interrupts
  /\ pc' = IF delayed THEN delayed_pc ELSE Succ(pc)
  /\ delayed' = FALSE
  /\ state' = IF irq THEN "EXCEPTION" ELSE "FETCH"
  /\ args' = NoArgs
  /\ UNCHANGED <<delayed_pc, instr, regs, hi, cp0, ran>>

\* Slip: COMMIT goes to the target of the last branch, in a delay slot or not.
CommitToTarget(irq) ==
  /\ state = "COMMIT"
  /\ irq => Interrupts /\ ~cp0.exl
  /\ pc' = delayed_pc
  /\ delayed' = FALSE
  /\ state' = IF irq THEN "EXCEPTION" ELSE "FETCH"
  /\ args' = NoArgs
  /\ UNCHANGED <<delayed_pc, instr, regs, hi, cp0, ran>>

\* The interrupt lines are looked at here only.  CoreProxy resets the arguments at this
\* point, also those of THROW: the instruction is complete, in a delay slot or not.
Commit(irq) ==
  /\ state = "COMMIT"
  /\ irq => Interrupts /\ ~cp0.exl
  /\ pc' = IF delayed THEN delayed_pc ELSE Succ(pc)
  /\ delayed' = FALSE
  /\ state' = IF irq THEN "EXCEPTION" ELSE "FETCH"
  /\ args' = NoArgs
  /\ UNCHANGED <<delayed_pc, instr, regs, hi, cp0, ran>>

-------------------------------------------------------------------------------
\* The states that talk to a bus, and the others.

Asking(resp) ==
  /\ BusCycle(resp)
  /\ \/ Fetch(resp) \/ FetchAddrSent(resp)
     \/ Load(resp) \/ LoadAddrSent(resp)
     \/ Store(resp) \/ StoreAddrSent(resp)

Inner ==
  /\ UNCHANGED <<asked, mem>>
  /\ \/ Decode \/ Arithmetic \/ RType \/ BranchEval \/ Branch
     \/ AddrCheck \/ Loaded
     \/ COP0Decode \/ COP0Access \/ Exception \/ ExceptionReturn
     \/ \E irq \in BOOLEAN : Commit(irq)

RefNext == Inner \/ \E resp \in Response : Asking(resp)

RefSpec == RefInit /\ [][RefNext]_refVars

\* The clock runs, and the buses accept what they are asked and answer what they accept.
RefFairness ==
  /\ WF_refVars(Inner)
  /\ WF_refVars(\E resp \in Response : resp # Quiet /\ Asking(resp))
  /\ WF_refVars(state = "FETCH" /\ pc \in Misaligned /\ Asking(Quiet))

RefFairSpec == RefSpec /\ RefFairness
===============================================================================
