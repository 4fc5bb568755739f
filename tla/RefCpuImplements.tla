--------------------------- MODULE RefCpuImplements ---------------------------
(***************************************************************************)
(* The reference CPU of RefCpu.tla implements the architecture of Mips.tla,*)
(* as the pipeline does, and uses its buses as their protocol demands.     *)
(***************************************************************************)
EXTENDS RefCpu

\* An instruction has been executed once its results are in the context: in COMMIT the
\* program counter still names it, in BRANCH the delay slot has not been announced.  An
\* exception has not happened before EXCEPTION, where its delay slot is an argument.
ArchPC ==
  CASE state = "COMMIT" -> IF delayed THEN delayed_pc ELSE Succ(pc)
    [] state = "BRANCH" -> Succ(pc)
    [] OTHER            -> pc

ArchSlot ==
  CASE state = "COMMIT"    -> FALSE
    [] state = "BRANCH"    -> TRUE
    [] state = "EXCEPTION" -> args.delayed
    [] OTHER               -> delayed

ArchNextPC ==
  IF state = "BRANCH" THEN args.new_pc ELSE IF ArchSlot THEN delayed_pc ELSE Succ(ArchPC)

Arch == INSTANCE Mips WITH
  pc <- ArchPC, npc <- ArchNextPC, slot <- ArchSlot,
  compare <- cp0.compare, exl <- cp0.exl, epc <- cp0.epc, bd <- cp0.bd, cause <- cp0.cause

\* The context is at every clock what executing one instruction at a time makes of it:
\* no state of an instruction leaves a trace of one that raises an exception, and the
\* delay slot survives the states between a branch and an exception in its slot.
RefImplementsMips == Arch!MipsSpec

\* "S_UNKNOWN indicates that CPU is in an error such as undefined behaviors": with
\* software that avoids them, whatever the interrupt lines do, the CPU never gets there.
NeverTrapped == state # "UNKNOWN"

\* A request that is accepted and not answered is what an ADDR_SENT state waits for: none
\* is repeated, and no answer meets a state that does not expect it.
AskedOnce ==
  /\ state = "FETCH_ADDR_SENT" <=> asked.kind = "fetch"
  /\ state = "LOAD_ADDR_SENT"  <=> asked.kind = "load"
  /\ state = "STORE_ADDR_SENT" <=> asked.kind = "store"

\* Instructions go on being started and going on: each ends, by COMMIT or by a state that
\* skips it, however the buses spread addr_ok and data_ok.
InstructionsEnd == []<>(state = "FETCH") /\ []<>(state # "FETCH")
===============================================================================
