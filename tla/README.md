# Verification of the ICS 2021 core

TLA+ models, model-checking runs and machine-checked proofs for the MIPS cores of
this repository: the five-stage pipeline and the write-back data cache of
`src/source/mycpu`, the reference CPU of `src/source/refcpu`, the buses of
`src/source/util` between them and memory, and the parts of the Verilator test bench of `src/verilate` that say what those
circuits promise. The circuits are clocked logic, so one step of their models is one
rising edge of the clock, and what an interface may do in a cycle (answer, stall,
interrupt) is a choice made afresh in every step. The test bench has processes and threads as well:
there a step is a system call, or what a thread does under a lock.

## 1. The system

```
        ireq/iresp (IBus)                       dreq/dresp (DBus)
 MyCore ----------------> IBusToCBus / ICache   ----------------> DCache
   |                              \                              /
   |  mult, multdiv                \  icreq              dcreq  /
   |  cp0, hilo, regfile            +-----> CBusArbiter <------+
                                                | oreq/oresp (CBus)
                                           CBusToAXI
                                                | AXI3: AR R AW W B
                                             memory
```

In simulation `VCacheTop` puts the cache directly in front of the C++ memory
`CBusDevice`, and `testbench.h` compares it with `CacheRefModel`, whose lines and sets are not the
cache's.

| component | state | operations | properties that make it correct |
|---|---|---|---|
| pipeline (`MyCore.sv` and its stages) | F, D, E, M, W registers, register file, HI/LO | one clock: stall, flush, forward, redirect | implements one-at-a-time execution; requests held until answered; no self-made deadlock |
| CP0 (`cp0.sv`, `decode.sv`) | Status, Cause, EPC, Count, Compare, BadVAddr | exception, ERET, MTC0, timer | precise exceptions, delay slots, nothing taken twice or dropped |
| multiplier, divider (`mult*.sv`) | unit state, counter, partial result | start, work, done | exact result for every operand pair; always done; nothing left behind |
| data cache (`DCache.sv`; `ICache.sv` is the same) | FSM, recency order, meta data, LUTRAMs, saved request | accept, flush, fetch, serve | transparent; no line twice; dirty lines never dropped; beats in lockstep with memory |
| arbiter (`CBusArbiter.sv`) | busy, index | grant, release | one burst at a time, nobody starves |
| converter (`CBusToAXI.sv`) | busy, saved request, channels in issue, count | issue, beat, complete | bursts never mix, reads never pass a pending write |
| test-bench memory (`cbus_device.cpp`, `axi.h`) | memory, transaction | start, beat, stall | same behaviour as the converter with memory behind it |
| reference cache (`cache_ref.cpp`) | lines in place, memory | load, store | same answers as the RTL; memories that differ in dirty lines only |
| core top (`VTop.sv`, `mycpu_top.sv`) | none of its own | kseg1 bypass, bus conversions | the requester sees its own answer |
| reference CPU (`refcpu/`) | FSM, context | one instruction at a time | implements the same architecture |
| out-of-order prototype (`ooo/`) | skid buffer, multi-ported RAMs | take, keep, forward; write and read | FIFO; last write wins |
| one-line buffer (`StupidBuffer.sv`) with its driver (`bus.h`) | FSM, line; queues of tasks | fetch, serve, write back; submit, tick, fence | every load gets its own answer, in order; a fence returns |
| peripherals (`confreg.cpp`) and terminal thread | registers, contexts, character queue | load, store, sync, push | no character lost, repeated or overtaken |
| parallel test runner (`testbench.cpp`) | pipes, counters, processes | fork, select, dispatch, kill, reap | right verdict, always ends, nobody left behind |

How the circuits interact: all by wires sampled at one clock edge; there are no queues. A
request stays on its wires until the answer (`data_ok`, or `ready` with `last`) and
an answer lasts one cycle. What is hard is therefore the combination of two or
three parties that stall independently: the instruction side, the data side, the
multiplier, the slave's five channels, the interrupt lines. In the test bench it is the order in which
processes and threads get to run. `PROJECT.json` lists
the hazards, each at its line.

## 2. Modules

| module | models | kind |
|---|---|---|
| `CBus` | the DBus and CBus records, strobes, burst addresses | operators |
| `DCache` | `DCache.sv`, `ICache.sv`, `LUTRAM.sv`: one action per FSM state | component |
| `CBusDevice` | `CBusDevice`, `AXITransaction` of the test bench | component |
| `AtomicMemory` | what a client may expect of any data memory | abstract specification |
| `CacheSystem` | cache + device + client (`VCacheTop`); invariants; refinement of `AtomicMemory` | composition |
| `CacheSystemProofs` | its proofs | proofs |
| `CacheRefModel` | `cache_ref.cpp`, with its own lines and sets | component |
| `CacheDiff` | RTL and reference model side by side (`testbench.h`) | composition |
| `CacheDiffProofs` | its proofs: the answers agree, the memories up to dirty lines | proofs |
| `CBusArbiter`, `CBusToAXI` | the two modules of that name | components |
| `AXIMemory` | a slave that obeys AXI (external) | environment |
| `MemoryPath` | cache + instruction side + arbiter + converter + slave; refinement of `CacheSystem` | composition |
| `MemoryPathProofs` | its proofs | proofs |
| `MipsInstr` | what an instruction does (`ControlUnit.sv`), the vocabulary of both cores and of `Mips` | operators |
| `Mips` | the architecture: one instruction at a time | abstract specification |
| `MyCore` | the pipeline, `hazard.sv`, CP0, HI, register file | component |
| `MyCoreImplements` | refinement mapping to `Mips`, handshake properties | properties |
| `MyCoreProofs` | proofs about the pipeline, its refinement included | proofs |
| `RefCpu` | `Core.sv`, `CoreProxy.sv`, `impl/*.sv` of the reference CPU: one action per state | component |
| `RefCpuImplements` | refinement mapping to the same `Mips`, bus properties | properties |
| `RefCpuProofs` | proofs about the reference CPU, its refinement included | proofs |
| `Mult` | `mult.sv`, `multmult.sv`, `multdiv.sv` to the bit | component |
| `MultProofs` | its proofs: exact results for every width | proofs |
| `DataPort` | the data side of `VTop.sv`: data cache, `DBusToCBus` and the kseg1 multiplexer over the device | composition |
| `StupidBuffer` | the one-line buffer of the reference CPU: one action per FSM state | component |
| `DBusPipeline` | the buffer, the device and `DBusPipelineGen` of `bus.h`, which drives them | composition |
| `DBusProofs` | proofs about `DataPort` and `DBusPipeline` | proofs |
| `Fifo` | what a pipeline register between two handshakes promises | abstract specification |
| `Pipe` | the skid buffer of the out-of-order prototype; it implements `Fifo` | component |
| `MultiPortRAM` | `FFRAM`, `LVTRAM`, `XORRAM` with `BypassBuffer`, against the vector of their bench | component |
| `TestRunner` | the parallel runner of `testbench.cpp` | component |
| `Confreg` | the peripherals of the simulator and the thread of the terminal | component |
| `UnitProofs` | proofs about `Pipe`, `MultiPortRAM`, `Confreg` and `TestRunner` | proofs |
| `MC*` | instances for TLC; `MCTargets` holds `DataPort`, `DBusPipeline`, `Pipe`, `MultiPortRAM`, `TestRunner` and `Confreg`, one at a time | - |

Definitions called "Slip" in their comment are plausible bugs: `PROJECT.json`
(`mutants`) says which definition each one replaces and which property notices.

### Data cache and its test bench

An address is a record `{tag, index, offset}`, a word is a function from byte
lanes to values, memory a function of tag, index and offset. `size` is passed on or
ignored by every modelled component and is left out. `order[i]` is the
`ooo` list of set `i` from the oldest used way to the latest; the unrolled
assignments of lines 92-109 are `Reorder`, for any number of ways. `Accept`,
`Flush`, `Fetch` and `Serve` are the FSM's states; an IDLE cycle without a
request changes nothing. The LUTRAMs are arrays: their contents survive a reset,
but no line is valid then. Writes in FETCH happen in every cycle, ready or not, as
in the code.

`CBusDevice` has three actions for a cycle: disabled, start, beat. `enable` is drawn at
random each cycle in the code and only decides which of them happens. A
one-word transaction never reaches `AXITransaction::sync`.

The client of `CacheSystem` issues any request whenever the cache is IDLE. That
covers both users: the test bench drops `valid` after `addr_ok`, the core holds
the request until `data_ok`; the cache looks at `dreq` in IDLE only.

`CacheDiff` runs `CacheRefModel` after every operation of the cache, as the wrapper of
`testbench.h` does. The two cut the address differently. `DCache.sv`, with its default
parameters (4-5, 57), has lines of sixteen words and takes the index from `addr[7:6]`; `cache_ref.cpp`
(37-40, 88-91) has lines of four words and takes it from `addr[5:4]`. Each module therefore has sizes of its
own, and `WordAddress` is the address that the one cuts into tag, index and offset (`DCache`) and the other with `TagOf`,
`IndexOf` and `OffsetOf`. The words of one line of the cache lie in different sets of the reference
model, and victims, write-backs and refills differ. What they have in common is what the properties say:
`SameOutputs`, and `MemoriesDifferInDirtyLines`. That the memories are equal, as `check_memory` has it, is
`SameMemory`, which does not hold (section 4). The reference model's lines move in place, which is its
`Rotate`; a load and a store are one operation, told apart by the strobe.

`MemoryPath` replaces the device by the arbiter, the converter and an AXI slave
that completes the channels in issue in any order the protocol allows, and adds
an instruction side that reads a line or a word. `MatchesDevice` says that the
cache behind this path behaves as behind the device: the comment on
`CBusDevice` (`verilate/include/memory.h` 85, "should match the behavior of module CBusToAXI") as a refinement.

### Pipeline

`Clock(in)` is one edge. `in` says what the core sees in that cycle: `i_data_ok`,
`d_data_ok`, the multiplier's `done` (and what it shows while it is not), and the
interrupt lines. `Held` is the verdict of `hazard.sv`: the last stage that keeps
what it has, or "flush". Every stage follows it.

- The program is not fixed. Any of `Instructions` may arrive for any address, so
  one run covers every program made of them; `ran` records which instruction has been
  executed, and the refinement obliges `Mips` to execute that very one.
- Instructions are classes: what the decoder's forty opcodes have in
  common as to where operands come from and where results go. JALR, BLTZAL and BGEZAL, which
  both jump and link (JALR to any register), have no class: `jr` and `branch` do the one, `jal` the other. `Alu`, `Overflow`,
  `Equal`, `HiOf`, `Link` and `Target` are parameters. LO is handled
  line by line as HI and is left out, and so are immediates, the access width and
  BadVAddr.
- Software keeps branches and ERET out of delay slots and sets EPC before ERET:
  the architecture leaves the rest undefined.
- After reset the core issues one no-op for the word before the first. D latches
  the instruction bus although nothing was asked; the buses return 0 then.
- PC 0 marks a bubble, as in the code, which suppresses exceptions at PCE = 0.
- Stage fields that nobody reads (the data of an instruction that is not a store) are
  0, to keep states apart only where the circuit can tell them apart.
- `taken`, `kept` and `ran` are history, read by the refinement only: an exception
  or ERET is executed when cp0 first records it, everything else when it
  leaves E. cp0 records a held exception again in every cycle; `Mips` sees it once.

### Reference CPU

The reference CPU spends several cycles on every instruction. `Core.sv` selects the module of the
state it is in, and `CoreProxy.sv` registers what that module makes of the context; `RefCpu`
therefore has one action per state, named after it.

- The context is `pc`, `delayed`, `delayed_pc`, `instr`, `args`, the registers, HI and CP0.
  `args` is a union of structs in the code; the model has those members that some state reads,
  and puts them back to `NoArgs` where `CoreProxy.sv` or `THROW` does.
- `asked` and `mem` are the buses and the memory behind them. A bus accepts a request
  (`addr_ok`) and answers it (`data_ok`) in the same cycle or in a later one, and accepts nothing in between;
  `MEM_WAIT` is the code's reading of the two. The word on the
  instruction bus is registered in every cycle, but looked at only after `data_ok`.
- The program is again any sequence of `Instructions`, with the same two rules for software.
  A reserved instruction may be noticed in `DECODE`, `RTYPE`, `BRANCH_EVAL`, `COP0_DECODE` or `COP0_ACCESS`,
  according to its opcode; one that is noticed among the branches is kept out of
  delay slots, as branches are. What `BranchEval.sv` does to it there is described in section 4 and is
  outside the runs and `RefCpuProofs`.
- An interrupt is looked at in `COMMIT`. Branches, exceptions and ERET do not go through it.
- `ran` is history: the refinement sees an instruction as executed when its results are in the context
  (on the way to `COMMIT` or `BRANCH`) and an exception when `EXCEPTION` has been left.
- Left out: Count and the timer, Status.ERL (cleared by boot code; while it is set an
  exception ends in `S_UNKNOWN`), BadVAddr, LO, the access width, `target_id`, and what the code answers with
  `FATAL` only (unknown CP0 registers, division by zero).

### Multiplier and divider

`Mult` follows both units to the bit for any even word width: four partial products
and two cycles, or one quotient bit per cycle with a one-hot counter. Operations
follow one another at will, and an instruction that is done may be held in E by
the data side, as `hazard.sv` does. `InterruptedSpec` adds a flush of E.

### Data side of the core top

`DataPort` puts the multiplexer of `VTop.sv` 36-51 around the cache of `DCache`. The address on
the data bus selects a side in every cycle; the other one sees zeros and runs on, which is
harmless in IDLE only. `port` is what the core drives: held until `data_ok`, as
`RequestsAreHeld` shows for the pipeline, and any at all, kseg1 or not, while there is no request. An
access may be repeated, which is more than the pipeline does: M moves on with the answer, whatever the
other side does. `CachedRequests` and `UncachedRequests` have no tag in common (`PortAssumption`). Software must keep the
lines apart, since the hardware never looks into the cache for a kseg1 access; that it keeps tags apart is a
little more than needed. The cycles in which the arbiter serves the
instruction side are cycles without an answer. The instruction side is the same with
loads only.

### One-line buffer and pipelined driver

`StupidBuffer` fetches its line from the requested word on, round the end of the line, serves the word and, after
a store, writes the line back from the same word on. `cursor` is the register `offset`, which must
be back at that word each time the FSM leaves a burst; `held` is the register `req`. The LUTRAM is written
in FETCH with whatever the bus carries.

In `DBusPipeline` a test calls `store` and `expect` (`Submit`) and `fence`; `pending` and `ongoing` are the two queues of
the driver, and `Tick` is `top->tick()` with what the driver does afterwards to the signals it read
before (`Queues`). `expected` is the memory as the test's author would have it,
so that `expect` is always called with the right word and `apply_assert` must never fail.

### Skid buffer and multi-ported memories

`Pipe` has one action per branch of its `always_ff`; `wires` are the inputs of the
coming edge, any at any time, the reset included. `Fifo` is a queue of two whose outputs depend on
the queue alone; the refinement mapping reads the queue off the output register and the buffer.

`MultiPortRAM` has the three backends that `VRAM.sv` can instantiate. A word is one bit, because no backend
lets a bit see another, and the copies kept per read port are one copy, because they are written alike. The
loops over write ports are "the last port that writes the address". `reference` is the
vector `ref` of `VRAM/tests.cpp`.

### Test runner

`TestRunner` has the master of `run_parallel` and the workers of `run_worker` as processes. A request
pipe is in `asked` when its character is in it; the master sees the end of a request pipe when its worker is dead,
since later workers inherit only ends for reading. The order pipes are different: their writing ends are
inherited by every worker forked later (`NoWriter`). What each test does (pass, fail with an abort,
never end) is chosen at Init. `Select` returns every descriptor that is ready, and the
scan goes up through them in several steps, while the workers run on.

### Peripherals

A tick of `MyCPU::tick` is four steps of `Confreg`, between which the thread of the terminal may push a character:
the response and the next request, the first half of `Confreg::sync`, which pops under the lock, its second half, and the
device with the checks. `Confreg::sync` looks at the queue without the lock in its second half: an
atomic read in the model. That this is a data race in C++, without a defined meaning, is outside it. `ctx` is what the accesses of this cycle have noted, `ctx0` what the checks look
at. The registers without an effect of their own are one register, `reg`. Characters and numbers ascend,
so that a lost or a repeated one is seen.

## 3. Runs

| run | question | bounds | distinct states |
|---|---|---|---|
| `cache` | do the inner invariants hold, and is the cache an atomic memory that answers? | 2 ways, 1 set, 3 tags, 2 words of 2 lanes of 1 bit, partial strobes | 84,079 |
| `cache_diff` | does the RTL agree with a reference model of other lines and sets, and stay an atomic memory? | 4 tags; cache: 3 ways, 1 set, 4 words; reference: 2 ways, 2 sets, 2 words; 1 lane of 1 bit | 120,097 |
| `memory_path` | do bursts stay apart, reads behind writes, and both sides get served? | 2 ways, 3 tags, 2 words, 2 inputs | 12,317 |
| `core_data` | are operands and results ever lost or stale? | 8 instructions, 1 register besides $0, 1-bit words, 2 addresses | 37,523 |
| `core_control` | are exceptions precise, requests held? | 9 instructions, 4 addresses, 1 misaligned | 299,268 |
| `core_interrupt` | are interrupts taken between instructions? | 6 instructions, 3 addresses | 145,569 |
| `ref_cpu` | does the state machine implement the same architecture, asking its buses once? | 14 instructions, interrupts, 4 addresses, 1 misaligned, 1-bit words | 615,457 |
| `mult` | are products, quotients and remainders exact, and always delivered? | every pair of 4-bit operands, all four operations | 496,097 |
| `targets` | do the smaller units, each alone, keep their promises? | see below | 322,639 |
| `lost_interrupt` | violation, see 4 | | |
| `zero_register` | violation, see 4 | | |
| `mult_killed` | violation, see 4 | | |

Why the bounds are enough:

- *Cache.* Sets do not interact except through the saved request, so one set is
  enough; one tag more than there are ways makes every set evict; two words per line
  are the least with a beat that is neither first and last. Two ways allow every
  relation of "hit", "victim" and "other"; `cache_diff` has three, the least with a place in the middle of
  the order, and the proofs any number. It keeps the proportion of the code: one line of the cache is as
  long as all sets of the reference model together, so that the words of a line lie in different sets, a
  miss on one side is a hit on the other, and each side evicts what the other keeps. Only tags 0 and 1
  are stored to: dirty lines then meet clean ones at every place of the order.
  `CacheSystemProofs` removes the bounds altogether for the safety part, `CacheDiffProofs` for
  the comparison with the reference model.
- *Memory path.* The converter and the arbiter distinguish first, middle and last
  beats through `count = 0` only, so bursts of one and two words show every case.
  `MemoryPathProofs` removes the bounds for the safety part.
- *Pipeline.* Hazards involve at most the three instructions in E, M and W and the one in D; a
  forwarding path is chosen by comparing register numbers, so one register
  besides $0 gives both outcomes of every comparison and the densest conflicts. One-bit words
  are enough for a wrong operand to show: the ALU is chosen not to be
  commutative. Every sequence of the program's instructions is explored, with
  every combination of stalls. Which instructions each run has is in
  `MCMyCore.tla`; they are split in three runs because the product is out of reach.
  `core_control` has its misaligned address right behind a branch, so
  that a delay slot can raise every exception outside a handler too.
  `MyCoreProofs` removes the bounds for the handshakes and for the refinement of `Mips`, within
  `ProgramInScope` (section 5).
- *Reference CPU.* It holds one instruction at a time, so what must meet is a branch, its delay
  slot and the instruction after it, an exception and its handler: four addresses
  give each a place of its own. `RefProgram` has one instruction for every path
  through the state machine. `RefCpuProofs` removes the bounds for everything but `InstructionsEnd`.
- *Multiplier.* The units use the width only as a number of steps; 4 bits contain the
  most negative number, its negation (which overflows), and division of and
  by it. Division by zero is issued and must end; its result is undefined in MIPS. `MultProofs` removes the bound
  on the width.

- *Targets.* One run has six units, of which `target`, chosen at Init, is the only one that
  moves: the Makefile builds one Verilator target at a time. Runner: three workers, so that
  one has an elder and a younger sibling, and two tests, so that one is left
  without. Pipe: three data values, as many as items can be told apart in a queue of two and at its input. Memories: two
  addresses, three write ports, as in `VRAM.sv`. Buffer: lines of two words and two tasks in the queues, every sequence of
  loads, stores of words and stores of parts (four words and three tasks, 126,304 states,
  also pass). Data side: one way and two cached lines, so that every change of line evicts, and one
  uncached line. Peripherals: two characters typed, two stores to each output, any number of accesses
  in any order (three typed characters also pass).
  The proofs remove the bounds of all six but for `RunnerEnds` and `FenceReturns`.

`core_interrupt` has no load, store or multiplication. A load that waits in M loses the
interrupt (`lost_interrupt`), and a multiplication may have written HI when
an interrupt takes it out of E (`decode.sv` 128 writes HI in every cycle); the
instruction is restarted after ERET and writes HI again, but a handler that
saves HI has saved a wrong value. Both would hide everything else behind
their counterexample.

The model also shows which conditions of `hazard.sv` matter. Without
`LoadFeedsE`, without `MultWaits`, or without the path into M (`ForwardM`) the
refinement still holds in these runs: they are redundant, because `LoadFeedsD` already keeps the
consumer of a load in D, and E forwards. `StoreDataFinal` of
`MyCoreProofs` is that fact for `ForwardM`.

### Fairness

- *The clock does not stop*: weak fairness of the cycles that wait for nobody.
- *The test-bench memory*: enabled again and again (`p_disable < 1`).
- *The AXI slave*: completes every handshake that stays offered, which AXI requires of it.
- *Pipeline*: the instruction side, the data side and the multiplier
  each answer again and again, independently of each other. The first two are
  what `FetchServed` and `DataServed` of `memory_path` show; the third is `AlwaysDone` of
  `mult`. Nothing is assumed about their coincidence: the pipeline drops an answer of the instruction side
  that comes while it stalls for another reason and asks again, and `Progress`
  shows that this ends. An answer of the data side is never dropped, because `hazard.sv` holds M by `d_data_ok` alone.
- *Reference CPU*: the clock runs (weak fairness of the states that ask nothing, and of `FETCH` at a
  misaligned address, which asks nothing either), and the buses
  accept what they are asked and answer what they have accepted. `InstructionsEnd` needs no more.

- *Test runner*: the operating system schedules the master and every worker. `RunnerEnds` needs
  that every test ends, or that one fails while fewer tests hang than there are workers: a test that
  hangs is waited for when nothing else fails.
- *Pipelined driver*: a test in `fence` goes on ticking, and the device is enabled again and again.

Nothing is assumed about clients, programs or interrupts.

## 4. Findings

1. `lost_interrupt`. CP0 takes an exception as soon as `i_data_ok`
   (`decode.sv` 127), but the pipeline is flushed only when the data side has
   answered too (`hazard.sv`). If an interrupt comes while a load waits in M, EXL and EPC are
   set; EXL then masks the interrupt, the exception is gone when M is
   answered, and F goes on with the next instruction. `doc/src/arch-lab/lab4.md` 61
   says that after an exception the pipeline is emptied and the PC set to
   0xbfc00380. An exception that does not go away by itself (SYSCALL,
   overflow, ...) is recorded again and survives, as `core_control` shows.
2. `zero_register`. Every instruction but MFC0 (and JAL) checks that its target
   is not $0 (`ControlUnit.sv` 220-236). The register file drops the write, the
   forwarding paths do not: the next instruction reads a $0 that is not zero.
3. `mult_killed`. An exception that takes a division out of E leaves the divider counting
   (`multdiv.sv` 27): the division that follows continues the
   old one and delivers a result that belongs to neither. The counterexample
   leaves exactly the two cycles that the flush takes before the
   handler's first instruction can be in E.

`check_memory` of the reference cache does not hold, and no run has it as an invariant: the reference model has other lines
and sets than the cache (section 2). After a store to 0 and loads of 64, 128, 192 and 256 it has evicted the dirty line and
written it back, while the cache, for which these are lines of four sets, still has it dirty. `testbench.h` 177-179
calls `check_memory` at the end of a test without a flush, and `cache_ref.cpp` 188 asserts that the memories are equal:
"reference model's memory content is different from RTL model". `SameMemory` of `CacheDiff` is that
assertion; with `INVARIANT SameMemory` added to `MCCacheDiff.cfg`, TLC needs 21 cycles to refute it.
`OnlyDirtyWordsDiffer` proves what is true instead. The answers are not affected: `OutputsAgree`.

Also observed, and not modelled: `VCacheTop.sv` 49 names a signal
`top.data` that does not exist, so `check_internal` cannot be
compiled for this cache; `MyArbiter.sv` is an empty stub; ERET clears EXL while it waits in E for the
data side; Count reaching Compare raises no interrupt unless Compare is
written in that very cycle (`cp0.sv` 31-33).

In the reference CPU: branches, exceptions and ERET skip `S_COMMIT`, so the comment "args will be reset to
zeros at the beginning of each instruction" (`context.svh` 68-69) is not
true of the instruction after them; of the arguments modelled, no state reads one that the same instruction has not
written, as the proof of `RefRefinement` shows. Where `args` is a union
(`common.svh` 21-23), `BranchEval.sv` 64-70 overwrites the delay-slot bit that `THROW` has just
written for a reserved instruction; in a delay slot that instruction would get the
wrong EPC. `Exception.sv` 24 writes BadVAddr on every exception, whether it has an address or not.

In the test bench and the smaller units: the failure of a test is reported by `run_parallel`
with a line of its own, but the process goes on to print how many tests passed and exits with status 0, while the serial
runner aborts. Characters typed before `Confreg::reset` are lost. `Confreg` commits a store in the `sync` after it, and a load sees it only because `CBusDevice` passes an idle cycle between
two transactions. With `IM_STUPID` the multiplexer of `refcpu/VTop.sv` would follow `dreq.addr`
while the one-line buffer is still in FLUSH: `data_ok` comes before the line has been written
back, and a kseg1 access right after a store would cut the burst off. The parameter is 0 in every target. `DataPort`
has the cache in its place, which writes back before it answers.

## 5. Proofs

TLAPS proves the following for every value of the constants that satisfies the named
assumptions (`CBusAssumption`, `WaysAssumption`, `RequestsAssumption`, `RefAssumption`, `AddressAssumption`, `PathAssumption`, `PortAssumption`,
`DriverAssumption`, `InputsAssumption`, `InstrAssumption`, `ProgramAssumption`, `PipeAssumption`, `ConfregAssumption`,
`RunnerAssumption`, `MultAssumption`: sizes are positive, requests are requests of the bus, what the parameters return is a word or an
address, the arbiter has two inputs, the instruction side only reads, no tag is reached both through kseg1
and through the cache, the reference model's memory is made of whole lines and has every word the cache can
address). TLC evaluates the same assumptions in the runs. Two theorems
about the pipeline have a hypothesis of their own: `OperandsStay` and `CoreRefinement`.

`CacheSystemProofs`: `TypeCorrect`, `OrderStaysPermutation`, `LinesStayUnique`,
`DirtyStaysValid`, `CleanLinesStayCoherent`, `BeatsStayInLockstep`,
`DeviceNeverAsserts`, `Refinement` (`Spec => Transparent`).

The inductive invariant `IInv` adds four parts to the properties the run
checks. `BurstInv` ties the device's transaction to the cache's registers: same line,
same direction, same beat. `FlushInv` and `FetchInv` say how far a burst has come:
the words before `cur` are in memory, or have arrived, and the line asked for is in
no way. `ReadyInv` says that READY serves the line asked for. None of the checked
properties is inductive alone: coherence of clean lines after a write-back needs to
know that the words before the last beat went to the right place, which needs the
victim's tag not to move, which needs the recency order to be a permutation whose
last element is the way in use. `ReorderLemma` proves that for any number
of ways. `Refinement` then has one lemma per action: IDLE, FLUSH and FETCH cycles
leave the client's view of memory alone (FETCH changes where a line is found, not what
it holds), and READY changes one word under the strobe.

`CacheDiffProofs`: `OutputsAgree`, `OnlyDirtyWordsDiffer` and `DiffRefinement`, for any sizes of either
side and any sequence of operations. Lines, victims and memories of the two cannot be compared, since they are cut from
other bits of the address. What can be compared is what a program sees of each: the word of an
address's line where there is one, else of memory. `ViewsAgree` says that both show the same, in every cycle, while
the cache writes back and refills word by word; `RefInv` that a line of the reference model is in one place of its
set only, that a clean one is memory's, and that a dirty one is valid. `RefStep` shows that one operation of the reference model,
with its rotation, write-back and refill, changes its view of one word under the strobe and of no other;
the same of the cache are the lemmas of `Refinement`. What is left is the arithmetic of addresses:
that tag, index and offset determine a word on either side (`AddressFacts`, `WordAddressUnique`, from `DivMod` and
`ProductOrder`), so that a write-back or a refill of one line touches no word of another.

`MemoryPathProofs`: `PathTypeCorrect`, `BeatsBelong`, `ReadsAfterWrites`, `FetchesAreRight`,
`PathMatchesDevice` (`Spec => MatchesDevice`), for any sizes, any requests and fetches, and a slave
that orders and stalls the channels as the protocol allows.

The strengthening says how far everybody is in the one burst there may be. `ReadBurstInv` and
`WriteBurstInv` tie the converter's `in_issue`, `saved_req` and `count` to what the slave has taken:
R and B end last, the slave's word number is the length less what `count` has left, and a read finds
no write pending. `GrantInv` ties them to the arbiter: while words move, the request granted is the
one saved, and its requester has counted as many words as the converter. `HeldInv` says that a
grant is held by a valid request, and that a requester without the bus has counted nothing.
Without `GrantInv` the beat a requester sees could be another's: the arbiter gives the bus away with
the last word, the converter is busy until B, and the next request waits in between.
`PathMatchesDevice` has three kinds of steps: the saved request becomes the device's
transaction, a beat of the granted cache is a beat of the device, and all other cycles (the fetching side's,
those of AR, AW and B, stalls) are stutters of the device. The B handshake is one because the words already
passed count as the device's memory before the slave commits them.

`Refinement` and `PathMatchesDevice` compose: the cache behind arbiter, converter and AXI slave is
an atomic memory to the core. That composition is an argument of this paragraph and not a
theorem, since tlapm does not expand the theorems of an instance.

`MyCoreProofs`: `CoreTypeCorrect`, `RequestsStay`, `OperandsStay`, `CoreRefinement`
(`ProgramInScope => (Spec => ImplementsMips)`).

For the handshakes the strengthening has five parts. `BubblesAreNops` and `EretHasEpc` keep an
ERET or a link from sending F to the PC of a bubble. `StoreDataFinal` says that
the word forwarded into M is the word M has, which makes the data on the bus stable
when W moves on under a waiting M. `MultUndisturbed` says that no older result is
left that a multiplication in E would be forwarded, and `FetchedInOrder`
that F follows D unless a branch is in E, which distinguishes a multiplication that waits from
its successor at the same address. `OperandsStay` needs a program of
more than one word: with one, two multiplications in a row cannot be told apart.

`CoreRefinement` says that the pipeline, with its forwarding, stalls, delay slots, flushes and waits, executes one
instruction at a time, for any program, word size, register file and answers. Its hypothesis `ProgramInScope` leaves
out what the code does not do right: MFC0 (and JAL) to $0, which `zero_register` shows to be forwarded; and, if there
are interrupts, loads and stores, with which `lost_interrupt` loses one, and multiplications,
which may have written HI when an interrupt takes them out of E. Without interrupts every instruction is
covered, exceptions and ERET included; with them, everything else. The two
clauses are those that the passing runs `core_data`, `core_control` and `core_interrupt` obey.
The refinement mapping reads the processor's state off the pipeline: its registers are the register file with what W and
M are about to write, its PC that of the oldest instruction not executed. `RInv` says that this is what the
stages really work on. `StagesFollowProgram`: E and D hold instructions of the program, by the rules for
delay slots. `OrderOfStages`: D and F are the successors of E that the branch in E decides.
`ResultsInOrder`: nobody in M or W writes $0, and no load in M has its consumer in E, which is the work of
`LoadFeedsD`. `OperandsAreArchitectural`: the operands that an instruction took in D are the registers
as all older ones leave them. `RecordedStays`: an exception that cp0 recorded while E waits is still the one
that E raises. Then every clock edge is one of three: cp0 records something for the first time
(`RecordRefines`), an instruction leaves E (`CompletionRefines`), or nothing happens to the processor
(`OtherCyclesStutter`), whatever moves in the stages.

`RefCpuProofs`: `RefTypeCorrect`, `NeverInUnknown`, `RequestsAskedOnce`, `RefRefinement`
(`RefSpec => RefImplementsMips`), with interrupts and without any bound on the program.

The strengthening says what each state may rely on. `FetchedByTheRules` carries the two rules
for software from the cycle that fetched an instruction to the one that executes it;
`Dispatched` says which instructions can be in which state, so that a state's
default case is never taken by another's instruction; `SlotHasTarget` that a delay slot has a
`delayed_pc`, and `BRANCH` a new PC; `MemoryArgs` that the arguments of a load or store still
are its address and data, and that what is in flight is that request; `RightException` that the code and the
delay-slot bit in `EXCEPTION` are those the instruction raises. Without the last two, the
refinement is not inductive: the architecture executes a load in one step from the
registers, and the CPU from arguments written up to three states earlier.
`RefRefinement` has one lemma per action that executes something; the other steps are stutters.

`UnitProofs`: `PipeImplementsFifo` (`PipeSpec => IsFifo`). The invariant is that something is
buffered only behind a valid output, and that the data wires are zero without an item.

`ReadsAreRight`. For each backend the invariant says where the word is:
in the register, in the bank of the address's owner, or in the sum of the banks. One lemma per
backend shows that a cycle keeps it, with a case for which ports write the address; only the
last of them may change the sum.

`PeripheralsKeepOrder`. `OneAccess` is what the order of characters rests on: `CBusDevice` passes an idle cycle between two
transactions, so that a store's context has gone through `sync` before the next access writes its own. With it, `Received` says that the
character announced to the program is still at the head of the queue when it is taken, although the
terminal's thread pushes between any two steps; `Transmitted` that a character stored is on the terminal or in exactly one of the
two contexts; `Monitored` that the monitor is at most one number behind; `Committed` that
a store to a register is done before a load can come.

`RunnerTyped`, `RunnerVerdict`. The strengthening has five parts. `MasterInv` says
where the master is. `CountInv` counts: the workers told to exit and those listened to are all
workers, and `passed` with the workers listened to that have asked before makes `dispatched`, so
that `passed` has caught up when nobody is listened to. `WorkerInv` ties a worker to what its two pipes hold, `TestInv`
says that a test dispatched and not ended is in one order pipe or runs in one worker, and `ReapInv`
how far the reaping is. The proof has one lemma per action.

`DBusProofs`: `DataSideInOrder`, `PortTargetInOrder` (cached and uncached loads return the words last stored, in program
order). The cache's part is taken from the lemmas of `CacheSystemProofs`, one action
at a time; `RequestsAssumption`, which is about the client of `CacheSystem`, is not used. `SideInv` says that the
transaction on the bus belongs to the side selected and that the cache is IDLE while kseg1 is, so that the
other side, which runs on with zeros, does nothing; `LinesAreCached` that no word of kseg1 is ever in a line, so that
an uncached store leaves nothing stale behind; `ProgramView` that the program's memory is what cache and
device hold between them.

`PipelineInOrder`, `BufferTargetInOrder` (the one-line buffer answers the pipelined driver in order, with the right word). `OneBurst`
counts the words of a burst that goes round the line (`Distance`), `LineAgrees` says which words of the line and of
memory are equal meanwhile, `QueuesFollow` that at most one task is accepted and not answered.
The last part is about the future: `Foreseen` says that every task in the two queues carries the word that will be there when its turn
comes, and that `expected` is what memory becomes when all are done. It is stated without recursion over the queue: byte by
byte, the last task before it that writes the byte has left it (`LeftBy`). A task submitted at
the end, and one answered at the head, keep it (`ForeseenAppend`, `ForeseenTail`), and it makes every answer the expected one.

`MultProofs`: `ResultsAreRight` (`MultSpec => []ResultCorrect`), `MultTyped`, for words of any even width. A
multiplication at work holds its four partial products (`Multiplying`), and `ProductLemma` adds them up. For the divider
`Divided` says where restoring division stands: with e values of the dividend still to come, the part before
them is quotient times divisor plus remainder, the remainder is in the high word of `p`, and the rest of the dividend and
the quotient found so far share the low one. `DivisionGoesOn` is one step of that, with the bound that keeps the shift from losing a bit: the
remainder is never larger than the part of the dividend divided. `Dividing` ties it to the one-hot count. The
signs are `SignedProduct` and `SignedDivision`. That a word is two halves, and the count a power of two, needs an
induction over the width: it is made with `SetInduction`, which takes a set of numbers and not an operator, from the library's
theorem that every set of numbers has a least one; the recursion of `Power` is justified the same way
(`PowerDefined`). `mult_killed` is outside: `MultSpec` has no action that takes an instruction out of E.

Only model-checked:

- Everything under fairness (`AnswersEveryRequest`, `DataServed`, `FetchServed`, `Progress`, `InstructionsEnd`,
  `AlwaysDone`, `RunnerEnds`, `FenceReturns`): TLAPS has no ENABLED and no proof rules for liveness here.
- What lies outside `ProgramInScope`, and a multiplier whose instruction is killed, is refuted, not proved.

## 6. Not modelled

- Both caches over one memory: stores to code are not coherent with the instruction cache, by design.
- Count, Compare and the timer, what MTC0 writes to Status, Cause and EPC, BadVAddr; of the reference
  CPU also Status.ERL. The interrupt lines of the models are any, which includes the timer's.
- The reference CPU's `VTop.sv`, which as built is wires around the arbiter and the converter of
  `MemoryPath`.
- `SRAMTop.sv` and the SRAM converters, the fixed-latency interface of the first lab, which this
  core no longer expects. `CBusMultiplexer.sv` is superseded by the arbiter. `MyArbiter.sv` and the
  core files of the out-of-order prototype are empty.
- BRAM wrappers, Vivado projects, boot images and the course text hold no logic of the cores.
- The test bench's command line, tracing, trace comparison, memory cells, blocking bus driver and
  `ThreadWorker`, whose `stop` and assignment are used once at the end of a run only.

The modules cover the hand-written logic: the circuits of `src/source/mycpu`, `src/source/refcpu`,
`src/source/util` and `src/source/ooo`, and the test bench classes they meet. Most of the lines of
the repository are not that: two vendored C++ headers (`CLI11.hpp`, `nameof.hpp`) have nine
thousand lines, generated simulation sources (`xsim_2.c`) two and a half thousand, and the board
software (`src/vivado/test5/soft/perf_func`: CoreMark, a C library, register headers) most of the
rest. Models of those would say nothing about this system.

## 7. Where to go on

1. Proofs: every safety property and action property of the passing runs has its theorem. What
   liveness rests on could still be proved: that a measure goes down in every cycle that is served.
2. Count, Compare, Cause.TI and software writes to CP0, in both cores.
