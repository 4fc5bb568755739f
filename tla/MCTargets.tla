------------------------------ MODULE MCTargets -------------------------------
(***************************************************************************)
(* The smaller units, each alone.  Every one has a Verilator target or a   *)
(* part in one, and the Makefile builds one target at a time: `target`     *)
(* says which, and the other units keep their initial state, which is made *)
(* the same in all of their behaviours.                                    *)
(***************************************************************************)
EXTENDS TestRunner, Pipe, MultiPortRAM, DBusPipeline, DataPort, Confreg

VARIABLE target

targetVars == <<target, runnerVars, pipeVars, ramVars, bufferVars, devVars, driverVars,
                cacheVars, port, flat, answer, confregVars>>

\* Requests of the pipelined driver: loads of the words of one line, whole words stored
\* to one of them and parts to the other.
PipelineRequests ==
  {r \in DBusReq : r.tag = 0 /\
     \/ r.strobe = {} /\ r.data = ZeroWord
     \/ r.strobe = Lane /\ r.offset = 1 /\ \A l, k \in Lane : r.data[l] = r.data[k]
     \/ r.strobe = {1}  /\ r.offset = 0 /\ \A l, k \in Lane : r.data[l] = r.data[k]}

\* Loads and stores of whole words and of their parts, in two lines of one way and in a
\* line of kseg1.
PortRequests(tags) ==
  {r \in DBusReq : r.tag \in tags /\
     \/ r.strobe = {} /\ r.data = ZeroWord
     \/ r.strobe = Lane /\ r.data = ZeroWord /\ r.offset = 0
     \/ r.strobe = {1}  /\ r.data = [l \in Lane |-> 1]}

PortCached   == PortRequests({0, 1})
PortUncached == PortRequests({2})

-------------------------------------------------------------------------------
TargetsInit ==
  /\ target \in {"runner", "pipe", "ram", "buffer", "port", "confreg"}
  /\ RunnerInit
  /\ PipeInit
  /\ RAMInit
  /\ PortInit
  /\ PipelineInit
  /\ ConfregInit
  /\ target # "runner" => outcome = [t \in Test |-> "pass"]
  /\ target # "pipe" => wires = [resetn |-> FALSE, valid |-> FALSE, data |-> None, ready |-> FALSE]
  /\ target # "ram" => backend = "ff" /\ raddr = NoWrite.addr
  /\ target # "port" => ~port.valid /\ ~port.kseg1

RunnerTarget ==
  /\ target = "runner" /\ RunnerNext
  /\ UNCHANGED <<target, pipeVars, ramVars, bufferVars, devVars, driverVars, cacheVars, port, flat, answer, confregVars>>

PipeTarget ==
  /\ target = "pipe" /\ PipeNext
  /\ UNCHANGED <<target, runnerVars, ramVars, bufferVars, devVars, driverVars, cacheVars, port, flat, answer, confregVars>>

RAMTarget ==
  /\ target = "ram" /\ RAMNext
  /\ UNCHANGED <<target, runnerVars, pipeVars, bufferVars, devVars, driverVars, cacheVars, port, flat, answer, confregVars>>

BufferTarget ==
  /\ target = "buffer" /\ PipelineNext
  /\ UNCHANGED <<target, runnerVars, pipeVars, ramVars, cacheVars, port, flat, answer, confregVars>>

PortTarget ==
  /\ target = "port" /\ PortNext
  /\ UNCHANGED <<target, runnerVars, pipeVars, ramVars, bufferVars, driverVars, confregVars>>

ConfregTarget ==
  /\ target = "confreg" /\ ConfregNext
  /\ UNCHANGED <<target, runnerVars, pipeVars, ramVars, bufferVars, devVars, driverVars, cacheVars, port, flat, answer>>

TargetsNext ==
  RunnerTarget \/ PipeTarget \/ RAMTarget \/ BufferTarget \/ PortTarget \/ ConfregTarget

\* The fairness of each unit, where that unit is the target.
TargetsFairness ==
  /\ WF_runnerVars(target = "runner" /\ MasterStep)
  /\ \A j \in Worker : WF_runnerVars(target = "runner" /\ WorkerStep(j))
  /\ WF_pipelineVars(target = "buffer" /\ TickServed)
  /\ WF_pipelineVars(target = "buffer" /\ FenceEnd)

TargetsSpec == TargetsInit /\ [][TargetsNext]_targetVars /\ TargetsFairness

\* The one-line buffer and the data side of the core have the memory device in common, so
\* what each promises is asked of its own target.

\* The pipelined driver gets its answers in order, and no assertion fails.
BufferAnswersInOrder == target = "buffer" => AnswersInOrder

\* Cached and uncached loads return the words last stored, in program order.
PortLoadsInOrder == target = "port" => LoadsInProgramOrder

\* The master of the test runner ends with a verdict: whenever every test ends, and also
\* when some hang but one fails and a worker is left to run it.
RunnerEnds == target = "runner" /\ MustEnd => <>(pc = "done")
===============================================================================
