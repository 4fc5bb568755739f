------------------------------ MODULE TestRunner ------------------------------
(***************************************************************************)
(* The parallel test runner of src/verilate/source/testbench.cpp: a master *)
(* forks the workers, hands out the tests by number over one pair of pipes *)
(* per worker, and collects the workers at the end.                        *)
(*                                                                         *)
(* A request pipe holds at most the one character of a worker that waits   *)
(* for its order, an order pipe at most that order.  A test may pass, may  *)
(* abort its process, or may never end.                                    *)
(***************************************************************************)
EXTENDS Integers, FiniteSets

CONSTANTS NumWorkers, NumTests

ASSUME RunnerAssumption == NumWorkers \in Nat \ {0} /\ NumTests \in Nat

VARIABLES
  pc,          \* the master: "spawn", "select", "scan", "close", "reap" or "done"
  at,          \* the worker being spawned or reaped
  ready,       \* descriptors select has returned and the scan has not reached
  listening,   \* workers j with worker[j] >= 0
  first,       \* workers that have not asked yet
  dispatched, exited, passed, failed,
  mode,        \* the workers: "none", "ask", "wait", "run" or "dead"
  task,        \* the test a worker runs
  asked,       \* workers whose character is in the request pipe
  orders,      \* what the order pipe holds
  outcome,     \* what each test would do: "pass", "fail" or "hang"
  result       \* what each test has done: "none", "passed" or "failed"

masterVars == <<pc, at, ready, listening, first, dispatched, exited, passed, failed>>
workerVars == <<mode, task, asked, orders, result>>
runnerVars == <<masterVars, workerVars, outcome>>

Worker  == 0 .. NumWorkers - 1
Test    == 0 .. NumTests - 1
Quit    == -1
Nothing == -2

RunnerTypeOK ==
  /\ pc \in {"spawn", "select", "scan", "close", "reap", "done"}
  /\ at \in 0 .. NumWorkers
  /\ ready \subseteq Worker /\ listening \subseteq Worker
  /\ first \subseteq Worker /\ asked \subseteq Worker
  /\ dispatched \in 0 .. NumTests /\ exited \in Nat /\ passed \in Int
  /\ failed \in BOOLEAN
  /\ mode \in [Worker -> {"none", "ask", "wait", "run", "dead"}]
  /\ task \in [Worker -> Test \cup {Nothing}]
  /\ orders \in [Worker -> Test \cup {Quit, Nothing}]
  /\ outcome \in [Test -> {"pass", "fail", "hang"}]
  /\ result \in [Test -> {"none", "passed", "failed"}]

RunnerInit ==
  /\ pc = "spawn" /\ at = 0
  /\ ready = {} /\ listening = {} /\ first = Worker
  /\ dispatched = 0 /\ exited = 0 /\ passed = 0 /\ failed = FALSE
  /\ mode = [j \in Worker |-> "none"]
  /\ task = [j \in Worker |-> Nothing]
  /\ asked = {}
  /\ orders = [j \in Worker |-> Nothing]
  /\ outcome \in [Test -> {"pass", "fail", "hang"}]
  /\ result = [t \in Test |-> "none"]

-------------------------------------------------------------------------------
\* The master.

\* pipe, fork, and the parent's half of the descriptors.
Spawn ==
  /\ pc = "spawn"
  /\ mode' = [mode EXCEPT ![at] = "ask"]
  /\ listening' = listening \cup {at}
  /\ IF at + 1 < NumWorkers THEN pc' = pc /\ at' = at + 1 ELSE pc' = "select" /\ at' = 0
  /\ UNCHANGED <<ready, first, dispatched, exited, passed, failed, task, asked, orders, outcome, result>>

\* A descriptor is readable when a character waits in it, or at its end: only the
\* worker itself holds the other end of its request pipe.
Readable(j) == j \in asked \/ mode[j] = "dead"

Select ==
  /\ pc = "select"
  /\ ready' = {j \in listening : Readable(j)}
  /\ ready' # {}
  /\ pc' = "scan"
  /\ UNCHANGED <<at, listening, first, dispatched, exited, passed, failed, workerVars, outcome>>

\* The scan goes up the descriptors.
Scanned(j) == pc = "scan" /\ j \in ready /\ \A k \in ready : j <= k

\* The scan meets the end of a pipe: the worker has aborted, and the loop is left.
FindFailure(j) ==
  /\ Scanned(j) /\ j \notin asked
  /\ failed' = TRUE
  /\ ready' = {}
  /\ pc' = "close"
  /\ UNCHANGED <<at, listening, first, dispatched, exited, passed, workerVars, outcome>>

\* Slip: the first request of a worker counts as a test passed.
AnswerCountsFirst(j) ==
  LET more == dispatched < NumTests IN
  /\ Scanned(j) /\ j \in asked
  /\ asked' = asked \ {j}
  /\ first' = first \ {j}
  /\ passed' = passed + 1
  /\ orders' = [orders EXCEPT ![j] = IF more THEN dispatched ELSE Quit]
  /\ dispatched' = IF more THEN dispatched + 1 ELSE dispatched
  /\ listening' = IF more THEN listening ELSE listening \ {j}
  /\ exited' = IF more THEN exited ELSE exited + 1
  /\ ready' = ready \ {j}
  /\ pc' = IF ready' # {} THEN "scan" ELSE IF exited' < NumWorkers THEN "select" ELSE "close"
  /\ UNCHANGED <<at, failed, mode, task, outcome, result>>

\* The scan meets a request: the test before it has passed, the next is dispatched, or
\* the worker is told to exit and no longer listened to.
Answer(j) ==
  LET more == dispatched < NumTests IN
  /\ Scanned(j) /\ j \in asked
  /\ asked' = asked \ {j}
  /\ first' = first \ {j}
  /\ passed' = IF j \in first THEN passed ELSE passed + 1
  /\ orders' = [orders EXCEPT ![j] = IF more THEN dispatched ELSE Quit]
  /\ dispatched' = IF more THEN dispatched + 1 ELSE dispatched
  /\ listening' = IF more THEN listening ELSE listening \ {j}
  /\ exited' = IF more THEN exited ELSE exited + 1
  /\ ready' = ready \ {j}
  /\ pc' = IF ready' # {} THEN "scan" ELSE IF exited' < NumWorkers THEN "select" ELSE "close"
  /\ UNCHANGED <<at, failed, mode, task, outcome, result>>

\* The master's ends of the order pipes are closed.
CloseMasters ==
  /\ pc = "close"
  /\ pc' = "reap" /\ at' = 0
  /\ UNCHANGED <<ready, listening, first, dispatched, exited, passed, failed, workerVars, outcome>>

\* Slip: no worker is killed.
NeverKill == pc = "reap" /\ FALSE /\ UNCHANGED runnerVars

\* waitpid(WNOHANG) finds the worker alive after a failure: SIGKILL.
Kill ==
  /\ pc = "reap" /\ failed /\ mode[at] # "dead"
  /\ mode' = [mode EXCEPT ![at] = "dead"]
  /\ UNCHANGED <<masterVars, task, asked, orders, outcome, result>>

\* waitpid returns.
Reap ==
  /\ pc = "reap" /\ mode[at] = "dead"
  /\ IF at + 1 < NumWorkers THEN pc' = pc /\ at' = at + 1 ELSE pc' = "done" /\ at' = 0
  /\ UNCHANGED <<ready, listening, first, dispatched, exited, passed, failed, workerVars, outcome>>

MasterStep ==
  \/ Spawn \/ Select \/ CloseMasters \/ Kill \/ Reap
  \/ \E j \in Worker : FindFailure(j) \/ Answer(j)

-------------------------------------------------------------------------------
\* A worker.

Ask(j) ==
  /\ mode[j] = "ask"
  /\ asked' = asked \cup {j}
  /\ mode' = [mode EXCEPT ![j] = "wait"]
  /\ UNCHANGED <<masterVars, task, orders, outcome, result>>

\* Every worker forked later has inherited the master's end of this order pipe.
NoWriter(j) == pc \in {"reap", "done"} /\ \A k \in Worker : k > j => mode[k] = "dead"

\* The order is read; -1, or the end of the pipe, ends the worker.
Receive(j) ==
  /\ mode[j] = "wait"
  /\ orders[j] # Nothing \/ NoWriter(j)
  /\ mode' = [mode EXCEPT ![j] = IF orders[j] \in Test THEN "run" ELSE "dead"]
  /\ task' = IF orders[j] \in Test THEN [task EXCEPT ![j] = orders[j]] ELSE task
  /\ orders' = [orders EXCEPT ![j] = Nothing]
  /\ UNCHANGED <<masterVars, asked, outcome, result>>

\* The test passes and the next is asked for, or an assertion aborts the process.
Finish(j) ==
  LET t == task[j] IN
  /\ mode[j] = "run"
  /\ outcome[t] # "hang"
  /\ result' = [result EXCEPT ![t] = IF outcome[t] = "pass" THEN "passed" ELSE "failed"]
  /\ mode' = [mode EXCEPT ![j] = IF outcome[t] = "pass" THEN "ask" ELSE "dead"]
  /\ UNCHANGED <<masterVars, task, asked, orders, outcome>>

WorkerStep(j) == Ask(j) \/ Receive(j) \/ Finish(j)

RunnerNext == MasterStep \/ \E j \in Worker : WorkerStep(j)

RunnerSpec == RunnerInit /\ [][RunnerNext]_runnerVars

\* The operating system schedules every process.
RunnerFairness == WF_runnerVars(MasterStep) /\ \A j \in Worker : WF_runnerVars(WorkerStep(j))

-------------------------------------------------------------------------------
\* The verdict is right however the processes interleave: without a failure every test
\* has run and passed and has been counted once, a failure is reported only when a test
\* has failed, no process is left behind, and no test is run twice.
VerdictIsRight ==
  /\ \A j, k \in Worker :
       mode[j] = "run" /\ mode[k] = "run" /\ task[j] = task[k] => j = k
  /\ \A j \in Worker : mode[j] = "run" => result[task[j]] = "none"
  /\ failed => \E t \in Test : result[t] = "failed"
  /\ pc = "done" =>
       /\ \A j \in Worker : mode[j] = "dead"
       /\ ~failed => passed = NumTests /\ \A t \in Test : result[t] = "passed"

\* The run ends if every test does; and also when tests hang, as long as one of the
\* others fails and a worker is left to run it.
Hanging == {t \in Test : outcome[t] = "hang"}
MustEnd ==
  \/ Hanging = {}
  \/ Cardinality(Hanging) < NumWorkers /\ \E t \in Test : outcome[t] = "fail"
===============================================================================
