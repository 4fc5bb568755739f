----------------------------- MODULE DBusPipeline -----------------------------
(***************************************************************************)
(* VCacheTop of the reference CPU under the pipelined bus driver of its    *)
(* tests: class DBusPipelineGen of src/verilate/include/bus.h, which puts  *)
(* the next request on the bus before the last one is answered, over the   *)
(* one-line buffer and the memory device.                                  *)
(*                                                                         *)
(* A test calls expect and store with the words a memory would hold at     *)
(* that point of the test, and fence.  MaxTasks bounds the driver's        *)
(* queues.                                                                 *)
(***************************************************************************)
EXTENDS StupidBuffer, CBusDevice, Sequences

CONSTANTS TestRequests, MaxTasks

ASSUME DriverAssumption == TestRequests \subseteq DBusReq

VARIABLES
  bus,      \* the request on the DBus, and its valid wire
  pending,  \* tasks whose address is not accepted
  ongoing,  \* tasks accepted and not answered
  fencing,  \* the test is in fence
  expected  \* the memory as the test knows it

driverVars   == <<bus, pending, ongoing, fencing, expected>>
pipelineVars == <<bufferVars, devVars, driverVars>>

PipelineInit ==
  /\ BufferInit /\ DeviceInit
  /\ bus = [valid |-> FALSE, req |-> held]
  /\ pending = <<>> /\ ongoing = <<>>
  /\ fencing = FALSE
  /\ expected = mem

Issue(t) == [valid |-> TRUE, req |-> t.req]

\* Driver calls that take no time: a store, or a load with the word it must return.
Submit(r) ==
  LET t == [req |-> r, data |-> expected[r.tag][r.index][r.offset]] IN
  /\ ~fencing
  /\ Len(pending) + Len(ongoing) < MaxTasks
  /\ pending' = Append(pending, t)
  /\ bus' = IF bus.valid THEN bus ELSE Issue(t)
  /\ expected' = [expected EXCEPT ![r.tag][r.index][r.offset] = Merge(@, r.data, r.strobe)]
  /\ UNCHANGED <<bufferVars, devVars, ongoing, fencing>>

Fence ==
  /\ ~fencing
  /\ fencing' = TRUE
  /\ UNCHANGED <<bufferVars, devVars, bus, pending, ongoing, expected>>

\* The loop of fence ends.
FenceEnd ==
  /\ fencing /\ pending = <<>> /\ ongoing = <<>>
  /\ fencing' = FALSE
  /\ UNCHANGED <<bufferVars, devVars, bus, pending, ongoing, expected>>

\* Slip: after a request is accepted nothing is issued until the test calls again.
QueuesWait ==
  LET accepted == AddrOk /\ bus.valid
      waiting  == IF accepted THEN Tail(pending) ELSE pending
      going    == IF accepted THEN Append(ongoing, Head(pending)) ELSE ongoing
  IN /\ pending' = waiting
     /\ ongoing' = IF DataOk THEN Tail(going) ELSE going
     /\ bus' = IF accepted THEN [bus EXCEPT !.valid = FALSE] ELSE bus

\* What tick does with the wires it read before the clock edge.
Queues ==
  LET accepted == AddrOk /\ bus.valid
      waiting  == IF accepted THEN Tail(pending) ELSE pending
      going    == IF accepted THEN Append(ongoing, Head(pending)) ELSE ongoing
  IN /\ pending' = waiting
     /\ ongoing' = IF DataOk THEN Tail(going) ELSE going
     /\ bus' = IF waiting = <<>> THEN [bus EXCEPT !.valid = FALSE] ELSE Issue(Head(waiting))

Tick(resp) ==
  /\ RespWires(resp)
  /\ DeviceCycle(BufferReq, resp)
  /\ BufferCycle(bus.valid, bus.req, resp)
  /\ Queues
  /\ UNCHANGED <<fencing, expected>>

PipelineNext ==
  \/ \E r \in TestRequests : Submit(r)
  \/ Fence \/ FenceEnd
  \/ \E resp \in CBusResp : Tick(resp)

PipelineSpec == PipelineInit /\ [][PipelineNext]_pipelineVars

\* The test goes on, and the device is enabled infinitely often (p_disable < 1).
TickServed == \E resp \in CBusResp :
  Tick(resp) /\ (BufferReq.valid => DeviceEnabled(BufferReq, resp))

-------------------------------------------------------------------------------
\* Every assertion of the driver, of the device and of the test holds: the queues are not
\* empty when a handshake happens, the request on the bus is the first that waits, a load
\* answers its own task with the word that the requests before it, and no later one, left
\* in memory, and no request changes during its burst.
AnswersInOrder ==
  /\ bus.valid <=> pending # <<>>
  /\ bus.valid => bus.req = Head(pending).req
  /\ DataOk => /\ ongoing # <<>>
               /\ Head(ongoing).req.strobe = {} => RData = Head(ongoing).data
  /\ DeviceAsserts(BufferReq)

\* A fence returns, and the test goes on: every request put in the queues is issued, accepted
\* and answered.
FenceReturns == fencing ~> ~fencing
===============================================================================
