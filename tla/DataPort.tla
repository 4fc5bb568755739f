------------------------------- MODULE DataPort -------------------------------
(***************************************************************************)
(* The data side of src/source/mycpu/VTop.sv: the address the core drives  *)
(* selects, in every cycle, between the data cache and DBusToCBus, which   *)
(* takes the accesses of kseg1 to the bus as they are.  Behind them is the *)
(* memory device; the cycles the bus arbiter gives to the instruction side *)
(* are cycles of the device without an answer.                             *)
(*                                                                         *)
(* The core holds a request until data_ok, and then gives any other, or    *)
(* the same once more, which is more than the pipeline does.  Without a    *)
(* request its address is any.  Software keeps the tags it reaches through *)
(* the two segments apart.                                                 *)
(***************************************************************************)
EXTENDS DCache, CBusDevice

CONSTANTS
  CachedRequests,   \* physical addresses, reached through kuseg and kseg0
  UncachedRequests  \* physical addresses, reached through kseg1

ASSUME PortAssumption ==
  /\ CachedRequests \cup UncachedRequests \subseteq DBusReq
  /\ \A c \in CachedRequests, u \in UncachedRequests : c.tag # u.tag

VARIABLES
  port,   \* dreq: the physical request, and whether its address is in kseg1
  flat,   \* memory as the program has written it
  answer  \* the word the last edge returned, and the one the program expects

portVars == <<cacheVars, devVars, port, flat, answer>>

Ports ==
  [valid: {TRUE}, kseg1: {FALSE}, req: CachedRequests]
    \cup [valid: {TRUE}, kseg1: {TRUE}, req: UncachedRequests]
    \cup [valid: {FALSE}, kseg1: BOOLEAN, req: {CHOOSE r \in CachedRequests : TRUE}]

NoAnswer == [data |-> ZeroWord, expect |-> ZeroWord]

PortInit ==
  /\ CacheInit /\ DeviceInit
  /\ port \in Ports
  /\ flat = mem
  /\ answer = NoAnswer

-------------------------------------------------------------------------------
\* Slip: only a full word is a write.
UncachedReqFullWord ==
  [valid |-> port.valid, is_write |-> port.req.strobe = Lane,
   tag |-> port.req.tag, index |-> port.req.index, offset |-> port.req.offset,
   strobe |-> port.req.strobe, data |-> port.req.data, len |-> 1]

\* DBusToCBus.
UncachedReq ==
  [valid |-> port.valid, is_write |-> port.req.strobe # {},
   tag |-> port.req.tag, index |-> port.req.index, offset |-> port.req.offset,
   strobe |-> port.req.strobe, data |-> port.req.data, len |-> 1]

\* The side that is not selected sees zeros, and runs on.
PortCacheCycle(resp) ==
  LET seen  == IF port.kseg1 THEN [ready |-> FALSE, last |-> FALSE, data |-> ZeroWord] ELSE resp
      given == port.valid /\ ~port.kseg1
  IN \/ given /\ Accept(port.req)
     \/ ~given /\ state = "IDLE" /\ UNCHANGED cacheVars
     \/ Flush(seen) \/ Fetch(seen) \/ Serve

PortReq == IF port.kseg1 THEN UncachedReq ELSE dcreq

DataOkay(resp) == IF port.kseg1 THEN resp.ready /\ resp.last ELSE dresp.data_ok

PortData(resp) == IF port.kseg1 THEN resp.data ELSE dresp.data

\* What the program sees of an access that is done.
Done(resp) ==
  LET r == port.req IN
  /\ flat' = [flat EXCEPT ![r.tag][r.index][r.offset] = Merge(@, r.data, r.strobe)]
  /\ answer' = IF r.strobe = {} THEN [data |-> PortData(resp), expect |-> flat[r.tag][r.index][r.offset]]
                                ELSE NoAnswer
  /\ port' \in Ports

Waiting == answer' = NoAnswer /\ UNCHANGED <<port, flat>>
Unused  == answer' = NoAnswer /\ UNCHANGED flat /\ port' \in Ports

PortCycle(resp) ==
  /\ RespWires(resp)
  /\ DeviceCycle(PortReq, resp)
  /\ PortCacheCycle(resp)
  /\ IF ~port.valid THEN Unused ELSE IF DataOkay(resp) THEN Done(resp) ELSE Waiting

PortNext == \E resp \in CBusResp : PortCycle(resp)

PortSpec == PortInit /\ [][PortNext]_portVars

-------------------------------------------------------------------------------
\* Cached and uncached accesses stay in program order: a load returns what the last store
\* to its word wrote, whichever way it went and whatever was evicted since, and neither
\* side is cut off by the other in the middle of a transaction.
LoadsInProgramOrder == answer.data = answer.expect /\ DeviceAsserts(PortReq)
===============================================================================
