----------------------------- MODULE StupidBuffer -----------------------------
(***************************************************************************)
(* The one-line buffer of src/source/refcpu/StupidBuffer.sv: every request *)
(* fetches its line, from the requested word on and round, is served, and  *)
(* a store writes the line back in the same order.                         *)
(***************************************************************************)
EXTENDS CBus

VARIABLES
  phase,   \* the register `state`: "IDLE", "FETCH", "READY" or "FLUSH"
  held,    \* the register `req`
  cursor,  \* the register `offset`
  line     \* the LUTRAM

bufferVars == <<phase, held, cursor, line>>

BufferInit ==
  /\ phase = "IDLE"
  /\ held = [tag |-> 0, index |-> CHOOSE i \in Index : TRUE, offset |-> 0,
             strobe |-> {}, data |-> ZeroWord]
  /\ cursor = 0
  /\ line = [o \in Offset |-> ZeroWord]

AddrOk == phase = "IDLE"
DataOk == phase = "READY"
RData  == line[cursor]

BufferReq ==
  [valid |-> phase \in {"FETCH", "FLUSH"}, is_write |-> phase = "FLUSH",
   tag |-> held.tag, index |-> held.index, offset |-> held.offset,
   strobe |-> Lane, data |-> RData, len |-> LineLen]

-------------------------------------------------------------------------------
BufferIdle(valid, dreq) ==
  /\ phase = "IDLE"
  /\ IF valid THEN phase' = "FETCH" /\ held' = dreq /\ cursor' = dreq.offset
              ELSE UNCHANGED <<phase, held, cursor>>
  /\ UNCHANGED line

\* What is on the bus is written whether it is ready or not.
BufferFetch(resp) ==
  /\ phase = "FETCH"
  /\ line' = [line EXCEPT ![cursor] = resp.data]
  /\ IF resp.ready THEN /\ phase' = IF resp.last THEN "READY" ELSE "FETCH"
                        /\ cursor' = NextOffset(cursor)
                   ELSE UNCHANGED <<phase, cursor>>
  /\ UNCHANGED held

\* Slip: the line is never written back.
BufferReadyOnly ==
  /\ phase = "READY"
  /\ line' = [line EXCEPT ![cursor] = Merge(@, held.data, held.strobe)]
  /\ phase' = "IDLE"
  /\ UNCHANGED <<held, cursor>>

BufferReady ==
  /\ phase = "READY"
  /\ line' = [line EXCEPT ![cursor] = Merge(@, held.data, held.strobe)]
  /\ phase' = IF held.strobe # {} THEN "FLUSH" ELSE "IDLE"
  /\ UNCHANGED <<held, cursor>>

BufferFlush(resp) ==
  /\ phase = "FLUSH"
  /\ IF resp.ready THEN /\ phase' = IF resp.last THEN "IDLE" ELSE "FLUSH"
                        /\ cursor' = NextOffset(cursor)
                   ELSE UNCHANGED <<phase, cursor>>
  /\ UNCHANGED <<held, line>>

BufferCycle(valid, dreq, resp) ==
  BufferIdle(valid, dreq) \/ BufferFetch(resp) \/ BufferReady \/ BufferFlush(resp)
===============================================================================
