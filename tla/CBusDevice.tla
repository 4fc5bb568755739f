------------------------------ MODULE CBusDevice ------------------------------
(***************************************************************************)
(* The memory behind the cache bus, as the Verilator test bench drives it: *)
(* class CBusDevice of src/verilate/source/cbus_device.cpp, with the AXI   *)
(* transaction counter of src/verilate/include/axi.h.                      *)
(*                                                                         *)
(* A clock cycle of the device is eval_resp, eval_req and sync together.   *)
(* `enable`, drawn at random at the end of every cycle, only decides       *)
(* whether the next cycle does anything, so it is the choice between       *)
(* DeviceStall and the other two actions.                                  *)
(***************************************************************************)
EXTENDS CBus

VARIABLES
  mem,  \* mem[tag][index][offset]: the memory's words
  tx    \* the transaction in progress

devVars == <<mem, tx>>

\* n is the number of the current beat, counted from 1 as in axi.h.
Transaction == [busy: BOOLEAN, is_write: BOOLEAN, tag: Tag, index: Index,
                start: Offset, addr: Offset, n: 1 .. LineLen, len: {1, LineLen}]

IdleTx == [busy |-> FALSE, is_write |-> FALSE, tag |-> 0, index |-> CHOOSE i \in Index : TRUE,
           start |-> 0, addr |-> 0, n |-> 1, len |-> 1]

DeviceTypeOK ==
  /\ mem \in [Tag -> [Index -> [Offset -> Word]]]
  /\ tx \in Transaction

DeviceInit ==
  /\ mem = [t \in Tag |-> [i \in Index |-> [o \in Offset |-> ZeroWord]]]
  /\ tx = IdleTx

TxLast == tx.n = tx.len

\* Slip: beats counted from 0, as in CBusToAXI.sv.
NewTxFromZero(creq) ==
  [busy |-> TRUE, is_write |-> creq.is_write, tag |-> creq.tag, index |-> creq.index,
   start |-> creq.offset, addr |-> creq.offset, n |-> 0, len |-> creq.len]

\* AXITransaction::init
NewTx(creq) ==
  [busy |-> TRUE, is_write |-> creq.is_write, tag |-> creq.tag, index |-> creq.index,
   start |-> creq.offset, addr |-> creq.offset, n |-> 1, len |-> creq.len]

\* AXITransaction::sync: a one-word transaction never reaches it.
NextTx == [tx EXCEPT !.n = @ + 1, !.addr = NextOffset(@)]

\* The device is disabled in this cycle: no response, whatever the bus carries.
DeviceStall(resp) ==
  /\ ~resp.ready /\ ~resp.last
  /\ UNCHANGED devVars

\* No transaction in progress: a valid request starts one, answered from the next cycle on.
DeviceStart(creq, resp) ==
  /\ ~tx.busy
  /\ creq.valid
  /\ ~resp.ready /\ ~resp.last
  /\ tx' = NewTx(creq)
  /\ UNCHANGED mem

\* One beat: the addressed word is returned, or replaced under the strobe.
DeviceBeat(creq, resp) ==
  /\ tx.busy
  /\ resp.ready
  /\ resp.last = TxLast
  /\ ~tx.is_write => resp.data = mem[tx.tag][tx.index][tx.addr]
  /\ mem' = IF tx.is_write
            THEN [mem EXCEPT ![tx.tag][tx.index][tx.addr] = Merge(@, creq.data, creq.strobe)]
            ELSE mem
  /\ tx' = IF TxLast THEN IdleTx ELSE NextTx

\* eval_resp: the data wires are zero unless a word is read.
RespWires(resp) == (resp.ready /\ ~tx.is_write) \/ resp.data = ZeroWord

DeviceEnabled(creq, resp) == DeviceStart(creq, resp) \/ DeviceBeat(creq, resp)

DeviceCycle(creq, resp) == DeviceStall(resp) \/ DeviceEnabled(creq, resp)

\* The assertions of eval_req: a request is held, with its attributes, until its last beat.
DeviceAsserts(creq) ==
  tx.busy =>
    /\ creq.valid
    /\ creq.is_write = tx.is_write
    /\ <<creq.tag, creq.index, creq.offset>> = <<tx.tag, tx.index, tx.start>>
    /\ creq.len = tx.len
===============================================================================
