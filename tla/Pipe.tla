--------------------------------- MODULE Pipe ---------------------------------
(***************************************************************************)
(* The skid buffer of src/source/ooo/src/util/Pipe.sv, with the inputs its *)
(* bench (src/verilate/source/ooo/VPipe/tests.cpp) may give it: any, in    *)
(* any cycle.  A step is a clock edge; the wires are drawn for the next.   *)
(***************************************************************************)
EXTENDS Naturals, Sequences

CONSTANTS
  Item,  \* data_t
  None   \* its zero

ASSUME PipeAssumption == None \in Item

VARIABLES
  wires,   \* resetn, valid_in, data_in and ready_out at the coming edge
  empty,   \* nothing in the buffer; also the output ready_in
  buffer,  \* the item that came while the output was taken
  output   \* the registered outputs valid_out and data_out

pipeVars == <<wires, empty, buffer, output>>

Pack  == [valid: BOOLEAN, data: Item]
Wires == [resetn: BOOLEAN, valid: BOOLEAN, data: Item, ready: BOOLEAN]

Zero == [valid |-> FALSE, data |-> None]

PipeInit == wires \in Wires /\ empty = TRUE /\ buffer = Zero /\ output = Zero

In == [valid |-> wires.valid, data |-> IF wires.valid THEN wires.data ELSE None]

\* Slip: the buffered item is overtaken.
ForwardedInput == In

Forwarded == IF empty THEN In ELSE buffer

PipeReset ==
  /\ ~wires.resetn
  /\ empty' = TRUE /\ buffer' = Zero /\ output' = Zero

\* The output is free, or leaves in this cycle.
PipeForward ==
  /\ wires.resetn
  /\ ~output.valid \/ wires.ready
  /\ output' = Forwarded
  /\ empty' = TRUE
  /\ UNCHANGED buffer

PipeKeep ==
  /\ wires.resetn
  /\ output.valid /\ ~wires.ready
  /\ wires.valid /\ empty
  /\ buffer' = In
  /\ empty' = FALSE
  /\ UNCHANGED output

PipeStall ==
  /\ wires.resetn
  /\ output.valid /\ ~wires.ready
  /\ ~(wires.valid /\ empty)
  /\ UNCHANGED <<empty, buffer, output>>

PipeNext == (PipeReset \/ PipeForward \/ PipeKeep \/ PipeStall) /\ wires' \in Wires

PipeSpec == PipeInit /\ [][PipeNext]_pipeVars

-------------------------------------------------------------------------------
\* The items held, oldest first, and the outputs.
Queue == (IF output.valid THEN <<output.data>> ELSE <<>>)
         \o (IF empty THEN <<>> ELSE <<buffer.data>>)

Outputs == [ready_in |-> empty, valid_out |-> output.valid, data_out |-> output.data]

Abstract == INSTANCE Fifo WITH ports <- wires, queue <- Queue, shown <- Outputs

\* Whatever the inputs, the buffer is a queue of two items: nothing accepted is lost,
\* repeated or overtaken, ready_in is right about the room, and the data wires are zero
\* when there is no item (the bench's `check`).
IsFifo == Abstract!FifoSpec
===============================================================================
