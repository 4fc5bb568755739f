--------------------------------- MODULE Fifo ---------------------------------
(***************************************************************************)
(* What a pipeline register between two handshakes promises: a queue of at *)
(* most two items, whose outputs depend on the queue alone.  An item       *)
(* offered while there is room is taken, the first one leaves when the     *)
(* consumer is ready, and nothing else happens to them.                    *)
(***************************************************************************)
EXTENDS Naturals, Sequences

CONSTANTS
  Item,  \* what the data wires may carry
  None   \* what they carry when there is nothing to carry

VARIABLES
  ports,  \* the inputs at the coming clock edge
  queue,
  shown   \* the outputs before that edge

fifoVars == <<ports, queue, shown>>

Ports == [resetn: BOOLEAN, valid: BOOLEAN, data: Item, ready: BOOLEAN]

Shown(q) == [ready_in  |-> Len(q) < 2,
             valid_out |-> q # <<>>,
             data_out  |-> IF q = <<>> THEN None ELSE q[1]]

FifoInit == ports \in Ports /\ queue = <<>> /\ shown = Shown(<<>>)

Left  == IF queue # <<>> /\ ports.ready THEN Tail(queue) ELSE queue
Taken == IF ports.valid /\ Len(queue) < 2 THEN <<ports.data>> ELSE <<>>

FifoNext ==
  /\ queue' = IF ports.resetn THEN Left \o Taken ELSE <<>>
  /\ shown' = Shown(queue')
  /\ ports' \in Ports

FifoSpec == FifoInit /\ [][FifoNext]_fifoVars
===============================================================================
