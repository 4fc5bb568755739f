------------------------------ MODULE UnitProofs ------------------------------
(***************************************************************************)
(* Proofs about four of the smaller units: the skid buffer implements the  *)
(* queue of two items, for every type of item; the three memories with     *)
(* several write ports read like one memory, for every set of addresses;   *)
(* the simulator's peripherals pass every character once and in order, for *)
(* every number of characters; and the verdict of the test runner is right *)
(* for every number of workers and of tests, whatever each test does.      *)
(***************************************************************************)
EXTENDS Pipe, MultiPortRAM, Confreg, TestRunner, SequenceTheorems, FiniteSetTheorems, TLAPS

-------------------------------------------------------------------------------
\* The buffer holds an item only behind a valid output, and the wires of an output that is
\* not valid are zero.
PipeInv ==
  /\ wires \in Wires
  /\ empty \in BOOLEAN /\ buffer \in Pack /\ output \in Pack
  /\ ~output.valid => empty /\ output = Zero
  /\ ~empty => buffer.valid

\* Both buffers are empty after reset.
LEMMA PipeInitInv == PipeInit => PipeInv
BY PipeAssumption DEF PipeInit, PipeInv, Pack, Zero

\* Every edge keeps what is between the buffers in order.
LEMMA PipeStepInv == PipeInv /\ [PipeNext]_pipeVars => PipeInv'
<1> SUFFICES ASSUME PipeInv, [PipeNext]_pipeVars PROVE PipeInv'
  OBVIOUS
<1>1. In \in Pack /\ (~In.valid => In = Zero)
  BY PipeAssumption DEF PipeInv, In, Pack, Zero, Wires
<1>2. Zero \in Pack /\ ~Zero.valid
  BY PipeAssumption DEF Zero, Pack
<1>3. CASE PipeReset /\ wires' \in Wires
  BY <1>2, <1>3 DEF PipeInv, PipeReset
<1>4. CASE PipeForward /\ wires' \in Wires
  BY <1>1, <1>4 DEF PipeInv, PipeForward, Forwarded
<1>5. CASE PipeKeep /\ wires' \in Wires
  BY <1>1, <1>5 DEF PipeInv, PipeKeep, In
<1>6. CASE PipeStall /\ wires' \in Wires
  BY <1>6 DEF PipeInv, PipeStall
<1>7. CASE UNCHANGED pipeVars
  BY <1>7 DEF PipeInv, pipeVars
<1> QED BY <1>3, <1>4, <1>5, <1>6, <1>7 DEF PipeNext

\* Two buffered items are a sequence of two.
LEMMA PairIsConcat ==
  ASSUME NEW x \in Item, NEW y \in Item PROVE <<x>> \o <<y>> = <<x, y>>
<1>1. <<x>> \in Seq(Item) /\ <<y>> \in Seq(Item) /\ <<x, y>> \in Seq(Item)
  OBVIOUS
<1>2. /\ <<x>> \o <<y>> \in Seq(Item) /\ Len(<<x>> \o <<y>>) = 2
      /\ (<<x>> \o <<y>>)[1] = x /\ (<<x>> \o <<y>>)[2] = y
  BY <1>1
<1>3. \A i \in 1 .. 2 : (<<x>> \o <<y>>)[i] = <<x, y>>[i]
  BY <1>2
<1> QED BY <1>1, <1>2, <1>3, SeqEqual

\* The outputs of each of the three shapes.
LEMMA ShownOf ==
  /\ Abstract!Shown(<<>>) = [ready_in |-> TRUE, valid_out |-> FALSE, data_out |-> None]
  /\ \A x : Abstract!Shown(<<x>>) = [ready_in |-> TRUE, valid_out |-> TRUE, data_out |-> x]
  /\ \A x, y : Abstract!Shown(<<x, y>>) = [ready_in |-> FALSE, valid_out |-> TRUE, data_out |-> x]
<1>1. (Len(<<>>) < 2) = TRUE /\ (<<>> # <<>>) = FALSE
  OBVIOUS
<1>2. ASSUME NEW x
      PROVE  (Len(<<x>>) < 2) = TRUE /\ (<<x>> # <<>>) = TRUE /\ <<x>>[1] = x
  OBVIOUS
<1>3. ASSUME NEW x, NEW y
      PROVE  (Len(<<x, y>>) < 2) = FALSE /\ (<<x, y>> # <<>>) = TRUE /\ <<x, y>>[1] = x
  OBVIOUS
<1>4. Abstract!Shown(<<>>) = [ready_in |-> TRUE, valid_out |-> FALSE, data_out |-> None]
  BY <1>1, Zenon DEF Abstract!Shown
<1>5. ASSUME NEW x
      PROVE  Abstract!Shown(<<x>>) = [ready_in |-> TRUE, valid_out |-> TRUE, data_out |-> x]
  BY <1>2, Zenon DEF Abstract!Shown
<1>6. ASSUME NEW x, NEW y
      PROVE  Abstract!Shown(<<x, y>>) = [ready_in |-> FALSE, valid_out |-> TRUE, data_out |-> x]
  BY <1>3, Zenon DEF Abstract!Shown
<1> QED BY <1>4, <1>5, <1>6

\* The queue has one of three shapes.
Shape ==
  /\ ~output.valid => Queue = <<>>
  /\ output.valid /\ empty => Queue = <<output.data>>
  /\ output.valid /\ ~empty => Queue = <<output.data, buffer.data>>

\* What the buffers hold is one of the sequences of at most two items.
LEMMA QueueShape == PipeInv => Shape
<1> SUFFICES ASSUME PipeInv PROVE Shape
  OBVIOUS
<1>1. CASE ~output.valid
  BY <1>1 DEF PipeInv, Queue, Shape
<1>2. CASE output.valid /\ empty
  BY <1>2 DEF PipeInv, Queue, Shape
<1>3. CASE output.valid /\ ~empty
  <2>1. Queue = <<output.data>> \o <<buffer.data>>
    BY <1>3 DEF Queue
  <2>2. output.data \in Item /\ buffer.data \in Item
    BY DEF PipeInv, Pack
  <2>3. Queue = <<output.data, buffer.data>>
    BY <2>1, <2>2, PairIsConcat
  <2> QED BY <1>3, <2>3 DEF Shape
<1> QED BY <1>1, <1>2, <1>3 DEF PipeInv

\* The outputs say what the queue holds.
ShowsQueue == Outputs = Abstract!Shown(Queue)

\* The output wires show the oldest item.
LEMMA PipeShown == PipeInv => ShowsQueue
<1> SUFFICES ASSUME PipeInv PROVE ShowsQueue
  OBVIOUS
<1>1. CASE ~output.valid
  <2>1. Queue = <<>> /\ empty = TRUE /\ output.data = None /\ output.valid = FALSE
    BY <1>1, QueueShape DEF PipeInv, Shape, Zero
  <2>2. Outputs = [ready_in |-> TRUE, valid_out |-> FALSE, data_out |-> None]
    BY <2>1 DEF Outputs
  <2> QED BY <2>1, <2>2, ShownOf DEF ShowsQueue
<1>2. CASE output.valid /\ empty
  <2>1. Queue = <<output.data>> /\ empty = TRUE /\ output.valid = TRUE
    BY <1>2, QueueShape DEF PipeInv, Pack, Shape
  <2>2. Outputs = [ready_in |-> TRUE, valid_out |-> TRUE, data_out |-> output.data]
    BY <2>1 DEF Outputs
  <2> QED BY <2>1, <2>2, ShownOf DEF ShowsQueue
<1>3. CASE output.valid /\ ~empty
  <2>1. Queue = <<output.data, buffer.data>> /\ empty = FALSE /\ output.valid = TRUE
    BY <1>3, QueueShape DEF PipeInv, Pack, Shape
  <2>2. Outputs = [ready_in |-> FALSE, valid_out |-> TRUE, data_out |-> output.data]
    BY <2>1 DEF Outputs
  <2> QED BY <2>1, <2>2, ShownOf DEF ShowsQueue
<1> QED BY <1>1, <1>2, <1>3 DEF PipeInv

\* A clock edge of the buffer is one of the queue.
LEMMA PipeStep ==
  ASSUME PipeInv, PipeInv', PipeNext
  PROVE  Queue' = IF wires.resetn THEN Abstract!Left \o Abstract!Taken ELSE <<>>
<1>1. /\ ~output'.valid => Queue' = <<>>
      /\ output'.valid /\ empty' => Queue' = <<output'.data>>
      /\ output'.valid /\ ~empty' => Queue' = <<output'.data, buffer'.data>>
  <2>1. Shape'
    BY QueueShape, PTL
  <2> QED BY <2>1 DEF Shape
<1>2. CASE PipeReset
  BY <1>1, <1>2 DEF PipeReset, Zero
<1>3. ASSUME wires.resetn, ~output.valid PROVE Queue' = Abstract!Left \o Abstract!Taken
  <2>1. Queue = <<>> /\ Abstract!Left = <<>> /\ empty
    BY <1>3, QueueShape DEF Abstract!Left, PipeInv, Shape
  <2>2. output' = In /\ empty' = TRUE
    BY <1>3, <2>1 DEF PipeNext, PipeReset, PipeForward, PipeKeep, PipeStall, Forwarded
  <2>3. Abstract!Taken = IF wires.valid THEN <<wires.data>> ELSE <<>>
    BY <2>1 DEF Abstract!Taken
  <2> QED BY <1>1, <2>1, <2>2, <2>3 DEF In
<1>4. ASSUME wires.resetn, output.valid, empty PROVE Queue' = Abstract!Left \o Abstract!Taken
  <2>1. Queue = <<output.data>>
    BY <1>4, QueueShape DEF Shape
  <2>2. Abstract!Left = IF wires.ready THEN <<>> ELSE <<output.data>>
    BY <2>1 DEF Abstract!Left
  <2>3. Abstract!Taken = IF wires.valid THEN <<wires.data>> ELSE <<>>
    BY <2>1 DEF Abstract!Taken
  <2>4. CASE wires.ready
    <3>1. output' = In /\ empty' = TRUE
      BY <1>4, <2>4 DEF PipeNext, PipeReset, PipeForward, PipeKeep, PipeStall, Forwarded
    <3>2. CASE wires.valid
      <4>1. Queue' = <<wires.data>> /\ Abstract!Left = <<>> /\ Abstract!Taken = <<wires.data>>
        BY <1>1, <2>2, <2>3, <2>4, <3>1, <3>2 DEF In
      <4> QED BY <4>1
    <3>3. CASE ~wires.valid
      <4>1. Queue' = <<>> /\ Abstract!Left = <<>> /\ Abstract!Taken = <<>>
        BY <1>1, <2>2, <2>3, <2>4, <3>1, <3>3 DEF In
      <4> QED BY <4>1
    <3> QED BY <3>2, <3>3
  <2>5. CASE ~wires.ready /\ wires.valid
    <3>1. output' = output /\ empty' = FALSE /\ buffer' = In
      BY <1>4, <2>5 DEF PipeNext, PipeReset, PipeForward, PipeKeep, PipeStall
    <3>2. buffer'.data = wires.data
      BY <2>5, <3>1 DEF In
    <3>3. output.data \in Item /\ wires.data \in Item
      BY DEF PipeInv, Pack, Wires
    <3>4. Queue' = <<output.data, wires.data>>
      BY <1>1, <1>4, <3>1, <3>2
    <3> QED BY <2>2, <2>3, <2>5, <3>3, <3>4, PairIsConcat
  <2>6. CASE ~wires.ready /\ ~wires.valid
    <3>1. output' = output /\ empty' = empty
      BY <1>4, <2>6 DEF PipeNext, PipeReset, PipeForward, PipeKeep, PipeStall
    <3> QED BY <1>1, <1>4, <2>2, <2>3, <2>6, <3>1
  <2> QED BY <2>4, <2>5, <2>6
<1>5. ASSUME wires.resetn, output.valid, ~empty PROVE Queue' = Abstract!Left \o Abstract!Taken
  <2>1. Queue = <<output.data, buffer.data>> /\ Len(Queue) = 2
    BY <1>5, QueueShape DEF Shape
  <2>2. Abstract!Left = (IF wires.ready THEN <<buffer.data>> ELSE <<output.data, buffer.data>>)
        /\ Abstract!Taken = <<>>
    BY <2>1 DEF Abstract!Left, Abstract!Taken
  <2>3. CASE wires.ready
    <3>1. output' = buffer /\ empty' = TRUE /\ buffer.valid
      BY <1>5, <2>3 DEF PipeNext, PipeReset, PipeForward, PipeKeep, PipeStall, Forwarded, PipeInv
    <3> QED BY <1>1, <2>2, <2>3, <3>1
  <2>4. CASE ~wires.ready
    <3>1. output' = output /\ empty' = empty /\ buffer' = buffer
      BY <1>5, <2>4 DEF PipeNext, PipeReset, PipeForward, PipeKeep, PipeStall
    <3> QED BY <1>1, <1>5, <2>2, <2>4, <3>1
  <2> QED BY <2>3, <2>4
<1> QED BY <1>2, <1>3, <1>4, <1>5 DEF PipeNext, PipeReset, PipeForward, PipeKeep, PipeStall, PipeInv

\* The skid buffer is a queue of two items (src/source/ooo/src/util/Pipe.sv), for every type
\* of item and whatever the inputs are.
THEOREM PipeImplementsFifo == PipeSpec => IsFifo
<1>1. PipeInit => Abstract!FifoInit
  <2> SUFFICES ASSUME PipeInit PROVE Abstract!FifoInit
    OBVIOUS
  <2>1. Queue = <<>> /\ Outputs = Abstract!Shown(Queue)
    BY PipeInitInv, QueueShape, PipeShown DEF PipeInit, Zero, Shape, ShowsQueue
  <2> QED BY <2>1 DEF Abstract!FifoInit, Abstract!Ports, PipeInit, Wires
<1>2. PipeInv /\ PipeInv' /\ [PipeNext]_pipeVars => [Abstract!FifoNext]_(Abstract!fifoVars)
  <2> SUFFICES ASSUME PipeInv, PipeInv', [PipeNext]_pipeVars
               PROVE  Abstract!FifoNext \/ UNCHANGED Abstract!fifoVars
    OBVIOUS
  <2>1. CASE PipeNext
    <3>1. Outputs' = Abstract!Shown(Queue')
      <4>1. ShowsQueue'
        BY PipeShown, PTL
      <4> QED BY <4>1 DEF ShowsQueue, Abstract!Shown
    <3> QED BY <2>1, <3>1, PipeStep DEF Abstract!FifoNext, Abstract!Ports, PipeNext, Wires
  <2>2. CASE UNCHANGED pipeVars
    BY <2>2 DEF pipeVars, Abstract!fifoVars, Queue, Outputs
  <2> QED BY <2>1, <2>2
<1> QED BY <1>1, <1>2, PipeInitInv, PipeStepInv, PTL DEF PipeSpec, IsFifo, Abstract!FifoSpec

-------------------------------------------------------------------------------
Share3(a) == (bank[0][a] # bank[1][a]) # bank[2][a]

\* What each design holds of the word at an address.
RAMInv ==
  /\ backend \in {"ff", "lvt", "xor"}
  /\ raddr \in Address
  /\ reference \in [Address -> Bit]
  /\ owner \in [Address -> WPort]
  /\ bank \in [WPort -> [Address -> Bit]]
  /\ backend = "ff" => word = reference
  /\ backend = "lvt" => \A a \in Address : bank[owner[a]][a] = reference[a]
  /\ backend = "xor" => \A a \in Address : Share3(a) = reference[a]
  /\ rdata = reference[raddr]

\* The three write ports.
LEMMA Ports == WPort = {0, 1, 2}
BY DEF WPort

\* The last of the ports that write an address.
LEMMA LastWriter ==
  ASSUME NEW ports \in SUBSET WPort, ports # {}
  PROVE  LastOf(ports) \in ports /\ \A k \in ports : k <= LastOf(ports)
<1>1. \E i \in ports : \A k \in ports : k <= i
  <2>1. CASE 2 \in ports
    BY <2>1, Ports
  <2>2. CASE 2 \notin ports /\ 1 \in ports
    BY <2>2, Ports
  <2>3. CASE 2 \notin ports /\ 1 \notin ports
    <3>1. \A k \in ports : k = 0
      BY <2>3, Ports
    <3> QED BY <3>1
  <2> QED BY <2>1, <2>2, <2>3
<1> QED BY <1>1 DEF LastOf

\* Who writes an address is a set of write ports.
LEMMA WritersArePorts ==
  ASSUME NEW w, NEW a PROVE Writers(w, a) \in SUBSET WPort
BY DEF Writers

\* A write that is enabled has an address and a bit.
LEMMA WriteFields ==
  ASSUME NEW w \in [WPort -> Write], NEW i \in WPort, w[i].en
  PROVE  w[i].addr \in Address /\ w[i].data \in Bit
<1>1. NoWrite.en = FALSE
  BY DEF NoWrite
<1>2. w[i] \in Write
  OBVIOUS
<1> QED BY <1>1, <1>2 DEF Write

\* The reference after a cycle.
LEMMA ReferenceNext ==
  ASSUME NEW w \in [WPort -> Write], RAMInv, reference' = FFNext(reference, w)
  PROVE  /\ reference' \in [Address -> Bit]
         /\ \A a \in Address :
              /\ Writers(w, a) = {} => reference'[a] = reference[a]
              /\ Writers(w, a) # {} => reference'[a] = w[LastOf(Writers(w, a))].data
<1>1. \A a \in Address : Writers(w, a) # {} => w[LastOf(Writers(w, a))].data \in Bit
  BY LastWriter, WritersArePorts, WriteFields DEF Writers
<1> QED BY <1>1 DEF FFNext, RAMInv

\* A read corrected by BypassBuffer is right if what was read was right before the cycle,
\* or the address is written in it.
LEMMA BypassRight ==
  ASSUME NEW w \in [WPort -> Write], NEW ra \in Address, NEW data,
         RAMInv, reference' = FFNext(reference, w),
         Writers(w, ra) = {} => data = reference[ra]
  PROVE  Bypass(data, w, ra) = reference'[ra]
BY ReferenceNext DEF Bypass

\* The table of the last writers names a bank that holds the word.
LEMMA LVTKeeps ==
  ASSUME NEW w \in [WPort -> Write], NEW ra \in Address, RAMInv, backend = "lvt",
         LVTCycle(w, ra), reference' = FFNext(reference, w)
  PROVE  /\ owner' \in [Address -> WPort] /\ bank' \in [WPort -> [Address -> Bit]]
         /\ \A a \in Address : bank'[owner'[a]][a] = reference'[a]
         /\ rdata' = reference'[ra]
<1> DEFINE ids == [i \in WPort |-> [w[i] EXCEPT !.data = i]]
<1>1. ASSUME NEW i \in WPort
      PROVE  ids[i].en = w[i].en /\ ids[i].addr = w[i].addr /\ ids[i].data = i
  <2>1. w[i] = [en |-> w[i].en, addr |-> w[i].addr, data |-> w[i].data]
    <3>1. CASE w[i] = NoWrite
      BY <3>1 DEF NoWrite
    <3>2. CASE w[i] \in [en: {TRUE}, addr: Address, data: Bit]
      BY <3>2
    <3> QED BY <3>1, <3>2 DEF Write
  <2> QED BY <2>1
<1>2. \A a \in Address : Writers(ids, a) = Writers(w, a)
  BY <1>1 DEF Writers
<1>3. ASSUME NEW a \in Address
      PROVE  owner'[a] = IF Writers(w, a) = {} THEN owner[a] ELSE LastOf(Writers(w, a))
  <2>1. Writers(w, a) # {} => LastOf(Writers(w, a)) \in WPort
    BY LastWriter, WritersArePorts
  <2>2. Writers(w, a) # {} => ids[LastOf(Writers(w, a))].data = LastOf(Writers(w, a))
    BY <1>1, <2>1
  <2>3. owner' = FFNext(owner, ids)
    BY DEF LVTCycle
  <2> QED BY <1>2, <2>2, <2>3 DEF FFNext
<1>4. \A a \in Address : Writers(w, a) # {} => LastOf(Writers(w, a)) \in WPort
  BY LastWriter, WritersArePorts DEF Writers
<1>5. owner' \in [Address -> WPort]
  <2>1. owner' = [a \in Address |-> owner'[a]]
    BY DEF LVTCycle, FFNext
  <2>2. \A a \in Address : owner'[a] \in WPort
    BY <1>3, <1>4 DEF RAMInv
  <2> QED BY <2>1, <2>2
<1>6. bank' \in [WPort -> [Address -> Bit]]
  BY WriteFields DEF LVTCycle, RAMInv
<1>7. ASSUME NEW i \in WPort, NEW a \in Address
      PROVE  bank'[i][a] = IF i \in Writers(w, a) THEN w[i].data ELSE bank[i][a]
  BY WriteFields DEF LVTCycle, RAMInv, Writers
<1>8. ASSUME NEW a \in Address PROVE bank'[owner'[a]][a] = reference'[a]
  <2>1. CASE Writers(w, a) = {}
    BY <1>3, <1>7, <2>1, ReferenceNext DEF RAMInv
  <2>2. CASE Writers(w, a) # {}
    <3>1. LastOf(Writers(w, a)) \in Writers(w, a) /\ LastOf(Writers(w, a)) \in WPort
      BY <2>2, LastWriter, WritersArePorts DEF Writers
    <3> QED BY <1>3, <1>7, <2>2, <3>1, ReferenceNext
  <2> QED BY <2>1, <2>2
<1>9. rdata' = reference'[ra]
  <2>1. Writers(w, ra) = {} => bank[owner'[ra]][ra] = reference[ra]
    BY <1>3 DEF RAMInv
  <2> QED BY <2>1, BypassRight DEF LVTCycle
<1> QED BY <1>5, <1>6, <1>8, <1>9

\* At most one port changes its share of an address, and the sum becomes its word.
LEMMA XORKeeps ==
  ASSUME NEW w \in [WPort -> Write], NEW ra \in Address, RAMInv, backend = "xor",
         XORCycle(w, ra), reference' = FFNext(reference, w)
  PROVE  /\ bank' \in [WPort -> [Address -> Bit]]
         /\ \A a \in Address : Share3(a)' = reference'[a]
         /\ rdata' = reference'[ra]
<1>1. \A i \in WPort : Share(w, i) \in Bit
  BY DEF Share, Xor, Bit
<1>2. bank' \in [WPort -> [Address -> Bit]]
  BY <1>1, WriteFields DEF XORCycle, RAMInv, En
<1>3. ASSUME NEW i \in WPort, NEW a \in Address
      PROVE  bank'[i][a] = IF En(w, i) /\ w[i].addr = a THEN Share(w, i) ELSE bank[i][a]
  BY WriteFields DEF XORCycle, RAMInv, En
<1>4. ASSUME NEW a \in Address PROVE Share3(a)' = reference'[a]
  <2>1. CASE Writers(w, a) = {}
    <3>1. \A i \in WPort : bank'[i][a] = bank[i][a]
      BY <1>3, <2>1 DEF En, Writers
    <3> QED BY <2>1, <3>1, Ports, ReferenceNext DEF Share3, RAMInv
  <2>2. CASE Writers(w, a) # {}
    <3>1. PICK l \in WPort : /\ l = LastOf(Writers(w, a)) /\ l \in Writers(w, a)
                             /\ \A k \in Writers(w, a) : k <= l
      BY <2>2, LastWriter, WritersArePorts DEF Writers
    <3>2. reference'[a] = w[l].data /\ w[l].data \in Bit
      BY <2>2, <3>1, ReferenceNext, WriteFields DEF Writers
    <3>3. En(w, l) /\ w[l].addr = a
      BY <3>1, Ports DEF En, Writers
    <3>4. \A i \in WPort \ {l} : ~(En(w, i) /\ w[i].addr = a)
      BY <3>1, Ports DEF En, Writers
    <3>5. /\ bank'[l][a] = Share(w, l)
          /\ \A i \in WPort \ {l} : bank'[i][a] = bank[i][a]
      BY <1>3, <3>3, <3>4
    <3>6. bank[0][a] \in BOOLEAN /\ bank[1][a] \in BOOLEAN /\ bank[2][a] \in BOOLEAN
      BY Ports DEF RAMInv, Bit
    <3>7. CASE l = 0
      <4>1. Share(w, l) = ((w[l].data # bank[1][a]) # bank[2][a])
        BY <3>3, <3>7, Ports DEF Share, Xor
      <4> QED BY <3>2, <3>5, <3>6, <3>7, <4>1, Ports DEF Share3, Bit
    <3>8. CASE l = 1
      <4>1. Share(w, l) = ((bank[0][a] # w[l].data) # bank[2][a])
        BY <3>3, <3>8, Ports DEF Share, Xor
      <4> QED BY <3>2, <3>5, <3>6, <3>8, <4>1, Ports DEF Share3, Bit
    <3>9. CASE l = 2
      <4>1. Share(w, l) = ((bank[0][a] # bank[1][a]) # w[l].data)
        BY <3>3, <3>9, Ports DEF Share, Xor
      <4> QED BY <3>2, <3>5, <3>6, <3>9, <4>1, Ports DEF Share3, Bit
    <3> QED BY <3>7, <3>8, <3>9, Ports
  <2> QED BY <2>1, <2>2
<1>5. rdata' = reference'[ra]
  <2>1. Xor([j \in WPort |-> bank[j][ra]]) = Share3(ra)
    BY Ports DEF Xor, Share3
  <2> QED BY <2>1, BypassRight DEF XORCycle, RAMInv
<1> QED BY <1>2, <1>4, <1>5

\* Every backend begins with the words of the reference.
LEMMA RAMInitInv == RAMInit => RAMInv
<1> SUFFICES ASSUME RAMInit PROVE RAMInv
  OBVIOUS
<1>1. /\ reference \in [Address -> Bit] /\ owner \in [Address -> WPort]
      /\ bank \in [WPort -> [Address -> Bit]]
  BY Ports DEF RAMInit, Bit
<1>2. \A a \in Address : /\ reference[a] = FALSE /\ owner[a] = 0
                         /\ bank[0][a] = FALSE /\ bank[1][a] = FALSE /\ bank[2][a] = FALSE
  BY Ports DEF RAMInit
<1>3. \A a \in Address : Share3(a) = reference[a]
  BY <1>2 DEF Share3
<1> QED BY <1>1, <1>2, <1>3 DEF RAMInit, RAMInv

\* Every edge keeps the backend equal to the reference.
LEMMA RAMStepInv == RAMInv /\ [RAMNext]_ramVars => RAMInv'
<1> SUFFICES ASSUME RAMInv, [RAMNext]_ramVars PROVE RAMInv'
  OBVIOUS
<1>1. ASSUME NEW w \in [WPort -> Write], NEW ra \in Address, RAMCycle(w, ra) PROVE RAMInv'
  <2>1. /\ backend' = backend /\ raddr' = ra
        /\ reference' = FFNext(reference, w) /\ reference' \in [Address -> Bit]
    BY <1>1, ReferenceNext DEF RAMCycle
  <2>2. CASE backend = "ff"
    BY <1>1, <2>1, <2>2 DEF RAMCycle, FFCycle, RAMInv
  <2>3. CASE backend = "lvt"
    <3>1. LVTCycle(w, ra)
      BY <1>1, <2>3 DEF RAMCycle
    <3> QED BY <2>1, <2>3, <3>1, LVTKeeps DEF RAMInv
  <2>4. CASE backend = "xor"
    <3>1. XORCycle(w, ra)
      BY <1>1, <2>4 DEF RAMCycle
    <3>2. owner' = owner
      BY <3>1 DEF XORCycle
    <3> QED BY <2>1, <2>4, <3>1, <3>2, XORKeeps DEF RAMInv
  <2> QED BY <2>2, <2>3, <2>4 DEF RAMInv
<1>2. CASE UNCHANGED ramVars
  BY <1>2 DEF ramVars, RAMInv, Share3
<1> QED BY <1>1, <1>2 DEF RAMNext

\* The memories of src/source/ooo/src/util return, at every read, the last word written
\* (FFRAM.sv 30-61, LVTRAM.sv 22-72, XORRAM.sv 21-90, BypassBuffer.sv 23-40).
THEOREM ReadsAreRight == RAMSpec => []ReadsReference
<1>1. RAMInv => ReadsReference
  BY DEF RAMInv, ReadsReference
<1> QED BY RAMInitInv, RAMStepInv, <1>1, PTL DEF RAMSpec

-------------------------------------------------------------------------------
Access == [busy: BOOLEAN, write: BOOLEAN, addr: Out \cup {"RXD", "REG"}, data: Nat]
Ctx    == [avail: BOOLEAN, fetched: BOOLEAN, put: Nat, show: Nat, num: Nat]

ConfregTypeOK ==
  /\ step \in {"reset", "resp", "pop", "settle", "dev"}
  /\ enable \in BOOLEAN
  /\ access \in Access /\ next \in Access
  /\ ctx \in Ctx /\ ctx0 \in Ctx
  /\ ififo \in Seq(Nat) /\ got \in Seq(Nat) /\ changes \in Seq(Nat)
  /\ reg \in Nat /\ latest \in Nat /\ current \in Nat
  /\ typed \in Nat /\ missed \in 0 .. typed
  /\ sent \in [Out -> Nat]
  /\ shown \in [{"TXD", "VUART"} -> Seq(Nat)]

\* The number a store in progress carries: the one after those stored.
Numbered(x) ==
  x.busy /\ x.write =>
    /\ x.addr # "RXD"
    /\ x.addr \in Out => x.data = sent[x.addr] + 1

\* One transaction at a time, and a cycle between two: a store that is about to be made
\* is not followed at once by another access.
OneAccess ==
  /\ Numbered(access) /\ Numbered(next)
  /\ step \in {"reset", "resp"} => next = access
  /\ step \in {"pop", "settle", "dev"} /\ enable /\ access.busy => ~next.busy

\* RXD: a character that the program has seen announced is still there when it is taken.
Received ==
  /\ ctx.fetched => step \in {"pop", "settle"}
  /\ ctx.avail /\ step \in {"dev", "resp", "pop"} => ififo # <<>>
  /\ step = "reset" => ~ctx.avail /\ got = <<>>
  /\ ctx.fetched /\ step = "pop" => ctx.avail
  /\ step # "reset" =>
       got \o (IF ctx.fetched /\ step = "pop" THEN Tail(ififo) ELSE ififo)
         = Ascending(missed, typed)

\* TXD and VUART: what is stored and not yet shown is in one of the two contexts.
Transmitted ==
  /\ step \in {"reset", "dev"} => ctx.put = 0 /\ ctx.show = 0
  /\ shown["TXD"] \o (IF ctx.put # 0 /\ step \in {"resp", "pop"} THEN <<ctx.put>> ELSE <<>>)
       = Ascending(0, sent["TXD"])
  /\ shown["VUART"] \o (IF ctx.show # 0 THEN <<ctx.show>>
                        ELSE IF ctx0.show # 0 /\ step = "dev" THEN <<ctx0.show>> ELSE <<>>)
       = Ascending(0, sent["VUART"])

\* NUM: the monitor is at most one store behind.
Monitored ==
  /\ ctx.num = sent["NUM"]
  /\ ctx.num \in {current, current + 1}
  /\ step = "dev" => ctx0.num = ctx.num

\* A store is committed before any load can come.
Committed ==
  /\ IF changes = <<>> THEN reg = latest ELSE changes[Len(changes)] = latest
  /\ step \in {"reset", "dev"} => changes = <<>>
  /\ step = "resp" /\ changes # <<>> => ~access.busy
  /\ loaded \in {NoWord, latest}

ConfregInv ==
  /\ ConfregTypeOK
  /\ OneAccess
  /\ Received
  /\ Transmitted
  /\ Monitored
  /\ Committed

\* One more number in ascending order.
LEMMA AscendingLemma ==
  ASSUME NEW m \in Nat, NEW n \in Nat, m <= n
  PROVE  /\ Ascending(m, n) \in Seq(Nat)
         /\ Ascending(m, n) \o <<n + 1>> = Ascending(m, n + 1)
<1>1. ASSUME NEW k \in Nat, m <= k
      PROVE  Ascending(m, k) \in Seq(Nat) /\ Len(Ascending(m, k)) = k - m
             /\ \A i \in 1 .. k - m : Ascending(m, k)[i] = m + i
  <2>1. k - m \in Nat /\ Ascending(m, k) \in [1 .. k - m -> Nat]
    BY <1>1 DEF Ascending
  <2>2. Ascending(m, k) \in Seq(Nat)
    BY <2>1, SeqDef
  <2>3. QED BY <2>1, <2>2, LenProperties DEF Ascending
<1>2. /\ Ascending(m, n) \in Seq(Nat) /\ Len(Ascending(m, n)) = n - m
      /\ \A i \in 1 .. n - m : Ascending(m, n)[i] = m + i
  BY <1>1
<1>3. /\ Ascending(m, n + 1) \in Seq(Nat) /\ Len(Ascending(m, n + 1)) = n + 1 - m
      /\ \A i \in 1 .. n + 1 - m : Ascending(m, n + 1)[i] = m + i
  BY <1>1
<1>4. <<n + 1>> \in Seq(Nat) /\ Len(<<n + 1>>) = 1 /\ <<n + 1>>[1] = n + 1
  OBVIOUS
<1>5. /\ Ascending(m, n) \o <<n + 1>> \in Seq(Nat)
      /\ Len(Ascending(m, n) \o <<n + 1>>) = n - m + 1
      /\ \A i \in 1 .. n - m + 1 :
           (Ascending(m, n) \o <<n + 1>>)[i] = IF i <= n - m THEN m + i ELSE n + 1
  BY <1>2, <1>4, ConcatProperties
<1>6. Ascending(m, n) \o <<n + 1>> = Ascending(m, n + 1)
  <2>1. n + 1 - m = n - m + 1 /\ n - m \in Nat
    OBVIOUS
  <2>2. ASSUME NEW i \in 1 .. n - m + 1
        PROVE  (Ascending(m, n) \o <<n + 1>>)[i] = Ascending(m, n + 1)[i]
    <3>1. i \in 1 .. n + 1 - m
      BY <2>1
    <3>2. Ascending(m, n + 1)[i] = m + i
      BY <1>3, <3>1
    <3>3. (Ascending(m, n) \o <<n + 1>>)[i] = IF i <= n - m THEN m + i ELSE n + 1
      BY <1>5
    <3>4. ~(i <= n - m) => n + 1 = m + i
      BY <2>1
    <3>5. QED BY <3>2, <3>3, <3>4
  <2>3. Len(Ascending(m, n) \o <<n + 1>>) = Len(Ascending(m, n + 1))
    BY <1>3, <1>5, <2>1
  <2>4. \A i \in 1 .. Len(Ascending(m, n) \o <<n + 1>>) :
          (Ascending(m, n) \o <<n + 1>>)[i] = Ascending(m, n + 1)[i]
    BY <1>5, <2>2
  <2>5. QED BY <1>3, <1>5, <2>3, <2>4, SeqEqual
<1>7. QED BY <1>2, <1>6

\* No numbers.
LEMMA AscendingNone == \A n \in Nat : Ascending(n, n) = <<>>
BY DEF Ascending

\* An item appended to the second of two sequences is the last of both.
LEMMA AppendLemma ==
  ASSUME NEW s \in Seq(Nat), NEW t \in Seq(Nat), NEW x \in Nat
  PROVE  /\ Append(s, x) \in Seq(Nat)
         /\ Append(s, x) = s \o <<x>>
         /\ s \o Append(t, x) = (s \o t) \o <<x>>
         /\ s \o <<>> = s
<1>1. <<x>> \in Seq(Nat)
  OBVIOUS
<1>2. Append(s, x) = s \o <<x>> /\ Append(t, x) = t \o <<x>> /\ Append(s, x) \in Seq(Nat)
  BY AppendIsConcat, AppendProperties
<1>3. (s \o t) \o <<x>> = s \o (t \o <<x>>)
  BY <1>1, ConcatAssociative
<1>4. QED BY <1>2, <1>3, ConcatEmptySeq

\* Before reset nothing is typed, sent or monitored.
LEMMA ConfregInitInv == ConfregInit => ConfregInv
<1> SUFFICES ASSUME ConfregInit PROVE ConfregInv
  OBVIOUS
<1> USE DEF ConfregInit
<1>1. <<>> \in Seq(Nat) /\ <<>> \o <<>> = <<>>
  BY EmptySeq, ConcatEmptySeq
<1>2. Ascending(0, 0) = <<>>
  BY AscendingNone
<1>3. ConfregTypeOK
  BY <1>1 DEF ConfregTypeOK, Idle, Access, Ctx, Out
<1>4. OneAccess
  BY DEF OneAccess, Numbered, Idle
<1>5. Received /\ Monitored /\ Committed
  BY DEF Received, Monitored, Committed, NoWord, Out
<1>6. Transmitted
  BY <1>1, <1>2 DEF Transmitted, Out
<1>7. QED BY <1>3, <1>4, <1>5, <1>6 DEF ConfregInv

\* The thread types while the simulator is between any two steps.
LEMMA TypeKeeps == ConfregInv /\ Type => ConfregInv'
<1> SUFFICES ASSUME ConfregInv, Type PROVE ConfregInv'
  OBVIOUS
<1>1. /\ typed' = typed + 1 /\ ififo' = Append(ififo, typed + 1)
      /\ UNCHANGED <<step, enable, access, next, ctx, ctx0, reg, changes, current,
                     missed, got, sent, shown, latest, loaded>>
  BY DEF Type
<1>2. /\ ififo \in Seq(Nat) /\ got \in Seq(Nat) /\ typed \in Nat /\ typed + 1 \in Nat
      /\ missed \in Nat /\ missed <= typed
  BY DEF ConfregInv, ConfregTypeOK
<1>3. ififo' \in Seq(Nat) /\ ififo' # <<>>
  BY <1>1, <1>2, AppendProperties
<1>4. ConfregTypeOK'
  BY <1>1, <1>2, <1>3 DEF ConfregInv, ConfregTypeOK
<1>5. Received'
  <2> DEFINE taken == ctx.fetched /\ step = "pop"
             waiting == IF taken THEN Tail(ififo) ELSE ififo
  <2>1. taken => ififo # <<>>
    BY DEF ConfregInv, Received
  <2>2. waiting \in Seq(Nat)
    BY <1>2, <2>1, HeadTailProperties
  <2>3. (IF taken THEN Tail(ififo') ELSE ififo') = Append(waiting, typed + 1)
    <3>1. ififo # <<>> => Tail(Append(ififo, typed + 1)) = Append(Tail(ififo), typed + 1)
      BY <1>2, HeadTailAppend
    <3>2. QED BY <1>1, <2>1, <3>1
  <2>4. step # "reset" => got \o waiting = Ascending(missed, typed)
    BY DEF ConfregInv, Received
  <2>5. Ascending(missed, typed) \o <<typed + 1>> = Ascending(missed, typed + 1)
    BY <1>2, AscendingLemma
  <2> HIDE DEF waiting
  <2>6. got \o Append(waiting, typed + 1) = (got \o waiting) \o <<typed + 1>>
    BY <1>2, <2>2, AppendLemma
  <2>7. step # "reset" => got \o (IF taken THEN Tail(ififo') ELSE ififo')
                            = Ascending(missed, typed + 1)
    BY <2>3, <2>4, <2>5, <2>6
  <2>8. QED BY <1>1, <1>3, <2>7 DEF ConfregInv, Received
<1>6. OneAccess' /\ Transmitted' /\ Monitored' /\ Committed'
  BY <1>1 DEF ConfregInv, OneAccess, Numbered, Transmitted, Monitored, Committed
<1>7. QED BY <1>4, <1>5, <1>6 DEF ConfregInv

\* The reset forgets what was typed before it.
LEMMA ResetKeeps == ConfregInv /\ ConfregReset => ConfregInv'
<1> SUFFICES ASSUME ConfregInv, ConfregReset PROVE ConfregInv'
  OBVIOUS
<1>1. /\ step = "reset" /\ step' = "resp" /\ ififo' = <<>> /\ missed' = typed
      /\ UNCHANGED <<enable, access, next, ctx, ctx0, reg, changes, current, typed, got, sent,
                     shown, latest, loaded>>
  BY DEF ConfregReset
<1>2. ConfregTypeOK'
  BY <1>1, EmptySeq DEF ConfregInv, ConfregTypeOK
<1>3. Received'
  <2>1. Ascending(typed, typed) = <<>> /\ <<>> \o <<>> = <<>>
    <3>1. typed \in Nat /\ <<>> \in Seq(Nat)
      BY EmptySeq DEF ConfregInv, ConfregTypeOK
    <3>2. QED BY <3>1, AscendingNone, ConcatEmptySeq
  <2>2. QED BY <1>1, <2>1 DEF ConfregInv, Received
<1>4. OneAccess' /\ Monitored' /\ Committed'
  BY <1>1 DEF ConfregInv, OneAccess, Numbered, Monitored, Committed
<1>5. Transmitted'
  BY <1>1 DEF ConfregInv, Transmitted
<1>6. QED BY <1>2, <1>3, <1>4, <1>5 DEF ConfregInv

\* A load takes a character that is there; a load of the register finds every store
\* committed.
LEMMA RespKeeps == ConfregInv /\ Resp => ConfregInv'
<1> SUFFICES ASSUME ConfregInv, Resp PROVE ConfregInv'
  OBVIOUS
<1>1. /\ step = "resp" /\ step' = "pop"
      /\ IF enable /\ access.busy /\ ~access.write
         THEN Load(access.addr) ELSE loaded' = NoWord /\ UNCHANGED <<got, ctx>>
      /\ IF ~enable THEN next' = access
         ELSE IF access.busy THEN next' = Idle ELSE next' \in Wanted
      /\ UNCHANGED <<enable, access, ctx0, ififo, reg, changes, current, typed, missed, sent,
                     shown, latest>>
  BY DEF Resp
<1>2. /\ ctx \in Ctx /\ ififo \in Seq(Nat) /\ got \in Seq(Nat)
      /\ access \in Access /\ sent \in [Out -> Nat] /\ enable \in BOOLEAN
  BY DEF ConfregInv, ConfregTypeOK
<1>3. ~ctx.fetched /\ (ctx.avail => ififo # <<>>)
  BY <1>1 DEF ConfregInv, Received
\* The next access.
<1>4. next' \in Access /\ Numbered(next)'
  <2>1. CASE ~enable \/ access.busy
    <3>1. Numbered(access) /\ Numbered(Idle) /\ Idle \in Access
      BY DEF ConfregInv, OneAccess, Numbered, Idle, Access, Out
    <3>2. QED BY <1>1, <1>2, <2>1, <3>1 DEF Numbered
  <2>2. CASE enable /\ ~access.busy
    <3>1. next' \in Wanted
      BY <1>1, <2>2
    <3>2. CASE next' = Idle
      BY <1>1, <3>2 DEF Idle, Access, Out, Numbered
    <3>3. ASSUME NEW d \in {"RXD", "REG"},
                 next' = [busy |-> TRUE, write |-> FALSE, addr |-> d, data |-> 0]
          PROVE  next' \in Access /\ Numbered(next)'
      BY <3>3 DEF Access, Numbered
    <3>4. ASSUME NEW d \in Out,
                 next' = [busy |-> TRUE, write |-> TRUE, addr |-> d, data |-> sent[d] + 1]
          PROVE  next' \in Access /\ Numbered(next)'
      <4>1. sent[d] + 1 \in Nat /\ sent' = sent
        BY <1>1, <1>2
      <4>2. QED BY <3>4, <4>1 DEF Access, Numbered, Out
    <3>5. ASSUME NEW v \in {0, 1},
                 next' = [busy |-> TRUE, write |-> TRUE, addr |-> "REG", data |-> v]
          PROVE  next' \in Access /\ Numbered(next)'
      BY <3>5 DEF Access, Numbered, Out
    <3>6. QED BY <3>1, <3>2, <3>3, <3>4, <3>5 DEF Wanted
  <2>3. QED BY <2>1, <2>2
<1>5. OneAccess'
  BY <1>1, <1>4 DEF ConfregInv, OneAccess, Numbered, Idle
\* What the load does.
<1>6. CASE enable /\ access.busy /\ ~access.write /\ access.addr = "RXD" /\ ctx.avail
  <2>1. /\ got' = Append(got, ififo[1]) /\ ctx' = [ctx EXCEPT !.fetched = TRUE]
        /\ loaded' = NoWord
    BY <1>1, <1>6 DEF Load
  <2>2. /\ ctx'.fetched /\ ctx'.avail /\ ctx' \in Ctx
        /\ ctx'.put = ctx.put /\ ctx'.show = ctx.show /\ ctx'.num = ctx.num
    BY <1>2, <1>6, <2>1 DEF Ctx
  <2>3. /\ ififo # <<>> /\ Head(ififo) \in Nat /\ Tail(ififo) \in Seq(Nat)
        /\ ififo[1] = Head(ififo) /\ ififo = <<Head(ififo)>> \o Tail(ififo)
    BY <1>2, <1>3, <1>6, HeadTailProperties
  <2>4. Append(got, ififo[1]) \o Tail(ififo) = got \o ififo
    <3>1. Append(got, Head(ififo)) = got \o <<Head(ififo)>> /\ <<Head(ififo)>> \in Seq(Nat)
      BY <1>2, <2>3, AppendLemma
    <3>2. (got \o <<Head(ififo)>>) \o Tail(ififo) = got \o (<<Head(ififo)>> \o Tail(ififo))
      BY <1>2, <2>3, <3>1, ConcatAssociative
    <3>3. QED BY <2>3, <3>1, <3>2
  <2>5. got \o ififo = Ascending(missed, typed)
    BY <1>1, <1>3 DEF ConfregInv, Received
  <2>6. Received'
    BY <1>1, <1>3, <1>6, <2>1, <2>2, <2>4, <2>5 DEF Received
  <2>7. got' \in Seq(Nat)
    BY <1>2, <2>1, <2>3, AppendLemma
  <2>8. ConfregTypeOK'
    BY <1>1, <1>4, <2>2, <2>7 DEF ConfregInv, ConfregTypeOK
  <2>9. Transmitted' /\ Monitored' /\ Committed'
    BY <1>1, <2>1, <2>2 DEF ConfregInv, Transmitted, Monitored, Committed
  <2>10. QED BY <1>5, <2>6, <2>8, <2>9 DEF ConfregInv
<1>7. CASE ~(enable /\ access.busy /\ ~access.write /\ access.addr = "RXD" /\ ctx.avail)
  <2>1. got' = got /\ ctx' = ctx
    BY <1>1, <1>7 DEF Load
  <2>2. loaded' \in {NoWord, latest}
    <3>1. CASE enable /\ access.busy /\ ~access.write
      <4>1. loaded' = IF access.addr = "REG" THEN reg ELSE NoWord
        BY <1>1, <3>1 DEF Load
      <4>2. changes = <<>> /\ reg = latest
        BY <1>1, <3>1 DEF ConfregInv, Committed
      <4>3. QED BY <4>1, <4>2
    <3>2. CASE ~(enable /\ access.busy /\ ~access.write)
      BY <1>1, <3>2
    <3>3. QED BY <3>1, <3>2
  <2>3. Received'
    BY <1>1, <1>3, <2>1 DEF ConfregInv, Received
  <2>4. ConfregTypeOK'
    BY <1>1, <1>4, <2>1 DEF ConfregInv, ConfregTypeOK
  <2>5. Transmitted' /\ Monitored' /\ Committed'
    BY <1>1, <2>1, <2>2 DEF ConfregInv, Transmitted, Monitored, Committed
  <2>6. QED BY <1>5, <2>3, <2>4, <2>5 DEF ConfregInv
<1>8. QED BY <1>6, <1>7

\* The first half of sync: the character that was loaded leaves the queue, the one that
\* was stored appears on the terminal.
LEMMA PopKeeps == ConfregInv /\ Pop => ConfregInv'
<1> SUFFICES ASSUME ConfregInv, Pop PROVE ConfregInv'
  OBVIOUS
<1>1. /\ step = "pop" /\ step' = "settle"
      /\ ififo' = IF ctx.fetched THEN Tail(ififo) ELSE ififo
      /\ shown' = IF ctx.put # 0 THEN [shown EXCEPT !["TXD"] = Append(@, ctx.put)] ELSE shown
      /\ UNCHANGED <<enable, access, next, ctx, ctx0, reg, changes, current, typed, missed, got,
                     sent, latest, loaded>>
  BY DEF Pop
<1>2. /\ ctx \in Ctx /\ ififo \in Seq(Nat) /\ ctx.put \in Nat
      /\ shown \in [{"TXD", "VUART"} -> Seq(Nat)]
  BY DEF ConfregInv, ConfregTypeOK, Ctx
<1>3. ififo' \in Seq(Nat)
  <2>1. ctx.fetched => ififo # <<>>
    BY <1>1 DEF ConfregInv, Received
  <2>2. QED BY <1>1, <1>2, <2>1, HeadTailProperties
<1>4. /\ shown' \in [{"TXD", "VUART"} -> Seq(Nat)]
      /\ shown'["VUART"] = shown["VUART"]
      /\ shown'["TXD"] = shown["TXD"] \o (IF ctx.put # 0 THEN <<ctx.put>> ELSE <<>>)
  <2>1. /\ Append(shown["TXD"], ctx.put) \in Seq(Nat)
        /\ Append(shown["TXD"], ctx.put) = shown["TXD"] \o <<ctx.put>>
        /\ shown["TXD"] \o <<>> = shown["TXD"]
    BY <1>2, AppendLemma
  <2>2. QED BY <1>1, <1>2, <2>1
<1>5. ConfregTypeOK'
  BY <1>1, <1>3, <1>4 DEF ConfregInv, ConfregTypeOK
<1>6. Received'
  BY <1>1 DEF ConfregInv, Received
<1>7. Transmitted'
  <2>1. shown'["TXD"] = Ascending(0, sent["TXD"])
    BY <1>1, <1>4 DEF ConfregInv, Transmitted
  <2>2. shown'["TXD"] \o <<>> = shown'["TXD"]
    BY <1>4, ConcatEmptySeq
  <2>3. shown'["VUART"] \o (IF ctx'.show # 0 THEN <<ctx'.show>> ELSE <<>>)
          = Ascending(0, sent["VUART"])
    BY <1>1, <1>4 DEF ConfregInv, Transmitted
  <2>4. QED BY <1>1, <2>1, <2>2, <2>3 DEF Transmitted
<1>8. OneAccess' /\ Monitored' /\ Committed'
  BY <1>1 DEF ConfregInv, OneAccess, Numbered, Monitored, Committed
<1>9. QED BY <1>5, <1>6, <1>7, <1>8 DEF ConfregInv

\* The second half of sync: whether a character waits is asked again.
LEMMA SettleKeeps == ConfregInv /\ Settle => ConfregInv'
<1> SUFFICES ASSUME ConfregInv, Settle PROVE ConfregInv'
  OBVIOUS
<1>1. /\ step = "settle" /\ step' = "dev" /\ ctx0' = ctx
      /\ ctx' = [ctx EXCEPT !.avail = ififo # <<>>, !.fetched = FALSE, !.put = 0, !.show = 0]
      /\ reg' = (IF changes = <<>> THEN reg ELSE changes[Len(changes)])
      /\ changes' = <<>>
      /\ UNCHANGED <<enable, access, next, ififo, current, typed, missed, got, sent, shown,
                     latest, loaded>>
  BY DEF Settle
<1>2. ctx \in Ctx
  BY DEF ConfregInv, ConfregTypeOK
<1>3. /\ ctx' \in Ctx /\ ctx'.avail = (ififo # <<>>) /\ ~ctx'.fetched
      /\ ctx'.put = 0 /\ ctx'.show = 0 /\ ctx'.num = ctx.num
  BY <1>1, <1>2 DEF Ctx
<1>4. reg' = latest
  BY <1>1 DEF ConfregInv, Committed
<1>5. ConfregTypeOK'
  BY <1>1, <1>3, <1>4, EmptySeq DEF ConfregInv, ConfregTypeOK
<1>6. Received'
  BY <1>1, <1>3 DEF ConfregInv, Received
<1>7. Transmitted'
  BY <1>1, <1>3 DEF ConfregInv, Transmitted
<1>8. OneAccess'
  BY <1>1 DEF ConfregInv, OneAccess, Numbered
<1>9. Monitored' /\ Committed'
  BY <1>1, <1>3, <1>4 DEF ConfregInv, Monitored, Committed
<1>10. QED BY <1>5, <1>6, <1>7, <1>8, <1>9 DEF ConfregInv

\* The device's clock edge: a store reaches the peripherals, the monitor and the virtual
\* terminal look at the cycle before.
LEMMA DevKeeps == ConfregInv /\ Dev => ConfregInv'
<1> SUFFICES ASSUME ConfregInv, Dev PROVE ConfregInv'
  OBVIOUS
<1> DEFINE stores == enable /\ access.busy /\ access.write
           d == access.addr
<1>1. /\ step = "dev" /\ step' = "resp" /\ access' = next /\ enable' \in BOOLEAN
      /\ IF stores THEN Store(access.addr, access.data)
                   ELSE UNCHANGED <<ctx, sent, changes, latest>>
      /\ current' = ctx0.num
      /\ shown' = IF ctx0.show # 0 THEN [shown EXCEPT !["VUART"] = Append(@, ctx0.show)]
                  ELSE shown
      /\ loaded' = NoWord
      /\ UNCHANGED <<next, ctx0, ififo, reg, typed, missed, got>>
  BY DEF Dev, Checkout
<1>2. /\ ctx \in Ctx /\ ctx0 \in Ctx /\ access \in Access /\ changes \in Seq(Nat)
      /\ sent \in [Out -> Nat] /\ shown \in [{"TXD", "VUART"} -> Seq(Nat)]
      /\ ctx0.show \in Nat /\ latest \in Nat
  BY DEF ConfregInv, ConfregTypeOK, Ctx
<1>3. /\ ~ctx.fetched /\ ctx.put = 0 /\ ctx.show = 0 /\ ctx.num = sent["NUM"]
      /\ ctx0.num = ctx.num /\ changes = <<>> /\ (ctx.avail => ififo # <<>>)
  BY <1>1 DEF ConfregInv, Received, Transmitted, Monitored, Committed
<1>4. stores => ~next.busy
  BY <1>1 DEF ConfregInv, OneAccess
<1>5. /\ shown' \in [{"TXD", "VUART"} -> Seq(Nat)]
      /\ shown'["TXD"] = shown["TXD"]
      /\ shown'["VUART"] = shown["VUART"] \o (IF ctx0.show # 0 THEN <<ctx0.show>> ELSE <<>>)
  <2>1. /\ Append(shown["VUART"], ctx0.show) \in Seq(Nat)
        /\ Append(shown["VUART"], ctx0.show) = shown["VUART"] \o <<ctx0.show>>
        /\ shown["VUART"] \o <<>> = shown["VUART"]
    BY <1>2, AppendLemma
  <2>2. QED BY <1>1, <1>2, <2>1
<1>6. /\ shown'["TXD"] = Ascending(0, sent["TXD"]) /\ shown'["TXD"] \o <<>> = shown'["TXD"]
      /\ shown'["VUART"] = Ascending(0, sent["VUART"])
      /\ shown'["VUART"] \o <<>> = shown'["VUART"]
  <2>1. shown["TXD"] \o <<>> = Ascending(0, sent["TXD"])
    BY <1>1 DEF ConfregInv, Transmitted
  <2>2. shown["TXD"] \o <<>> = shown["TXD"]
    BY <1>2, ConcatEmptySeq
  <2>3. shown'["VUART"] = Ascending(0, sent["VUART"])
    BY <1>1, <1>3, <1>5 DEF ConfregInv, Transmitted
  <2>4. shown'["TXD"] \in Seq(Nat) /\ shown'["VUART"] \in Seq(Nat)
    BY <1>5
  <2>5. QED BY <1>5, <2>1, <2>2, <2>3, <2>4, ConcatEmptySeq
\* Without a store.
<1>7. CASE ~stores
  <2>1. ctx' = ctx /\ sent' = sent /\ changes' = changes /\ latest' = latest
    BY <1>1, <1>7
  <2>2. ConfregTypeOK'
    BY <1>1, <1>2, <1>5, <2>1 DEF ConfregInv, ConfregTypeOK, Ctx
  <2>3. OneAccess' /\ Received' /\ Committed'
    BY <1>1, <1>3, <2>1 DEF ConfregInv, OneAccess, Numbered, Received, Committed
  <2>4. Monitored'
    BY <1>1, <1>3, <2>1 DEF Monitored
  <2>5. Transmitted'
    BY <1>1, <1>3, <1>6, <2>1 DEF Transmitted
  <2>6. QED BY <2>2, <2>3, <2>4, <2>5 DEF ConfregInv
\* With one: the number is the next of its kind.
<1>8. CASE stores
  <2>1. Store(d, access.data) /\ access'.busy = next.busy /\ ~next.busy /\ next' = next
    BY <1>1, <1>4, <1>8
  <2>2. d \in Out => access.data = sent[d] + 1
    BY <1>8 DEF ConfregInv, OneAccess, Numbered
  <2>3. d \in Out \cup {"REG"} /\ access.data \in Nat
    BY <1>2, <1>8 DEF ConfregInv, OneAccess, Numbered, Access
  <2>4. /\ sent["TXD"] \in Nat /\ sent["VUART"] \in Nat /\ sent["NUM"] \in Nat
        /\ "TXD" \in Out /\ "VUART" \in Out /\ "NUM" \in Out
    BY <1>2 DEF Out
  <2>5. \A n \in Nat : Ascending(0, n) \o <<n + 1>> = Ascending(0, n + 1)
    BY AscendingLemma
  <2>6. /\ OneAccess'
        /\ loaded' \in {NoWord, latest'}
    BY <1>1, <2>1 DEF ConfregInv, OneAccess, Numbered
  <2>7. CASE d = "REG"
    <3>1. /\ ctx' = ctx /\ sent' = sent /\ changes' = Append(changes, access.data)
          /\ latest' = access.data
      BY <2>1, <2>7 DEF Store, Out
    <3>2. /\ changes' \in Seq(Nat) /\ changes' # <<>>
          /\ changes'[Len(changes')] = latest'
      <4>1. /\ changes' \in Seq(Nat) /\ changes' # <<>>
            /\ Len(changes') = Len(changes) + 1
            /\ changes'[Len(changes) + 1] = access.data
        <5>1. \A q \in Seq(Nat), x \in Nat :
                /\ Append(q, x) \in Seq(Nat) /\ Append(q, x) # <<>>
                /\ Len(Append(q, x)) = Len(q) + 1
                /\ Append(q, x)[Len(q) + 1] = x
          BY AppendProperties
        <5>2. QED BY <1>2, <2>3, <3>1, <5>1
      <4>2. QED BY <3>1, <4>1
    <3>3. ConfregTypeOK'
      BY <1>1, <1>2, <1>5, <2>3, <3>1, <3>2 DEF ConfregInv, ConfregTypeOK, Ctx
    <3>4. Received' /\ Monitored'
      BY <1>1, <1>3, <3>1 DEF ConfregInv, Received, Monitored
    <3>5. Transmitted'
      BY <1>1, <1>3, <1>6, <3>1 DEF Transmitted
    <3>6. Committed'
      BY <1>1, <2>1, <2>6, <3>2 DEF Committed
    <3>7. QED BY <2>6, <3>3, <3>4, <3>5, <3>6 DEF ConfregInv
  <2>8. CASE d = "TXD"
    <3>1. /\ ctx' = [ctx EXCEPT !.put = access.data] /\ changes' = changes /\ latest' = latest
          /\ sent' = [sent EXCEPT !["TXD"] = @ + 1]
      BY <2>1, <2>8 DEF Store, Out
    <3>2. /\ ctx' \in Ctx /\ ctx'.put = access.data /\ ctx'.put # 0
          /\ ctx'.avail = ctx.avail /\ ctx'.fetched = ctx.fetched
          /\ ctx'.show = 0 /\ ctx'.num = ctx.num
      <4>1. /\ ctx' \in Ctx /\ ctx'.put = access.data
            /\ ctx'.avail = ctx.avail /\ ctx'.fetched = ctx.fetched
            /\ ctx'.show = ctx.show /\ ctx'.num = ctx.num
        BY <1>2, <2>3, <3>1 DEF Ctx
      <4>2. access.data # 0
        BY <2>2, <2>4, <2>8
      <4>3. QED BY <1>3, <4>1, <4>2
    <3>3. /\ sent' \in [Out -> Nat] /\ sent'["TXD"] = access.data
          /\ sent'["VUART"] = sent["VUART"] /\ sent'["NUM"] = sent["NUM"]
      BY <1>2, <2>2, <2>3, <2>4, <2>8, <3>1
    <3>4. ConfregTypeOK'
      BY <1>1, <1>2, <1>5, <3>1, <3>2, <3>3 DEF ConfregInv, ConfregTypeOK, Ctx
    <3>5. Received' /\ Monitored' /\ Committed'
      BY <1>1, <1>3, <2>6, <3>1, <3>2, <3>3
         DEF ConfregInv, Received, Monitored, Committed
    <3>6. shown'["TXD"] \o <<ctx'.put>> = Ascending(0, sent'["TXD"])
      BY <1>6, <2>2, <2>4, <2>5, <2>8, <3>2, <3>3
    <3>7. Transmitted'
      BY <1>1, <1>6, <3>2, <3>3, <3>6 DEF Transmitted
    <3>8. QED BY <2>6, <3>4, <3>5, <3>7 DEF ConfregInv
  <2>9. CASE d = "VUART"
    <3>1. /\ ctx' = [ctx EXCEPT !.show = access.data] /\ changes' = changes /\ latest' = latest
          /\ sent' = [sent EXCEPT !["VUART"] = @ + 1]
      BY <2>1, <2>9 DEF Store, Out
    <3>2. /\ ctx' \in Ctx /\ ctx'.show = access.data /\ ctx'.show # 0
          /\ ctx'.avail = ctx.avail /\ ctx'.fetched = ctx.fetched
          /\ ctx'.put = 0 /\ ctx'.num = ctx.num
      <4>1. /\ ctx' \in Ctx /\ ctx'.show = access.data
            /\ ctx'.avail = ctx.avail /\ ctx'.fetched = ctx.fetched
            /\ ctx'.put = ctx.put /\ ctx'.num = ctx.num
        BY <1>2, <2>3, <3>1 DEF Ctx
      <4>2. access.data # 0
        BY <2>2, <2>4, <2>9
      <4>3. QED BY <1>3, <4>1, <4>2
    <3>3. /\ sent' \in [Out -> Nat] /\ sent'["VUART"] = access.data
          /\ sent'["TXD"] = sent["TXD"] /\ sent'["NUM"] = sent["NUM"]
      BY <1>2, <2>2, <2>3, <2>4, <2>9, <3>1
    <3>4. ConfregTypeOK'
      BY <1>1, <1>2, <1>5, <3>1, <3>2, <3>3 DEF ConfregInv, ConfregTypeOK, Ctx
    <3>5. Received' /\ Monitored' /\ Committed'
      BY <1>1, <1>3, <2>6, <3>1, <3>2, <3>3
         DEF ConfregInv, Received, Monitored, Committed
    <3>6. shown'["VUART"] \o <<ctx'.show>> = Ascending(0, sent'["VUART"])
      BY <1>6, <2>2, <2>4, <2>5, <2>9, <3>2, <3>3
    <3>7. Transmitted'
      BY <1>1, <1>6, <3>2, <3>3, <3>6 DEF Transmitted
    <3>8. QED BY <2>6, <3>4, <3>5, <3>7 DEF ConfregInv
  <2>10. CASE d = "NUM"
    <3>1. /\ ctx' = [ctx EXCEPT !.num = access.data] /\ changes' = changes /\ latest' = latest
          /\ sent' = [sent EXCEPT !["NUM"] = @ + 1]
      BY <2>1, <2>10 DEF Store, Out
    <3>2. /\ ctx' \in Ctx /\ ctx'.num = access.data
          /\ ctx'.avail = ctx.avail /\ ctx'.fetched = ctx.fetched
          /\ ctx'.put = 0 /\ ctx'.show = 0
      BY <1>2, <1>3, <2>3, <3>1 DEF Ctx
    <3>3. /\ sent' \in [Out -> Nat] /\ sent'["NUM"] = access.data
          /\ sent'["TXD"] = sent["TXD"] /\ sent'["VUART"] = sent["VUART"]
      BY <1>2, <2>2, <2>3, <2>4, <2>10, <3>1
    <3>4. ConfregTypeOK'
      BY <1>1, <1>2, <1>5, <3>1, <3>2, <3>3 DEF ConfregInv, ConfregTypeOK, Ctx
    <3>5. Received' /\ Committed'
      BY <1>1, <1>3, <2>6, <3>1, <3>2 DEF ConfregInv, Received, Committed
    <3>6. Monitored'
      BY <1>1, <1>3, <2>2, <2>4, <2>10, <3>2, <3>3 DEF Monitored
    <3>7. Transmitted'
      BY <1>1, <1>6, <3>2, <3>3 DEF Transmitted
    <3>8. QED BY <2>6, <3>4, <3>5, <3>6, <3>7 DEF ConfregInv
  <2>11. QED BY <2>3, <2>7, <2>8, <2>9, <2>10 DEF Out
<1>9. QED BY <1>7, <1>8

\* The invariant is inductive, wherever the thread of the terminal comes between.
LEMMA ConfregStepInv == ConfregInv /\ [ConfregNext]_confregVars => ConfregInv'
<1>1. ASSUME ConfregInv, UNCHANGED confregVars PROVE ConfregInv'
  <2>1. ConfregTypeOK'
    BY <1>1 DEF confregVars, ConfregInv, ConfregTypeOK
  <2>2. OneAccess' /\ Monitored' /\ Committed'
    BY <1>1 DEF confregVars, ConfregInv, OneAccess, Numbered, Monitored, Committed
  <2>3. Received'
    BY <1>1 DEF confregVars, ConfregInv, Received
  <2>4. Transmitted'
    BY <1>1 DEF confregVars, ConfregInv, Transmitted
  <2>5. QED BY <2>1, <2>2, <2>3, <2>4 DEF ConfregInv
<1>2. QED BY <1>1, TypeKeeps, ResetKeeps, RespKeeps, PopKeeps, SettleKeeps, DevKeeps
         DEF ConfregNext

\* The peripherals of confreg.cpp lose, repeat and reorder no character, the number monitor
\* misses no store and a register is never read before a store to it is committed, for
\* every number of characters and wherever the unlocked ififo.empty() falls.
THEOREM PeripheralsKeepOrder == ConfregSpec => []PeripheralsInOrder
<1>1. ConfregInv => PeripheralsInOrder
  <2> SUFFICES ASSUME ConfregInv, step # "reset" PROVE PeripheralsInOrder
    BY DEF PeripheralsInOrder
  <2>1. ctx.fetched /\ step = "pop" => ififo # <<>>
    BY DEF ConfregInv, Received
  <2>2. got \o (IF ctx.fetched /\ step = "pop" THEN Tail(ififo) ELSE ififo)
          = Ascending(missed, typed)
    BY DEF ConfregInv, Received
  <2>3. step = "dev" => ctx0.num \in {current, current + 1}
    BY DEF ConfregInv, Monitored
  <2>4. loaded \in {NoWord, latest}
    BY DEF ConfregInv, Committed
  <2>5. QED BY <2>1, <2>2, <2>3, <2>4 DEF ConfregInv, Transmitted, PeripheralsInOrder
<1>2. QED BY <1>1, ConfregInitInv, ConfregStepInv, PTL DEF ConfregSpec

-------------------------------------------------------------------------------
\* Where the master is.
MasterInv ==
  /\ pc \in {"spawn", "reap"} => at < NumWorkers
  /\ pc = "spawn" => /\ listening = 0 .. at - 1
                     /\ exited = 0 /\ dispatched = 0 /\ passed = 0 /\ first = Worker
  /\ \A j \in Worker : mode[j] = "none" <=> pc = "spawn" /\ j >= at
  /\ ready \subseteq listening
  /\ \A j \in ready : Readable(j)
  /\ pc = "scan" <=> ready # {}
  /\ pc \in {"spawn", "select", "scan"} => ~failed
  /\ pc = "select" => exited < NumWorkers
  /\ pc \in {"close", "reap", "done"} /\ ~failed => exited = NumWorkers
  /\ exited > 0 => dispatched = NumTests

\* The workers listened to are those that have not been told to exit; of those, the ones
\* that have asked before hold a test that is not yet counted.
CountInv ==
  /\ pc # "spawn" => exited + Cardinality(listening) = NumWorkers
  /\ passed + Cardinality(listening \ first) = dispatched

\* A worker and its two pipes.
WorkerInv ==
  \A j \in Worker :
    /\ j \in asked => mode[j] \in {"wait", "dead"} /\ orders[j] = Nothing /\ j \in listening
    /\ orders[j] # Nothing => mode[j] \in {"wait", "dead"}
    /\ mode[j] = "dead" /\ ~failed => j \notin asked /\ orders[j] = Nothing
    /\ orders[j] \in Test => j \in listening
    /\ orders[j] = Quit => j \notin listening
    /\ mode[j] \in {"ask", "run"} => j \in listening
    /\ mode[j] = "run" => task[j] \in Test
    /\ mode[j] = "dead" /\ j \in listening /\ ~failed => \E t \in Test : result[t] = "failed"

Holds(j, t) == orders[j] = t \/ (mode[j] = "run" /\ task[j] = t)

\* A test dispatched and not ended is in one place.
TestInv ==
  /\ \A t \in Test : result[t] = "passed" => outcome[t] = "pass"
  /\ \A t \in Test : result[t] = "failed" =>
       outcome[t] = "fail" /\ \E j \in listening : mode[j] = "dead"
  /\ failed => \E t \in Test : result[t] = "failed"
  /\ \A j \in Worker, t \in Test : Holds(j, t) => result[t] = "none" /\ t < dispatched
  /\ \A t \in Test : result[t] # "none" => t < dispatched
  /\ \A j, k \in Worker, t \in Test : Holds(j, t) /\ Holds(k, t) => j = k
  /\ ~failed => \A t \in Test :
       t < dispatched => result[t] # "none" \/ \E j \in Worker : Holds(j, t)

ReapInv ==
  /\ pc = "reap" => \A j \in Worker : j < at => mode[j] = "dead"
  /\ pc = "done" => \A j \in Worker : mode[j] = "dead"

RunnerInv == RunnerTypeOK /\ MasterInv /\ CountInv /\ WorkerInv /\ TestInv /\ ReapInv

-------------------------------------------------------------------------------
\* There are finitely many workers.
LEMMA WorkersFinite == IsFiniteSet(Worker)
BY RunnerAssumption, FS_Interval DEF Worker

\* Without a failure every worker has been told to exit when the orders pipes are closed.
LEMMA AllTold ==
  ASSUME RunnerInv, pc \in {"close", "reap", "done"}, ~failed
  PROVE  listening = {} /\ dispatched = NumTests
<1>1. exited = NumWorkers /\ dispatched = NumTests
  BY RunnerAssumption DEF RunnerInv, MasterInv
<1>2. IsFiniteSet(listening)
  BY WorkersFinite, FS_Subset DEF RunnerInv, RunnerTypeOK
<1> QED BY <1>1, <1>2, RunnerAssumption, FS_CardinalityType, FS_EmptySet DEF RunnerInv, CountInv

\* Forking a worker keeps the invariant.
LEMMA SpawnKeeps ==
  ASSUME RunnerInv, Spawn PROVE RunnerInv'
<1>1. RunnerTypeOK'
  BY RunnerAssumption DEF RunnerInv, RunnerTypeOK, MasterInv, WorkerInv, Spawn, Worker, Test, Nothing, Quit
<1>2. MasterInv'
  BY RunnerAssumption DEF RunnerInv, RunnerTypeOK, MasterInv, WorkerInv, Readable, Spawn, Worker, Test, Nothing, Quit
<1>3. CountInv'
  <2>1. pc' # "spawn" => listening' = 0 .. NumWorkers - 1
    BY RunnerAssumption DEF RunnerInv, RunnerTypeOK, MasterInv, Spawn
  <2>2. listening' \ first' = {} /\ passed' = 0 /\ dispatched' = 0 /\ exited' = 0
    BY RunnerAssumption DEF RunnerInv, RunnerTypeOK, MasterInv, Spawn, Worker
  <2>3. Cardinality(0 .. NumWorkers - 1) = NumWorkers
    BY RunnerAssumption, FS_Interval
  <2>4. Cardinality(listening' \ first') = 0
    BY <2>2, FS_EmptySet
  <2>5. pc' # "spawn" => Cardinality(listening') = NumWorkers
    BY <2>1, <2>3
  <2> QED BY <2>2, <2>4, <2>5, RunnerAssumption DEF CountInv
<1>4. WorkerInv'
  BY RunnerAssumption DEF RunnerInv, RunnerTypeOK, MasterInv, WorkerInv, TestInv, Readable, Spawn, Worker, Test, Nothing, Quit
<1>5. TestInv'
  BY RunnerAssumption DEF RunnerInv, RunnerTypeOK, MasterInv, TestInv, WorkerInv, Holds, Spawn, Worker, Test, Nothing, Quit
<1>6. ReapInv'
  BY RunnerAssumption DEF RunnerInv, RunnerTypeOK, MasterInv, ReapInv, WorkerInv, Spawn, Worker, Test, Nothing, Quit
<1> QED BY <1>1, <1>2, <1>3, <1>4, <1>5, <1>6 DEF RunnerInv

\* select keeps the invariant.
LEMMA SelectKeeps ==
  ASSUME RunnerInv, Select PROVE RunnerInv'
<1>1. RunnerTypeOK'
  BY RunnerAssumption DEF RunnerInv, RunnerTypeOK, MasterInv, WorkerInv, Select, Readable, masterVars, workerVars, Worker, Test, Quit, Nothing
<1>2. MasterInv'
  BY RunnerAssumption DEF RunnerInv, RunnerTypeOK, MasterInv, WorkerInv, Select, Readable, masterVars, workerVars, Worker, Test, Quit, Nothing
<1>3. CountInv'
  BY RunnerAssumption DEF RunnerInv, RunnerTypeOK, MasterInv, CountInv, Select, Readable, masterVars, workerVars, Worker, Test, Quit, Nothing
<1>4. WorkerInv'
  BY RunnerAssumption DEF RunnerInv, RunnerTypeOK, MasterInv, WorkerInv, TestInv, Select, Readable, masterVars, workerVars, Worker, Test, Quit, Nothing
<1>5. TestInv'
  BY RunnerAssumption DEF RunnerInv, RunnerTypeOK, MasterInv, TestInv, WorkerInv, Holds, Select, Readable, masterVars, workerVars, Worker, Test, Quit, Nothing
<1>6. ReapInv'
  BY RunnerAssumption DEF RunnerInv, RunnerTypeOK, MasterInv, ReapInv, WorkerInv, Select, Readable, masterVars, workerVars, Worker, Test, Quit, Nothing
<1> QED BY <1>1, <1>2, <1>3, <1>4, <1>5, <1>6 DEF RunnerInv

\* Finding the end of a pipe keeps the invariant.
LEMMA FindFailureKeeps ==
  ASSUME NEW j \in Worker, RunnerInv, FindFailure(j) PROVE RunnerInv'
<1>1. RunnerTypeOK'
  BY RunnerAssumption DEF RunnerInv, RunnerTypeOK, MasterInv, WorkerInv, FindFailure, Scanned, Readable, workerVars, Worker, Test, Quit, Nothing
<1>2. MasterInv'
  BY RunnerAssumption DEF RunnerInv, RunnerTypeOK, MasterInv, WorkerInv, FindFailure, Scanned, Readable, workerVars, Worker, Test, Quit, Nothing
<1>3. CountInv'
  BY RunnerAssumption DEF RunnerInv, RunnerTypeOK, MasterInv, CountInv, FindFailure, Scanned, Readable, workerVars, Worker, Test, Quit, Nothing
<1>4. WorkerInv'
  BY RunnerAssumption DEF RunnerInv, RunnerTypeOK, MasterInv, WorkerInv, TestInv, FindFailure, Scanned, Readable, workerVars, Worker, Test, Quit, Nothing
<1>5. TestInv'
  BY RunnerAssumption DEF RunnerInv, RunnerTypeOK, MasterInv, TestInv, WorkerInv, Holds, FindFailure, Scanned, Readable, workerVars, Worker, Test, Quit, Nothing
<1>6. ReapInv'
  BY RunnerAssumption DEF RunnerInv, RunnerTypeOK, MasterInv, ReapInv, WorkerInv, FindFailure, Scanned, Readable, workerVars, Worker, Test, Quit, Nothing
<1> QED BY <1>1, <1>2, <1>3, <1>4, <1>5, <1>6 DEF RunnerInv

\* Answering a request keeps the invariant.
LEMMA AnswerKeeps ==
  ASSUME NEW j \in Worker, RunnerInv, Answer(j) PROVE RunnerInv'
<1>1. RunnerTypeOK'
  BY RunnerAssumption DEF RunnerInv, RunnerTypeOK, MasterInv, WorkerInv, Answer, Scanned, Readable, Worker, Test, Quit, Nothing
<1>2. CountInv'
  <2>1. IsFiniteSet(listening) /\ IsFiniteSet(listening \ first)
    BY WorkersFinite, FS_Subset DEF RunnerInv, RunnerTypeOK
  <2>2. j \in listening /\ pc = "scan" /\ pc' # "spawn"
    BY DEF RunnerInv, MasterInv, Answer, Scanned
  <2>3. Cardinality(listening) \in Nat /\ Cardinality(listening \ first) \in Nat
    BY <2>1, FS_CardinalityType
  <2>4. Cardinality(listening \ {j}) = Cardinality(listening) - 1
    BY <2>1, <2>2, FS_RemoveElement
  <2>5. CASE dispatched < NumTests
    <3>0. listening' = listening /\ first' = first \ {j}
      BY <2>5 DEF Answer
    <3>1. listening' \ first' = (listening \ first) \cup {j}
      BY <2>2, <3>0
    <3>2. Cardinality(listening' \ first') =
            IF j \in first THEN Cardinality(listening \ first) + 1 ELSE Cardinality(listening \ first)
      <4>1. CASE j \in first
        <5>1. j \notin listening \ first
          BY <4>1
        <5>2. Cardinality((listening \ first) \cup {j}) = Cardinality(listening \ first) + 1
          BY <2>1, <5>1, FS_AddElement
        <5> QED BY <3>1, <4>1, <5>2
      <4>2. CASE j \notin first
        <5>1. listening' \ first' = listening \ first
          BY <2>2, <3>0, <4>2
        <5> QED BY <4>2, <5>1
      <4> QED BY <4>1, <4>2
    <3>3. exited' + Cardinality(listening') = NumWorkers
      BY <2>2, <2>5 DEF RunnerInv, CountInv, Answer
    <3>4. passed' + Cardinality(listening' \ first') = dispatched'
      BY <2>3, <2>5, <3>2 DEF RunnerInv, RunnerTypeOK, CountInv, Answer
    <3> QED BY <3>3, <3>4 DEF CountInv
  <2>6. CASE ~(dispatched < NumTests)
    <3>1. listening' \ first' = (listening \ first) \ {j}
      BY <2>2, <2>6 DEF Answer
    <3>2. Cardinality(listening' \ first') = IF j \in first THEN Cardinality(listening \ first)
                                            ELSE Cardinality(listening \ first) - 1
      BY <2>1, <2>2, <3>1, FS_RemoveElement
    <3>3. exited' + Cardinality(listening') = NumWorkers
      BY <2>2, <2>3, <2>4, <2>6 DEF RunnerInv, RunnerTypeOK, CountInv, Answer
    <3>4. passed' + Cardinality(listening' \ first') = dispatched'
      BY <2>3, <2>6, <3>2 DEF RunnerInv, RunnerTypeOK, CountInv, Answer
    <3> QED BY <3>3, <3>4 DEF CountInv
  <2> QED BY <2>5, <2>6
<1>3. MasterInv'
  <2>1. IsFiniteSet(listening') /\ Cardinality(listening') \in Nat
    BY <1>1, WorkersFinite, FS_Subset, FS_CardinalityType DEF RunnerTypeOK, Worker
  <2>2. pc' # "spawn" /\ exited' + Cardinality(listening') = NumWorkers
    BY <1>2 DEF CountInv, Answer
  <2>3. exited' <= NumWorkers
    BY <1>1, <2>1, <2>2, RunnerAssumption DEF RunnerTypeOK
  <2> QED BY <1>1, <2>3, RunnerAssumption
          DEF RunnerInv, RunnerTypeOK, MasterInv, WorkerInv, Answer, Scanned, Readable, Worker
<1>4. WorkerInv'
  BY RunnerAssumption DEF RunnerInv, RunnerTypeOK, MasterInv, WorkerInv, TestInv, Answer, Scanned, Readable, Worker, Test, Quit, Nothing
<1>5. TestInv'
  <2>1. \A t \in Test : result'[t] = "passed" => outcome'[t] = "pass"
    BY RunnerAssumption DEF RunnerInv, RunnerTypeOK, MasterInv, WorkerInv, TestInv, Holds, Answer, Scanned, Readable, Worker, Test, Quit, Nothing
  <2>2. \A t \in Test : result'[t] = "failed" =>
          outcome'[t] = "fail" /\ \E k \in listening' : mode'[k] = "dead"
    BY RunnerAssumption DEF RunnerInv, RunnerTypeOK, MasterInv, WorkerInv, TestInv, Holds, Answer, Scanned, Readable, Worker, Test, Quit, Nothing
  <2>3. failed' => \E t \in Test : result'[t] = "failed"
    BY RunnerAssumption DEF RunnerInv, RunnerTypeOK, MasterInv, WorkerInv, TestInv, Holds, Answer, Scanned, Readable, Worker, Test, Quit, Nothing
  <2>4. \A k \in Worker, t \in Test : Holds(k, t)' => result'[t] = "none" /\ t < dispatched'
    BY RunnerAssumption DEF RunnerInv, RunnerTypeOK, MasterInv, WorkerInv, TestInv, Holds, Answer, Scanned, Readable, Worker, Test, Quit, Nothing
  <2>5. \A t \in Test : result'[t] # "none" => t < dispatched'
    BY RunnerAssumption DEF RunnerInv, RunnerTypeOK, MasterInv, WorkerInv, TestInv, Holds, Answer, Scanned, Readable, Worker, Test, Quit, Nothing
  <2>6. \A k, l \in Worker, t \in Test : Holds(k, t)' /\ Holds(l, t)' => k = l
    BY RunnerAssumption DEF RunnerInv, RunnerTypeOK, MasterInv, WorkerInv, TestInv, Holds, Answer, Scanned, Readable, Worker, Test, Quit, Nothing
  <2>7. ~failed' => \A t \in Test :
          t < dispatched' => result'[t] # "none" \/ \E k \in Worker : Holds(k, t)'
    <3>1. mode[j] = "wait" /\ orders[j] = Nothing /\ mode' = mode /\ task' = task
      BY DEF RunnerInv, MasterInv, WorkerInv, Answer, Scanned
    <3>2. \A k \in Worker, t \in Test : Holds(k, t) => k # j
      BY <3>1 DEF Holds, Nothing, Test
    <3>3. /\ orders' = [orders EXCEPT ![j] = IF dispatched < NumTests THEN dispatched ELSE Quit]
          /\ dispatched' = (IF dispatched < NumTests THEN dispatched + 1 ELSE dispatched)
          /\ result' = result /\ failed' = failed
      BY DEF Answer
    <3>6. orders \in [Worker -> Test \cup {Quit, Nothing}]
      BY DEF RunnerInv, RunnerTypeOK
    <3>11. \A k \in Worker : k # j => orders'[k] = orders[k]
      BY <3>3, <3>6
    <3>4. \A k \in Worker, t \in Test : Holds(k, t) => Holds(k, t)'
      BY <3>1, <3>2, <3>11 DEF Holds
    <3>5. dispatched' # dispatched => orders'[j] = dispatched
      BY <3>3, <3>6
    <3>7. dispatched' \in {dispatched, dispatched + 1}
      BY RunnerAssumption DEF RunnerInv, RunnerTypeOK, MasterInv, WorkerInv, TestInv, Holds, Answer, Scanned, Readable, Worker, Test, Quit, Nothing
    <3>8. SUFFICES ASSUME ~failed, NEW t \in Test, t < dispatched'
                   PROVE  result[t] # "none" \/ \E k \in Worker : Holds(k, t)'
      BY <3>3
    <3>9. CASE t = dispatched
      BY <3>5, <3>8, <3>9, RunnerAssumption DEF Holds, Test
    <3>10. CASE t # dispatched
      <4>1. t < dispatched
        BY <3>7, <3>8, <3>10, RunnerAssumption DEF RunnerInv, RunnerTypeOK, Test
      <4> QED BY <3>4, <3>8, <4>1 DEF RunnerInv, TestInv
    <3> QED BY <3>9, <3>10
  <2> QED BY <2>1, <2>2, <2>3, <2>4, <2>5, <2>6, <2>7 DEF TestInv
<1>6. ReapInv'
  BY RunnerAssumption DEF RunnerInv, RunnerTypeOK, MasterInv, ReapInv, WorkerInv, Answer, Scanned, Readable, Worker, Test, Quit, Nothing
<1> QED BY <1>1, <1>2, <1>3, <1>4, <1>5, <1>6 DEF RunnerInv

\* Closing the orders pipes keeps the invariant.
LEMMA CloseMastersKeeps ==
  ASSUME RunnerInv, CloseMasters PROVE RunnerInv'
<1>1. RunnerTypeOK'
  BY RunnerAssumption DEF RunnerInv, RunnerTypeOK, MasterInv, WorkerInv, CloseMasters, workerVars, Worker, Test, Quit, Nothing
<1>2. MasterInv'
  BY RunnerAssumption DEF RunnerInv, RunnerTypeOK, MasterInv, WorkerInv, Readable, CloseMasters, workerVars, Worker, Test, Quit, Nothing
<1>3. CountInv'
  BY RunnerAssumption DEF RunnerInv, RunnerTypeOK, MasterInv, CountInv, CloseMasters, workerVars, Worker, Test, Quit, Nothing
<1>4. WorkerInv'
  BY RunnerAssumption DEF RunnerInv, RunnerTypeOK, MasterInv, WorkerInv, TestInv, Readable, CloseMasters, workerVars, Worker, Test, Quit, Nothing
<1>5. TestInv'
  BY RunnerAssumption DEF RunnerInv, RunnerTypeOK, MasterInv, TestInv, WorkerInv, Holds, CloseMasters, workerVars, Worker, Test, Quit, Nothing
<1>6. ReapInv'
  BY RunnerAssumption DEF RunnerInv, RunnerTypeOK, MasterInv, ReapInv, WorkerInv, CloseMasters, workerVars, Worker, Test, Quit, Nothing
<1> QED BY <1>1, <1>2, <1>3, <1>4, <1>5, <1>6 DEF RunnerInv

\* SIGKILL keeps the invariant.
LEMMA KillKeeps ==
  ASSUME RunnerInv, Kill PROVE RunnerInv'
<1>1. RunnerTypeOK'
  BY RunnerAssumption DEF RunnerInv, RunnerTypeOK, MasterInv, WorkerInv, Kill, masterVars, Worker, Test, Quit, Nothing
<1>2. MasterInv'
  BY RunnerAssumption DEF RunnerInv, RunnerTypeOK, MasterInv, WorkerInv, Readable, Kill, masterVars, Worker, Test, Quit, Nothing
<1>3. CountInv'
  BY RunnerAssumption DEF RunnerInv, RunnerTypeOK, MasterInv, CountInv, Kill, masterVars, Worker, Test, Quit, Nothing
<1>4. WorkerInv'
  BY RunnerAssumption DEF RunnerInv, RunnerTypeOK, MasterInv, WorkerInv, TestInv, Readable, Kill, masterVars, Worker, Test, Quit, Nothing
<1>5. TestInv'
  BY RunnerAssumption DEF RunnerInv, RunnerTypeOK, MasterInv, TestInv, WorkerInv, Holds, Kill, masterVars, Worker, Test, Quit, Nothing
<1>6. ReapInv'
  BY RunnerAssumption DEF RunnerInv, RunnerTypeOK, MasterInv, ReapInv, WorkerInv, Kill, masterVars, Worker, Test, Quit, Nothing
<1> QED BY <1>1, <1>2, <1>3, <1>4, <1>5, <1>6 DEF RunnerInv

\* waitpid keeps the invariant.
LEMMA ReapKeeps ==
  ASSUME RunnerInv, Reap PROVE RunnerInv'
<1>1. RunnerTypeOK'
  BY RunnerAssumption DEF RunnerInv, RunnerTypeOK, MasterInv, WorkerInv, Reap, workerVars, Worker, Test, Quit, Nothing
<1>2. MasterInv'
  BY RunnerAssumption DEF RunnerInv, RunnerTypeOK, MasterInv, WorkerInv, Readable, Reap, workerVars, Worker, Test, Quit, Nothing
<1>3. CountInv'
  BY RunnerAssumption DEF RunnerInv, RunnerTypeOK, MasterInv, CountInv, Reap, workerVars, Worker, Test, Quit, Nothing
<1>4. WorkerInv'
  BY RunnerAssumption DEF RunnerInv, RunnerTypeOK, MasterInv, WorkerInv, TestInv, Readable, Reap, workerVars, Worker, Test, Quit, Nothing
<1>5. TestInv'
  BY RunnerAssumption DEF RunnerInv, RunnerTypeOK, MasterInv, TestInv, WorkerInv, Holds, Reap, workerVars, Worker, Test, Quit, Nothing
<1>6. ReapInv'
  BY RunnerAssumption DEF RunnerInv, RunnerTypeOK, MasterInv, ReapInv, WorkerInv, Reap, workerVars, Worker, Test, Quit, Nothing
<1> QED BY <1>1, <1>2, <1>3, <1>4, <1>5, <1>6 DEF RunnerInv

\* A worker's request keeps the invariant.
LEMMA AskKeeps ==
  ASSUME NEW j \in Worker, RunnerInv, Ask(j) PROVE RunnerInv'
<1>1. RunnerTypeOK'
  BY RunnerAssumption DEF RunnerInv, RunnerTypeOK, MasterInv, WorkerInv, Ask, masterVars, Worker, Test, Quit, Nothing
<1>2. MasterInv'
  BY RunnerAssumption DEF RunnerInv, RunnerTypeOK, MasterInv, WorkerInv, Readable, Ask, masterVars, Worker, Test, Quit, Nothing
<1>3. CountInv'
  BY RunnerAssumption DEF RunnerInv, RunnerTypeOK, MasterInv, CountInv, Ask, masterVars, Worker, Test, Quit, Nothing
<1>4. WorkerInv'
  BY RunnerAssumption DEF RunnerInv, RunnerTypeOK, MasterInv, WorkerInv, TestInv, Readable, Ask, masterVars, Worker, Test, Quit, Nothing
<1>5. TestInv'
  <2>1. \A t \in Test : result'[t] = "passed" => outcome'[t] = "pass"
    BY RunnerAssumption DEF RunnerInv, RunnerTypeOK, MasterInv, WorkerInv, TestInv, Holds, Ask, masterVars, Worker, Test, Quit, Nothing
  <2>2. \A t \in Test : result'[t] = "failed" =>
          outcome'[t] = "fail" /\ \E k \in listening' : mode'[k] = "dead"
    BY RunnerAssumption DEF RunnerInv, RunnerTypeOK, MasterInv, WorkerInv, TestInv, Holds, Ask, masterVars, Worker, Test, Quit, Nothing
  <2>3. failed' => \E t \in Test : result'[t] = "failed"
    BY RunnerAssumption DEF RunnerInv, RunnerTypeOK, MasterInv, WorkerInv, TestInv, Holds, Ask, masterVars, Worker, Test, Quit, Nothing
  <2>4. \A k \in Worker, t \in Test : Holds(k, t)' => result'[t] = "none" /\ t < dispatched'
    BY RunnerAssumption DEF RunnerInv, RunnerTypeOK, MasterInv, WorkerInv, TestInv, Holds, Ask, masterVars, Worker, Test, Quit, Nothing
  <2>5. \A t \in Test : result'[t] # "none" => t < dispatched'
    BY RunnerAssumption DEF RunnerInv, RunnerTypeOK, MasterInv, WorkerInv, TestInv, Holds, Ask, masterVars, Worker, Test, Quit, Nothing
  <2>6. \A k, l \in Worker, t \in Test : Holds(k, t)' /\ Holds(l, t)' => k = l
    BY RunnerAssumption DEF RunnerInv, RunnerTypeOK, MasterInv, WorkerInv, TestInv, Holds, Ask, masterVars, Worker, Test, Quit, Nothing
  <2>7. ~failed' => \A t \in Test :
          t < dispatched' => result'[t] # "none" \/ \E k \in Worker : Holds(k, t)'
    <3>1. \A k \in Worker, t \in Test : Holds(k, t) => Holds(k, t)'
      BY RunnerAssumption DEF RunnerInv, RunnerTypeOK, MasterInv, WorkerInv, TestInv, Holds, Ask, masterVars, Worker, Test, Quit, Nothing
    <3> QED BY <3>1, RunnerAssumption DEF RunnerInv, RunnerTypeOK, TestInv, Ask, masterVars, Test
  <2> QED BY <2>1, <2>2, <2>3, <2>4, <2>5, <2>6, <2>7 DEF TestInv
<1>6. ReapInv'
  BY RunnerAssumption DEF RunnerInv, RunnerTypeOK, MasterInv, ReapInv, WorkerInv, Ask, masterVars, Worker, Test, Quit, Nothing
<1> QED BY <1>1, <1>2, <1>3, <1>4, <1>5, <1>6 DEF RunnerInv

\* A worker's orders or the end of its pipe keeps the invariant.
LEMMA ReceiveKeeps ==
  ASSUME NEW j \in Worker, RunnerInv, Receive(j) PROVE RunnerInv'
<1>1. RunnerTypeOK'
  BY RunnerAssumption DEF RunnerInv, RunnerTypeOK, MasterInv, WorkerInv, Receive, NoWriter, masterVars, Worker, Test, Quit, Nothing
<1>2. MasterInv'
  BY RunnerAssumption DEF RunnerInv, RunnerTypeOK, MasterInv, WorkerInv, Readable, Receive, NoWriter, masterVars, Worker, Test, Quit, Nothing
<1>3. CountInv'
  BY RunnerAssumption DEF RunnerInv, RunnerTypeOK, MasterInv, CountInv, Receive, NoWriter, masterVars, Worker, Test, Quit, Nothing
<1>4. WorkerInv'
  <2>1. pc \in {"reap", "done"} /\ ~failed => listening = {}
    BY AllTold
  <2> QED BY <2>1, RunnerAssumption
          DEF RunnerInv, RunnerTypeOK, MasterInv, WorkerInv, TestInv, Receive, NoWriter, masterVars, Worker, Test, Quit, Nothing
<1>5. TestInv'
  <2>1. \A t \in Test : result'[t] = "passed" => outcome'[t] = "pass"
    BY RunnerAssumption DEF RunnerInv, RunnerTypeOK, MasterInv, WorkerInv, TestInv, Holds, Receive, NoWriter, masterVars, Worker, Test, Quit, Nothing
  <2>2. \A t \in Test : result'[t] = "failed" =>
          outcome'[t] = "fail" /\ \E k \in listening' : mode'[k] = "dead"
    BY RunnerAssumption DEF RunnerInv, RunnerTypeOK, MasterInv, WorkerInv, TestInv, Holds, Receive, NoWriter, masterVars, Worker, Test, Quit, Nothing
  <2>3. failed' => \E t \in Test : result'[t] = "failed"
    BY RunnerAssumption DEF RunnerInv, RunnerTypeOK, MasterInv, WorkerInv, TestInv, Holds, Receive, NoWriter, masterVars, Worker, Test, Quit, Nothing
  <2>4. \A k \in Worker, t \in Test : Holds(k, t)' => result'[t] = "none" /\ t < dispatched'
    BY RunnerAssumption DEF RunnerInv, RunnerTypeOK, MasterInv, WorkerInv, TestInv, Holds, Receive, NoWriter, masterVars, Worker, Test, Quit, Nothing
  <2>5. \A t \in Test : result'[t] # "none" => t < dispatched'
    BY RunnerAssumption DEF RunnerInv, RunnerTypeOK, MasterInv, WorkerInv, TestInv, Holds, Receive, NoWriter, masterVars, Worker, Test, Quit, Nothing
  <2>6. \A k, l \in Worker, t \in Test : Holds(k, t)' /\ Holds(l, t)' => k = l
    BY RunnerAssumption DEF RunnerInv, RunnerTypeOK, MasterInv, WorkerInv, TestInv, Holds, Receive, NoWriter, masterVars, Worker, Test, Quit, Nothing
  <2>7. ~failed' => \A t \in Test :
          t < dispatched' => result'[t] # "none" \/ \E k \in Worker : Holds(k, t)'
    <3>1. \A k \in Worker, t \in Test : ~failed /\ Holds(k, t) => Holds(k, t)'
      BY RunnerAssumption DEF RunnerInv, RunnerTypeOK, MasterInv, WorkerInv, TestInv, Holds, Receive, NoWriter, masterVars, Worker, Test, Quit, Nothing
    <3> QED BY <3>1, RunnerAssumption DEF RunnerInv, RunnerTypeOK, TestInv, Receive, masterVars, Test
  <2> QED BY <2>1, <2>2, <2>3, <2>4, <2>5, <2>6, <2>7 DEF TestInv
<1>6. ReapInv'
  BY RunnerAssumption DEF RunnerInv, RunnerTypeOK, MasterInv, ReapInv, WorkerInv, Receive, NoWriter, masterVars, Worker, Test, Quit, Nothing
<1> QED BY <1>1, <1>2, <1>3, <1>4, <1>5, <1>6 DEF RunnerInv

\* The end of a test keeps the invariant.
LEMMA FinishKeeps ==
  ASSUME NEW j \in Worker, RunnerInv, Finish(j) PROVE RunnerInv'
<1>1. RunnerTypeOK'
  BY RunnerAssumption DEF RunnerInv, RunnerTypeOK, MasterInv, WorkerInv, Finish, masterVars, Worker, Test, Quit, Nothing
<1>2. MasterInv'
  BY RunnerAssumption DEF RunnerInv, RunnerTypeOK, MasterInv, WorkerInv, Readable, Finish, masterVars, Worker, Test, Quit, Nothing
<1>3. CountInv'
  BY RunnerAssumption DEF RunnerInv, RunnerTypeOK, MasterInv, CountInv, Finish, masterVars, Worker, Test, Quit, Nothing
<1>4. WorkerInv'
  BY RunnerAssumption DEF RunnerInv, RunnerTypeOK, MasterInv, WorkerInv, TestInv, Readable, Finish, masterVars, Worker, Test, Quit, Nothing
<1>5. TestInv'
  <2>1. \A t \in Test : result'[t] = "passed" => outcome'[t] = "pass"
    BY RunnerAssumption DEF RunnerInv, RunnerTypeOK, MasterInv, WorkerInv, TestInv, Holds, Finish, masterVars, Worker, Test, Quit, Nothing
  <2>2. \A t \in Test : result'[t] = "failed" =>
          outcome'[t] = "fail" /\ \E k \in listening' : mode'[k] = "dead"
    BY RunnerAssumption DEF RunnerInv, RunnerTypeOK, MasterInv, WorkerInv, TestInv, Holds, Finish, masterVars, Worker, Test, Quit, Nothing
  <2>3. failed' => \E t \in Test : result'[t] = "failed"
    BY RunnerAssumption DEF RunnerInv, RunnerTypeOK, MasterInv, WorkerInv, TestInv, Holds, Finish, masterVars, Worker, Test, Quit, Nothing
  <2>4. \A k \in Worker, t \in Test : Holds(k, t)' => result'[t] = "none" /\ t < dispatched'
    BY RunnerAssumption DEF RunnerInv, RunnerTypeOK, MasterInv, WorkerInv, TestInv, Holds, Finish, masterVars, Worker, Test, Quit, Nothing
  <2>5. \A t \in Test : result'[t] # "none" => t < dispatched'
    BY RunnerAssumption DEF RunnerInv, RunnerTypeOK, MasterInv, WorkerInv, TestInv, Holds, Finish, masterVars, Worker, Test, Quit, Nothing
  <2>6. \A k, l \in Worker, t \in Test : Holds(k, t)' /\ Holds(l, t)' => k = l
    BY RunnerAssumption DEF RunnerInv, RunnerTypeOK, MasterInv, WorkerInv, TestInv, Holds, Finish, masterVars, Worker, Test, Quit, Nothing
  <2>7. ~failed' => \A t \in Test :
          t < dispatched' => result'[t] # "none" \/ \E k \in Worker : Holds(k, t)'
    <3>1. \A k \in Worker, t \in Test : Holds(k, t) => Holds(k, t)' \/ t = task[j]
      BY RunnerAssumption DEF RunnerInv, RunnerTypeOK, MasterInv, WorkerInv, TestInv, Holds, Finish, masterVars, Worker, Test, Quit, Nothing
    <3>2. task[j] \in Test /\ result'[task[j]] # "none"
      BY RunnerAssumption DEF RunnerInv, RunnerTypeOK, MasterInv, WorkerInv, TestInv, Holds, Finish, masterVars, Worker, Test, Quit, Nothing
    <3>3. \A t \in Test : result[t] # "none" => result'[t] # "none"
      BY RunnerAssumption DEF RunnerInv, RunnerTypeOK, MasterInv, WorkerInv, TestInv, Holds, Finish, masterVars, Worker, Test, Quit, Nothing
    <3> QED BY <3>1, <3>2, <3>3, RunnerAssumption DEF RunnerInv, RunnerTypeOK, TestInv, Finish, masterVars, Test
  <2> QED BY <2>1, <2>2, <2>3, <2>4, <2>5, <2>6, <2>7 DEF TestInv
<1>6. ReapInv'
  BY RunnerAssumption DEF RunnerInv, RunnerTypeOK, MasterInv, ReapInv, WorkerInv, Finish, masterVars, Worker, Test, Quit, Nothing
<1> QED BY <1>1, <1>2, <1>3, <1>4, <1>5, <1>6 DEF RunnerInv

\* Before the master forks, no test has a result.
LEMMA InitInv == RunnerInit => RunnerInv
<1> SUFFICES ASSUME RunnerInit PROVE RunnerInv
  OBVIOUS
<1>1. Cardinality(listening \ first) = 0 /\ listening = {} /\ listening = 0 .. at - 1
  BY FS_EmptySet DEF RunnerInit
<1>2. RunnerTypeOK
  <2>1. at \in 0 .. NumWorkers /\ dispatched \in 0 .. NumTests /\ exited \in Nat /\ passed \in Int
    BY RunnerAssumption DEF RunnerInit
  <2>2. mode \in [Worker -> {"none", "ask", "wait", "run", "dead"}]
    BY DEF RunnerInit
  <2>3. task \in [Worker -> Test \cup {Nothing}]
    BY DEF RunnerInit
  <2>4. orders \in [Worker -> Test \cup {Quit, Nothing}]
    BY DEF RunnerInit
  <2>5. result \in [Test -> {"none", "passed", "failed"}]
    BY DEF RunnerInit
  <2> QED BY <2>1, <2>2, <2>3, <2>4, <2>5 DEF RunnerInit, RunnerTypeOK
<1>5. MasterInv
  <2>1. \A j \in Worker : mode[j] = "none" /\ j >= at
    BY DEF RunnerInit, Worker
  <2> QED BY <1>1, <2>1, RunnerAssumption DEF RunnerInit, MasterInv
<1>3. CountInv
  BY <1>1 DEF RunnerInit, CountInv
<1>4. WorkerInv /\ TestInv /\ ReapInv
  BY RunnerAssumption DEF RunnerInit, WorkerInv, TestInv, ReapInv, Holds, Test, Quit, Nothing
<1> QED BY <1>2, <1>5, <1>3, <1>4 DEF RunnerInv

\* Every step of the master, of a worker or of a test keeps the invariant.
LEMMA StepInv == RunnerInv /\ [RunnerNext]_runnerVars => RunnerInv'
<1> SUFFICES ASSUME RunnerInv, [RunnerNext]_runnerVars PROVE RunnerInv'
  OBVIOUS
<1>1. CASE UNCHANGED runnerVars
  BY <1>1 DEF runnerVars, masterVars, workerVars, RunnerInv, RunnerTypeOK, MasterInv, CountInv,
              WorkerInv, TestInv, ReapInv, Holds, Readable
<1> QED
  BY <1>1, SpawnKeeps, SelectKeeps, FindFailureKeeps, AnswerKeeps, CloseMastersKeeps, KillKeeps,
     ReapKeeps, AskKeeps, ReceiveKeeps, FinishKeeps DEF RunnerNext, MasterStep, WorkerStep

\* Without a failure every worker has been told to exit, so no test is left uncounted.
LEMMA InvVerdict == RunnerInv => VerdictIsRight
<1> SUFFICES ASSUME RunnerInv PROVE VerdictIsRight
  OBVIOUS
<1>1. /\ failed => \E t \in Test : result[t] = "failed"
      /\ \A j, k \in Worker :
           mode[j] = "run" /\ mode[k] = "run" /\ task[j] = task[k] => j = k
      /\ \A j \in Worker : mode[j] = "run" => result[task[j]] = "none"
  BY DEF RunnerInv, WorkerInv, TestInv, Holds
<1>2. ASSUME pc = "done", ~failed
      PROVE  passed = NumTests /\ \A t \in Test : result[t] = "passed"
  <2>1. listening = {} /\ dispatched = NumTests
    BY <1>2, AllTold
  <2>2. passed = NumTests
    BY <2>1, FS_EmptySet, RunnerAssumption DEF RunnerInv, RunnerTypeOK, CountInv
  <2>3. \A t \in Test, j \in Worker : ~Holds(j, t)
    BY <1>2, <2>1 DEF RunnerInv, RunnerTypeOK, WorkerInv, ReapInv, Holds, Nothing, Test
  <2>4. \A t \in Test : result[t] # "none"
    BY <1>2, <2>1, <2>3, RunnerAssumption DEF RunnerInv, TestInv, Test
  <2>5. \A t \in Test : result[t] # "failed"
    BY <2>1 DEF RunnerInv, TestInv
  <2> QED BY <2>2, <2>4, <2>5 DEF RunnerInv, RunnerTypeOK
<1> QED BY <1>1, <1>2 DEF VerdictIsRight, RunnerInv, ReapInv

\* Type correctness of the test runner.
THEOREM RunnerTyped == RunnerSpec => []RunnerTypeOK
<1>1. RunnerInv => RunnerTypeOK
  BY DEF RunnerInv
<1> QED BY InitInv, StepInv, <1>1, PTL DEF RunnerSpec

\* The verdict of the parallel runner is right (testbench.cpp 82-195), for every number of
\* workers and tests.
THEOREM RunnerVerdict == RunnerSpec => []VerdictIsRight
BY InitInv, StepInv, InvVerdict, PTL DEF RunnerSpec
===============================================================================
