---------------------------- MODULE MultiPortRAM -----------------------------
(***************************************************************************)
(* The three memories with several write ports of src/source/ooo/src/util, *)
(* one of which VRAM.sv instantiates: FFRAM keeps words in registers;      *)
(* LVTRAM a copy per write port and, in an FFRAM of its own, the port each *)
(* address was last written through; XORRAM shares the sum of which is the *)
(* word.  BypassBuffer corrects what the last two read while it is         *)
(* written.                                                                *)
(*                                                                         *)
(* A word is one bit: no design lets a bit see another.  The copies kept   *)
(* for each read port never differ, so there is one.                       *)
(***************************************************************************)
EXTENDS Integers

CONSTANT Address

WPort == 0 .. 2   \* N_WRITE = 3
Bit   == BOOLEAN

VARIABLES
  backend,    \* BACKEND: "ff", "lvt" or "xor"
  word,       \* FFRAM's registers
  owner,      \* the port that last wrote an address
  bank,       \* bank[i][a]: the distributed RAM behind write port i
  rdata,
  raddr,      \* the address rdata answers
  reference   \* the vector `ref` of the bench

ramVars == <<backend, word, owner, bank, rdata, raddr, reference>>

\* A write port; the address and the data of one that is not enabled are not looked at.
NoWrite == [en |-> FALSE, addr |-> CHOOSE a \in Address : TRUE, data |-> FALSE]
Write   == [en: {TRUE}, addr: Address, data: Bit] \cup {NoWrite}

RAMInit ==
  /\ backend \in {"ff", "lvt", "xor"}
  /\ word = [a \in Address |-> FALSE]
  /\ owner = [a \in Address |-> 0]
  /\ bank = [i \in WPort |-> [a \in Address |-> FALSE]]
  /\ rdata = FALSE
  /\ raddr \in Address
  /\ reference = [a \in Address |-> FALSE]

-------------------------------------------------------------------------------
\* The ports that write address a, and the last of them: the loops go up the ports.
Writers(w, a) == {i \in WPort : w[i].en /\ w[i].addr = a}
LastOf(ports) == CHOOSE i \in ports : \A k \in ports : k <= i

\* FFRAM's next: every register with the writes of this cycle.
FFNext(prev, w) ==
  [a \in Address |-> IF Writers(w, a) = {} THEN prev[a] ELSE w[LastOf(Writers(w, a))].data]

\* BypassBuffer: data was read before the writes of this cycle.
Bypass(data, w, ra) ==
  IF Writers(w, ra) = {} THEN data ELSE w[LastOf(Writers(w, ra))].data

FFCycle(w, ra) ==
  /\ word' = FFNext(word, w)
  /\ rdata' = word'[ra]
  /\ UNCHANGED <<owner, bank>>

\* The table has no latency: its output is the writer of this cycle, if there is one.
LVTCycle(w, ra) ==
  /\ owner' = FFNext(owner, [i \in WPort |-> [w[i] EXCEPT !.data = i]])
  /\ bank' = [i \in WPort |-> IF w[i].en THEN [bank[i] EXCEPT ![w[i].addr] = w[i].data] ELSE bank[i]]
  /\ rdata' = Bypass(bank[owner'[ra]][ra], w, ra)
  /\ UNCHANGED word

\* Slip: every port that is enabled writes its share.
EnAlways(w, i) == w[i].en

\* A port writes unless a later one writes the same address.
En(w, i) == w[i].en /\ \A j \in WPort : j > i => ~w[j].en \/ w[i].addr # w[j].addr

Xor(v) == (v[0] # v[1]) # v[2]

\* What port i must store for the sum of the shares to be its word.
Share(w, i) == Xor([j \in WPort |-> IF j = i THEN w[i].data ELSE bank[j][w[i].addr]])

XORCycle(w, ra) ==
  /\ bank' = [i \in WPort |-> IF En(w, i) THEN [bank[i] EXCEPT ![w[i].addr] = Share(w, i)] ELSE bank[i]]
  /\ rdata' = Bypass(Xor([j \in WPort |-> bank[j][ra]]), w, ra)
  /\ UNCHANGED <<word, owner>>

RAMCycle(w, ra) ==
  /\ CASE backend = "ff"  -> FFCycle(w, ra)
       [] backend = "lvt" -> LVTCycle(w, ra)
       [] backend = "xor" -> XORCycle(w, ra)
  /\ raddr' = ra
  /\ reference' = FFNext(reference, w)
  /\ UNCHANGED backend

RAMNext == \E w \in [WPort -> Write], ra \in Address : RAMCycle(w, ra)

RAMSpec == RAMInit /\ [][RAMNext]_ramVars

-------------------------------------------------------------------------------
\* Every read returns what the bench's vector holds after the writes of the same cycle,
\* whichever ports wrote whichever addresses before and in that cycle.
ReadsReference == rdata = reference[raddr]
===============================================================================
