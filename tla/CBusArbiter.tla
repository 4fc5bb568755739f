----------------------------- MODULE CBusArbiter ------------------------------
(***************************************************************************)
(* src/source/util/CBusArbiter.sv: many cache buses share one.  The input  *)
(* of the lowest number wins, and keeps the bus until its last beat.       *)
(***************************************************************************)
EXTENDS CBus

CONSTANTS NumInputs

ASSUME InputsAssumption == NumInputs \in Nat \ {0}

VARIABLES
  arb_busy,  \* busy
  arb_index  \* index: the input served while busy

arbVars == <<arb_busy, arb_index>>

Input == 0 .. NumInputs - 1

ArbiterTypeOK == arb_busy \in BOOLEAN /\ arb_index \in Input

ArbiterInit == arb_busy = FALSE /\ arb_index = 0

NoReq  == [valid |-> FALSE, is_write |-> FALSE, tag |-> 0, index |-> CHOOSE i \in Index : TRUE,
           offset |-> 0, strobe |-> {}, data |-> ZeroWord, len |-> 1]
NoResp == [ready |-> FALSE, last |-> FALSE, data |-> ZeroWord]

\* The output drives the selected input once it is registered, and nothing before.
oreq(ireqs) == IF arb_busy THEN ireqs[arb_index] ELSE NoReq

\* Slip: the last valid input wins.
SelectLast(ireqs) ==
  LET valid == {i \in Input : ireqs[i].valid} IN
  IF valid = {} THEN 0 ELSE CHOOSE i \in valid : \A j \in valid : j <= i

\* The first valid input, or input 0 when there is none.
Select(ireqs) ==
  LET valid == {i \in Input : ireqs[i].valid} IN
  IF valid = {} THEN 0 ELSE CHOOSE i \in valid : \A j \in valid : i <= j

\* Slip: every input sees the response.
irespToAll(i, oresp) == IF arb_busy THEN oresp ELSE NoResp

\* The response of input i.
iresp(i, oresp) == IF arb_busy /\ arb_index = i THEN oresp ELSE NoResp

\* Slip: granted without a look at valid.
ArbiterGrantsNobody(ireqs, oresp) ==
  IF arb_busy
  THEN arb_busy' = ~oresp.last /\ UNCHANGED arb_index
  ELSE arb_busy' = TRUE /\ arb_index' = Select(ireqs)

\* Slip: the input is selected again in every cycle, as in CBusMultiplexer.sv.
ArbiterSwitches(ireqs, oresp) ==
  /\ arb_busy' = ((arb_busy /\ ~oresp.last) \/ (~arb_busy /\ ireqs[Select(ireqs)].valid))
  /\ arb_index' = Select(ireqs)

ArbiterCycle(ireqs, oresp) ==
  IF arb_busy
  THEN arb_busy' = ~oresp.last /\ UNCHANGED arb_index
  ELSE arb_busy' = ireqs[Select(ireqs)].valid /\ arb_index' = Select(ireqs)
===============================================================================
