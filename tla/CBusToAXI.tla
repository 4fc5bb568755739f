------------------------------ MODULE CBusToAXI -------------------------------
(***************************************************************************)
(* src/source/util/CBusToAXI.sv: one cache bus request becomes one AXI     *)
(* burst.  Its five channels are handshaken independently; the next        *)
(* request waits until all of them have ended, but the requester is told   *)
(* `last` with its last word, perhaps before AW and always before B.       *)
(***************************************************************************)
EXTENDS CBus

VARIABLES
  in_issue,   \* the channels of the burst that have not ended
  saved_req,  \* the request of the burst
  count       \* beats that follow the current one

cvtVars == <<in_issue, saved_req, count>>

Channel == {"AR", "R", "AW", "W", "B"}

\* What the AXI slave drives in a cycle: for each channel its arready, rvalid, awready,
\* wready or bvalid, and rlast and rdata.
SlaveSignals == [on: SUBSET Channel, rlast: BOOLEAN, rdata: Word]

ConverterTypeOK ==
  /\ in_issue \subseteq Channel
  /\ saved_req \in CBusReq
  /\ count \in 0 .. LineLen - 1

\* Only in_issue is reset; the others are written before they are read.
ConverterInit ==
  /\ in_issue = {}
  /\ saved_req \in CBusReq
  /\ count \in 0 .. LineLen - 1

is_last == count = 0

Handshake(axi) == in_issue \cap axi.on

\* The channels whose last transfer is in this cycle.
Ended(axi) == {c \in Handshake(axi) : (c = "R" => axi.rlast) /\ (c = "W" => is_last)}

\* Slip: every beat is the last.
crespAlwaysLast(axi) ==
  LET ready == Handshake(axi) \cap {"W", "R"} # {} IN
  [ready |-> ready, last |-> ready, data |-> axi.rdata]

cresp(axi) ==
  LET ready == Handshake(axi) \cap {"W", "R"} # {} IN
  [ready |-> ready,
   last  |-> ready /\ ("R" \in in_issue => axi.rlast) /\ is_last,
   data  |-> axi.rdata]

\* Slip: the write response is not waited for.
NextIssueWithoutB(creq) == IF creq.is_write THEN {"AW", "W"} ELSE {"AR", "R"}

NextIssue(creq) == IF creq.is_write THEN {"AW", "W", "B"} ELSE {"AR", "R"}

\* An ongoing burst.
ConverterBusy(axi) ==
  /\ in_issue # {}
  /\ count' = IF cresp(axi).ready /\ ~cresp(axi).last THEN (count - 1) % LineLen ELSE count
  /\ in_issue' = in_issue \ Ended(axi)
  /\ UNCHANGED saved_req

\* No burst: the request is saved, and issued when it is valid.
ConverterIdle(creq) ==
  /\ in_issue = {}
  /\ in_issue' = IF creq.valid THEN NextIssue(creq) ELSE {}
  /\ saved_req' = creq
  /\ count' = creq.len - 1

ConverterCycle(creq, axi) == ConverterBusy(axi) \/ ConverterIdle(creq)
===============================================================================
