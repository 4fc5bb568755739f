------------------------------ MODULE MemoryPath ------------------------------
(***************************************************************************)
(* The way from the data cache to memory in VTop.sv and mycpu_top.sv:      *)
(* DCache is input 0 of CBusArbiter, the instruction side is input 1, and  *)
(* CBusToAXI turns what the arbiter lets through into AXI bursts.          *)
(*                                                                         *)
(* The instruction side is a reader that asks for one word, as             *)
(* DBusToCBus.sv does, or for a line, as ICache.sv does.                   *)
(***************************************************************************)
EXTENDS DCache, CBusArbiter, CBusToAXI, AXIMemory

CONSTANTS
  Requests,  \* what the core asks of the data cache
  Fetches,   \* what the instruction side asks of the bus
  NoData

ASSUME PathAssumption ==
  /\ NumInputs = 2
  /\ Requests \subseteq DBusReq
  /\ Fetches \subseteq {r \in CBusReq : r.valid /\ ~r.is_write}
  /\ NoData \notin Word

VARIABLES
  fetch,  \* icreq
  got,    \* words of it received
  line    \* the words received

readerVars == <<fetch, got, line>>
vars       == <<cacheVars, arbVars, cvtVars, slaveVars, readerVars>>

ReaderTypeOK ==
  /\ fetch \in Fetches \cup {NoReq}
  /\ got \in 0 .. LineLen - 1
  /\ line \in [Offset -> Word]

ReaderInit ==
  /\ fetch = NoReq
  /\ got = 0
  /\ line = [o \in Offset |-> ZeroWord]

\* The request is held until its last word; the next may follow in the next cycle.
ReaderCycle(resp) ==
  IF ~fetch.valid \/ (resp.ready /\ resp.last)
  THEN /\ fetch' \in Fetches \cup {NoReq}
       /\ got' = 0
       /\ line' = IF fetch.valid
                  THEN [line EXCEPT ![BeatWord(fetch.offset, got)] = resp.data] ELSE line
  ELSE /\ UNCHANGED fetch
       /\ got' = IF resp.ready THEN got + 1 ELSE got
       /\ line' = IF resp.ready
                  THEN [line EXCEPT ![BeatWord(fetch.offset, got)] = resp.data] ELSE line

\* The cache ignores the bus while it waits for a request.
CacheCycle(resp) ==
  \/ \E rq \in Requests : Accept(rq)
  \/ state = "IDLE" /\ UNCHANGED cacheVars
  \/ Flush(resp)
  \/ Fetch(resp)
  \/ Serve

ireqs == [i \in Input |-> IF i = 0 THEN dcreq ELSE fetch]

\* One clock edge of everything.  A slave signal on a channel that is not in issue has
\* no effect, so `on` is drawn from the channels in issue.
Cycle(axi) ==
  LET done == Handshake(axi)
      resp == cresp(axi) IN
  /\ SlaveDrives(axi)
  /\ ConverterCycle(oreq(ireqs), axi)
  /\ ReadChannels(done, saved_req)
  /\ WriteChannels(done, saved_req,
                   [data |-> oreq(ireqs).data, strobe |-> oreq(ireqs).strobe], is_last)
  /\ ArbiterCycle(ireqs, resp)
  /\ CacheCycle(iresp(0, resp))
  /\ ReaderCycle(iresp(1, resp))

Signals == [on: SUBSET in_issue, rlast: BOOLEAN, rdata: Word]

Init == CacheInit /\ ArbiterInit /\ ConverterInit /\ SlaveInit /\ ReaderInit

Next == \E axi \in Signals : Cycle(axi)

Spec == Init /\ [][Next]_vars

\* The clock does not stop, and the slave completes every handshake it can complete.
HandshakeCycle(c) == \E axi \in Signals : c \in axi.on /\ Cycle(axi)

Fairness == WF_vars(Next) /\ \A c \in Channel : WF_vars(HandshakeCycle(c))

FairSpec == Spec /\ Fairness

-------------------------------------------------------------------------------
TypeOK ==
  /\ CacheTypeOK
  /\ ArbiterTypeOK
  /\ ConverterTypeOK
  /\ SlaveTypeOK
  /\ ReaderTypeOK

DataInIssue == in_issue \cap {"R", "W"} # {}

\* The arbiter never serves an input that has withdrawn its request, for it would wait for
\* a last beat that no one asked for, and every input with it; and whoever is granted sees
\* the beats of its own burst only: while words move, the burst in the converter is the
\* granted request, although a granted request may wait behind the address and response
\* channels of the burst before it.
BeatsBelongToGrant ==
  /\ arb_busy => ireqs[arb_index].valid
  /\ DataInIssue =>
       /\ arb_busy
       /\ LET r == ireqs[arb_index] IN
            /\ <<r.is_write, r.tag, r.index, r.offset, r.len>> =
               <<saved_req.is_write, saved_req.tag, saved_req.index, saved_req.offset, saved_req.len>>
            /\ count = r.len - 1 - (IF arb_index = 0 THEN cur ELSE got)

\* No burst overtakes the one before it: a read is in issue only when no write waits for
\* its B, so it cannot return words from before that write.
NoReadPastWrite == in_issue \cap {"AR", "R"} # {} => wr = NoWrite

\* Every word the instruction side receives is the word of memory at its place, and it
\* takes no word of the data side's bursts for its own.
FetchGetsMemory ==
  [][/\ line' # line => arb_index = 1 /\ rd.busy
     /\ arb_index = 1 /\ rd.busy /\ rd' # rd =>
          LET o == BeatWord(fetch.offset, got) IN
          line'[o] = mem[fetch.tag][fetch.index][o]]_vars

-------------------------------------------------------------------------------
\* What the cache sees of all this is the memory device of the test bench: the words
\* written are the ones whose beats have passed, and a transaction lasts as long as
\* words move.
PassedWords ==
  IF wr.n = 0 THEN mem
  ELSE [mem EXCEPT ![saved_req.tag][saved_req.index] =
                     Written(@, saved_req.offset, wr.n, wr.beats)]

DeviceIdle == [busy |-> FALSE, is_write |-> FALSE, tag |-> 0,
               index |-> CHOOSE i \in Index : TRUE, start |-> 0, addr |-> 0, n |-> 1, len |-> 1]

DeviceTx ==
  IF arb_busy /\ arb_index = 0 /\ DataInIssue
  THEN LET k == saved_req.len - 1 - count IN
       [busy |-> TRUE, is_write |-> saved_req.is_write, tag |-> saved_req.tag,
        index |-> saved_req.index, start |-> saved_req.offset,
        addr |-> BeatWord(saved_req.offset, k), n |-> k + 1, len |-> saved_req.len]
  ELSE DeviceIdle

Device == INSTANCE CacheSystem WITH mem <- PassedWords, tx <- DeviceTx

\* "class CBusDevice should match the behavior of module CBusToAXI": the cache behind
\* the arbiter and the converter is the cache behind the device.
MatchesDevice == Device!Spec

\* Every request of the core is answered, and so is every fetch, although the data cache
\* has the higher priority: after each burst pair it leaves the bus free for a cycle.
DataServed  == state # "IDLE" ~> state = "IDLE"
FetchServed == fetch.valid ~> (arb_busy /\ arb_index = 1 /\ DataInIssue)
===============================================================================
