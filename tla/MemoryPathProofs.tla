-------------------------- MODULE MemoryPathProofs ----------------------------
(***************************************************************************)
(* Proofs about MemoryPath, for every number of tags, sets, ways, words    *)
(* per line and lanes, every set of requests and of fetches, and a slave   *)
(* that orders and stalls the five channels as it likes.                   *)
(***************************************************************************)
EXTENDS MemoryPath, WellFoundedInduction, TLAPS

\* What the arbiter, the converter and the slave look at; the word driven is not one.
Attributes(r) == <<r.valid, r.is_write, r.tag, r.index, r.offset, r.len>>

\* The words of its request that input i has seen go by.
Passed(i) == IF i = 0 THEN cur ELSE got

\* The words of input i's request are moving.
Moving(i) == arb_busy /\ arb_index = i /\ DataInIssue

\* A grant is held by a valid request, and no word is counted before it moves.
HeldInv ==
  /\ arb_busy => ireqs[arb_index].valid
  /\ \A i \in Input : ireqs[i].valid /\ ~Moving(i) => Passed(i) = 0

\* The data moves for the granted request, whose requester counts as the converter does.
GrantInv ==
  DataInIssue =>
    /\ arb_busy
    /\ Attributes(ireqs[arb_index]) = Attributes(saved_req)
    /\ count = saved_req.len - 1 - Passed(arb_index)

\* No channel in issue: the slave has no burst.
NoBurstInv == in_issue = {} => rd = NoRead /\ wr = NoWrite

\* A read burst: R ends last, and the slave has sent the words the converter has counted.
ReadBurstInv ==
  in_issue \cap {"AR", "R"} # {} =>
    /\ in_issue \subseteq {"AR", "R"} /\ "R" \in in_issue
    /\ ~saved_req.is_write /\ count < saved_req.len
    /\ wr = NoWrite
    /\ rd = IF "AR" \in in_issue THEN NoRead
            ELSE [busy |-> TRUE, tag |-> saved_req.tag, index |-> saved_req.index,
                  start |-> saved_req.offset, len |-> saved_req.len,
                  n |-> saved_req.len - 1 - count]
    /\ "AR" \in in_issue => count = saved_req.len - 1

\* A write burst: B ends last, AW and W in any order before it.
WriteBurstInv ==
  in_issue \cap {"AW", "W", "B"} # {} =>
    /\ in_issue \subseteq {"AW", "W", "B"} /\ "B" \in in_issue
    /\ saved_req.is_write /\ count < saved_req.len
    /\ rd = NoRead
    /\ wr.addressed = ("AW" \notin in_issue)
    /\ wr.addressed => /\ wr.tag = saved_req.tag /\ wr.index = saved_req.index
                       /\ wr.start = saved_req.offset
    /\ wr.complete = ("W" \notin in_issue)
    /\ wr.n = IF "W" \in in_issue THEN saved_req.len - 1 - count ELSE saved_req.len

IInv ==
  /\ TypeOK
  /\ HeldInv
  /\ GrantInv
  /\ NoBurstInv
  /\ ReadBurstInv
  /\ WriteBurstInv

-------------------------------------------------------------------------------
\* The first match of the searches in IDLE and in the arbiter exists.
LEMMA LeastNumber ==
  ASSUME NEW T, T \subseteq Nat, T # {}
  PROVE  \E x \in T : \A y \in T : x <= y
<1>1. PICK x \in T : \A y \in T : ~(<<y, x>> \in OpToRel(<, Nat))
  <2> HIDE DEF OpToRel
  <2> QED BY NatLessThanWellFounded, WFMin
<1>2. \A y \in T : ~(y < x)
  BY <1>1 DEF OpToRel
<1> QED BY <1>2

\* The search of IDLE ends at a way, whatever the tags are.
LEMMA LookupIsWay ==
  ASSUME CacheTypeOK, NEW i \in Index, NEW t \in Tag
  PROVE  Lookup(i, t) \in Way
<1> USE WaysAssumption
<1>1. CASE Hits(i, t) = {}
  BY <1>1 DEF Lookup, CacheTypeOK, Way
<1>2. CASE Hits(i, t) # {}
  <2>1. Hits(i, t) \subseteq Way /\ Hits(i, t) \subseteq Nat
    BY DEF Hits, Way
  <2>2. \E w \in Hits(i, t) : \A v \in Hits(i, t) : w <= v
    BY <2>1, <1>2, LeastNumber
  <2>3. Lookup(i, t) \in Hits(i, t)
    BY <1>2, <2>2 DEF Lookup
  <2> QED BY <2>1, <2>3
<1> QED BY <1>1, <1>2

\* The way in use is a way, and the words and tags read there are words and tags.
LEMMA PositionIsWay ==
  ASSUME CacheTypeOK
  PROVE  /\ req.index \in Index /\ req.tag \in Tag /\ req.offset \in Offset
         /\ req.data \in Word /\ req.strobe \in SUBSET Lane
         /\ MRU \in Way /\ Position \in Way
         /\ meta[req.index][Position] \in Meta
         /\ ram[req.index][Position] \in [Offset -> Word]
         /\ ram[req.index][Position][cur] \in Word
BY WaysAssumption DEF CacheTypeOK, DBusReq, Way, MRU, Position

\* What the registers and the undriven buses hold is of their types.
LEMMA ZeroValues ==
  /\ 0 \in Offset /\ ZeroWord \in Word /\ (CHOOSE i \in Index : TRUE) \in Index /\ 0 \in Tag
  /\ NoReq \in CBusReq /\ ~NoReq.valid
  /\ NoRead \in ReadBurst /\ NoWrite \in WriteBurst
<1>1. 0 \in Offset /\ ZeroWord \in Word /\ (CHOOSE i \in Index : TRUE) \in Index /\ 0 \in Tag
  BY CBusAssumption DEF Offset, ZeroWord, Word
<1>2. NoReq \in CBusReq /\ ~NoReq.valid
  BY <1>1 DEF NoReq, CBusReq
<1>3. NoRead \in ReadBurst
  BY <1>1, CBusAssumption DEF NoRead, ReadBurst
<1>4. NoWrite \in WriteBurst
  <2>1. [data |-> ZeroWord, strobe |-> {}] \in Beat
    BY <1>1 DEF Beat
  <2> QED BY <1>1, <2>1, CBusAssumption DEF NoWrite, WriteBurst
<1> QED BY <1>1, <1>2, <1>3, <1>4

\* The two requesters drive requests.
LEMMA RequestTypes ==
  ASSUME TypeOK
  PROVE  /\ Input = {0, 1} /\ ireqs[0] = dcreq /\ ireqs[1] = fetch
         /\ dcreq \in CBusReq /\ fetch \in CBusReq
         /\ dcreq.offset = 0 /\ dcreq.len = LineLen
         /\ dcreq.valid = (state \in {"FLUSH", "FETCH"})
         /\ dcreq.is_write = (state = "FLUSH")
         /\ ~fetch.is_write
         /\ \A i \in Input : ireqs[i] \in CBusReq
         /\ oreq(ireqs) \in CBusReq
         /\ oreq(ireqs) = IF arb_busy THEN ireqs[arb_index] ELSE NoReq
<1>1. Input = {0, 1} /\ ireqs[0] = dcreq /\ ireqs[1] = fetch
  BY PathAssumption DEF Input, ireqs
<1>2. dcreq \in CBusReq
  <2>1. dcreq.tag \in Tag
    BY PositionIsWay DEF dcreq, TypeOK, Meta
  <2> QED BY <2>1, ZeroValues, PositionIsWay DEF dcreq, CBusReq, TypeOK
<1>3. fetch \in CBusReq /\ ~fetch.is_write
  <2>1. NoReq \in CBusReq /\ ~NoReq.is_write
    BY ZeroValues DEF NoReq
  <2>2. \A r \in Fetches : r \in CBusReq /\ ~r.is_write
    BY PathAssumption
  <2> HIDE DEF NoReq
  <2> QED BY <2>1, <2>2 DEF TypeOK, ReaderTypeOK
<1>4. /\ dcreq.offset = 0 /\ dcreq.len = LineLen
      /\ dcreq.valid = (state \in {"FLUSH", "FETCH"})
      /\ dcreq.is_write = (state = "FLUSH")
  BY DEF dcreq
<1> QED BY <1>1, <1>2, <1>3, <1>4, ZeroValues DEF oreq, TypeOK, ArbiterTypeOK

-------------------------------------------------------------------------------
\* Each component keeps its type.

\* The cache, whatever it is answered.
LEMMA CacheTypeStep ==
  ASSUME CacheTypeOK, NEW r \in CBusResp, CacheCycle(r)
  PROVE  CacheTypeOK'
<1> USE DEF CacheTypeOK
<1>0. r.data \in Word /\ 0 \in Offset /\ \A o \in Offset : NextOffset(o) \in Offset
  BY ZeroValues, CBusAssumption DEF CBusResp, NextOffset, Offset
<1>1. ASSUME NEW rq \in Requests, Accept(rq) PROVE CacheTypeOK'
  <2> DEFINE w == Lookup(rq.index, rq.tag)
  <2>1. rq \in DBusReq /\ rq.index \in Index /\ rq.tag \in Tag /\ rq.offset \in Offset
    BY PathAssumption DEF DBusReq
  <2>2. w \in Way
    BY <2>1, LookupIsWay
  <2> HIDE DEF w
  <2>3. Reorder(order[rq.index], w) \in [Way -> Way]
    <3>1. \A k \in Way : k # MRU => k + 1 \in Way
      BY WaysAssumption DEF Way, MRU
    <3> QED BY <3>1, <2>1, <2>2 DEF Reorder
  <2>4. order' = [order EXCEPT ![rq.index] = Reorder(order[rq.index], w)]
    BY <1>1 DEF Accept, w
  <2>5. order' \in [Index -> [Way -> Way]]
    BY <2>1, <2>3, <2>4
  <2> QED BY <1>0, <1>1, <2>1, <2>5 DEF Accept, State
<1>2. CASE UNCHANGED cacheVars
  BY <1>2 DEF cacheVars
<1>3. CASE Flush(r)
  BY <1>0, <1>3 DEF Flush, State
<1>4. CASE Fetch(r)
  <2>1. ram' \in [Index -> [Way -> [Offset -> Word]]]
    BY <1>0, <1>4, PositionIsWay DEF Fetch
  <2>2. meta' \in [Index -> [Way -> Meta]]
    <3>1. [tag |-> req.tag, valid |-> TRUE, dirty |-> FALSE] \in Meta
      BY PositionIsWay DEF Meta
    <3> QED BY <1>4, <3>1, PositionIsWay DEF Fetch
  <2> QED BY <1>0, <1>4, <2>1, <2>2, PositionIsWay DEF Fetch, State
<1>5. CASE Serve
  <2> DEFINE m == Merge(ram[req.index][Position][cur], req.data, req.strobe)
             d == [meta[req.index][Position] EXCEPT !.dirty = TRUE]
  <2>1. m \in Word /\ d \in Meta
    BY PositionIsWay DEF Merge, Word, Meta
  <2>2. /\ ram' = [ram EXCEPT ![req.index][Position][cur] = m]
        /\ meta' = IF req.strobe # {} THEN [meta EXCEPT ![req.index][Position] = d] ELSE meta
    BY <1>5 DEF Serve
  <2> HIDE DEF m, d
  <2>3. ram' \in [Index -> [Way -> [Offset -> Word]]] /\ meta' \in [Index -> [Way -> Meta]]
    BY <2>1, <2>2, PositionIsWay
  <2> QED BY <1>5, <2>3 DEF Serve, State
<1> QED BY <1>1, <1>2, <1>3, <1>4, <1>5 DEF CacheCycle

\* The words of a burst stay in its line.
LEMMA BeatWordType ==
  ASSUME NEW start \in Offset, NEW k \in Offset
  PROVE  BeatWord(start, k) \in Offset /\ WordBeat(start, k) \in Offset
BY CBusAssumption DEF BeatWord, WordBeat, Offset

\* The reader, if it is told `last` in time.
LEMMA ReaderTypeStep ==
  ASSUME ReaderTypeOK, fetch \in CBusReq, NEW r \in CBusResp, ReaderCycle(r),
         fetch.valid /\ r.ready /\ ~r.last => got < LineLen - 1
  PROVE  ReaderTypeOK'
<1> USE DEF ReaderTypeOK
<1>1. r.data \in Word /\ 0 \in Offset /\ fetch.offset \in Offset /\ got \in Offset
  BY ZeroValues DEF CBusResp, CBusReq, Offset
<1>2. BeatWord(fetch.offset, got) \in Offset
  BY <1>1, BeatWordType
<1>3. line' \in [Offset -> Word]
  BY <1>1, <1>2 DEF ReaderCycle
<1>4. fetch' \in Fetches \cup {NoReq}
  BY DEF ReaderCycle
<1>5. got' \in 0 .. LineLen - 1
  BY <1>1, CBusAssumption DEF ReaderCycle, Offset
<1> QED BY <1>3, <1>4, <1>5

\* The arbiter: the input it selects exists.
LEMMA ArbiterTypeStep ==
  ASSUME TypeOK, NEW r \in CBusResp, ArbiterCycle(ireqs, r)
  PROVE  ArbiterTypeOK' /\ Select(ireqs) \in Input
<1> DEFINE V == {i \in Input : ireqs[i].valid}
<1>1. Input \subseteq Nat /\ 0 \in Input
  BY PathAssumption DEF Input
<1>2. V # {} => \E i \in V : \A j \in V : i <= j
  BY <1>1, LeastNumber
<1>3. Select(ireqs) \in Input
  BY <1>1, <1>2 DEF Select
<1>4. \A i \in Input : ireqs[i].valid \in BOOLEAN
  BY RequestTypes DEF CBusReq
<1> QED BY <1>3, <1>4 DEF ArbiterCycle, TypeOK, ArbiterTypeOK, CBusResp

-------------------------------------------------------------------------------
\* What the converter answers: a word for each data handshake, and `last` with count 0,
\* for the slave's rlast agrees with the converter's count.
LEMMA ResponseLemma ==
  ASSUME IInv, NEW axi \in Signals, SlaveDrives(axi)
  PROVE  /\ Handshake(axi) = axi.on /\ axi.on \subseteq in_issue /\ axi.rdata \in Word
         /\ cresp(axi) \in CBusResp
         /\ cresp(axi).ready = ("R" \in axi.on \/ "W" \in axi.on)
         /\ cresp(axi).last = (cresp(axi).ready /\ count = 0)
         /\ cresp(axi).data = axi.rdata
         /\ cresp(axi).ready => DataInIssue
         /\ "R" \in axi.on => /\ "AR" \notin in_issue /\ rd.busy /\ axi.rlast = (count = 0)
                              /\ rd.n = saved_req.len - 1 - count /\ rd.len = saved_req.len
                              /\ rd.tag = saved_req.tag /\ rd.index = saved_req.index
                              /\ rd.start = saved_req.offset
         /\ "B" \in axi.on => in_issue = {"B"}
         /\ "R" \in in_issue \/ "AR" \in in_issue <=> in_issue # {} /\ ~saved_req.is_write
         /\ "B" \in in_issue <=> in_issue # {} /\ saved_req.is_write
<1>1. axi.on \subseteq in_issue /\ axi.rlast \in BOOLEAN /\ axi.rdata \in Word
  BY DEF Signals
<1>2. Handshake(axi) = axi.on
  BY <1>1 DEF Handshake
<1>3. /\ cresp(axi).ready = ("R" \in axi.on \/ "W" \in axi.on)
      /\ cresp(axi).last = (cresp(axi).ready /\ ("R" \in in_issue => axi.rlast) /\ count = 0)
      /\ cresp(axi).data = axi.rdata
  BY <1>2 DEF cresp, is_last
<1>4. cresp(axi) \in CBusResp
  <2>1. cresp(axi) = [ready |-> cresp(axi).ready, last |-> cresp(axi).last, data |-> axi.rdata]
    BY DEF cresp
  <2> QED BY <1>1, <1>3, <2>1 DEF CBusResp
<1>5. in_issue \subseteq {"AR", "R", "AW", "W", "B"} /\ saved_req.len \in Nat /\ count \in Nat
  BY CBusAssumption DEF IInv, TypeOK, ConverterTypeOK, Channel, CBusReq
<1>6. ASSUME "R" \in axi.on
      PROVE  /\ "AR" \notin in_issue /\ rd.busy /\ axi.rlast = (count = 0)
             /\ rd.n = saved_req.len - 1 - count /\ rd.len = saved_req.len
             /\ rd.tag = saved_req.tag /\ rd.index = saved_req.index /\ rd.start = saved_req.offset
  <2>1. rd.busy /\ axi.rlast = (rd.n = rd.len - 1)
    BY <1>6 DEF SlaveDrives
  <2>2. rd # NoRead
    BY <2>1 DEF NoRead
  <2>3. /\ "AR" \notin in_issue
        /\ rd = [busy |-> TRUE, tag |-> saved_req.tag, index |-> saved_req.index,
                 start |-> saved_req.offset, len |-> saved_req.len,
                 n |-> saved_req.len - 1 - count]
    BY <1>1, <1>6, <2>2 DEF IInv, ReadBurstInv
  <2> QED BY <1>5, <2>1, <2>3
<1>7. "W" \in axi.on => "R" \notin in_issue
  BY <1>1 DEF IInv, WriteBurstInv
<1>8. "B" \in axi.on => in_issue = {"B"}
  BY <1>1, <1>5 DEF SlaveDrives, IInv, WriteBurstInv
<1>9. cresp(axi).last = (cresp(axi).ready /\ count = 0)
  BY <1>3, <1>6, <1>7
<1>10. cresp(axi).ready => DataInIssue
  BY <1>1, <1>3 DEF DataInIssue
<1>11. /\ "R" \in in_issue \/ "AR" \in in_issue <=> in_issue # {} /\ ~saved_req.is_write
       /\ "B" \in in_issue <=> in_issue # {} /\ saved_req.is_write
  BY <1>5 DEF IInv, ReadBurstInv, WriteBurstInv
<1> QED BY <1>1, <1>2, <1>3, <1>4, <1>6, <1>8, <1>9, <1>10, <1>11

\* No burst: the slave stands still and the converter takes what the arbiter offers.
LEMMA IdleCycle ==
  ASSUME IInv, NEW axi \in Signals, Cycle(axi), in_issue = {}
  PROVE  /\ UNCHANGED slaveVars
         /\ ~cresp(axi).ready
         /\ saved_req' = oreq(ireqs) /\ count' = oreq(ireqs).len - 1
         /\ in_issue' = IF oreq(ireqs).valid THEN NextIssue(oreq(ireqs)) ELSE {}
<1>1. Handshake(axi) = {} /\ ~cresp(axi).ready
  BY ResponseLemma DEF Cycle
<1>2. UNCHANGED slaveVars
  BY <1>1 DEF Cycle, ReadChannels, WriteChannels, slaveVars
<1>3. ConverterIdle(oreq(ireqs))
  BY DEF Cycle, ConverterCycle, ConverterBusy
<1> QED BY <1>1, <1>2, <1>3 DEF ConverterIdle

\* A burst: the channels that end leave it, and every word but the last counts.
LEMMA BusyCycle ==
  ASSUME IInv, NEW axi \in Signals, Cycle(axi), in_issue # {}
  PROVE  /\ saved_req' = saved_req
         /\ count' = IF cresp(axi).ready /\ count # 0 THEN count - 1 ELSE count
         /\ in_issue' = in_issue \ {c \in axi.on : c \in {"R", "W"} => count = 0}
         /\ count' \in 0 .. LineLen - 1 /\ count \in 0 .. LineLen - 1
         /\ count' < saved_req.len /\ count < saved_req.len
         /\ saved_req.len \in 1 .. LineLen
<1>1. ConverterBusy(axi) /\ SlaveDrives(axi)
  BY DEF Cycle, ConverterCycle, ConverterIdle
<1>2. /\ count \in 0 .. LineLen - 1 /\ saved_req.len \in 1 .. LineLen /\ count < saved_req.len
  <2>1. count \in 0 .. LineLen - 1 /\ saved_req.len \in {1, LineLen} /\ in_issue \subseteq Channel
    BY DEF IInv, TypeOK, ConverterTypeOK, CBusReq
  <2>2. count < saved_req.len
    BY <2>1 DEF IInv, ReadBurstInv, WriteBurstInv, Channel
  <2> QED BY <2>1, <2>2, CBusAssumption
<1>3. count' = IF cresp(axi).ready /\ count # 0 THEN count - 1 ELSE count
  <2>1. count' = IF cresp(axi).ready /\ ~cresp(axi).last THEN (count - 1) % LineLen ELSE count
    BY <1>1 DEF ConverterBusy
  <2>2. count # 0 => (count - 1) % LineLen = count - 1
    BY <1>2, CBusAssumption
  <2> QED BY <1>1, <2>1, <2>2, ResponseLemma
<1>4. in_issue' = in_issue \ {c \in axi.on : c \in {"R", "W"} => count = 0}
  <2>1. Ended(axi) = {c \in axi.on : c \in {"R", "W"} => count = 0}
    BY <1>1, ResponseLemma DEF Ended, is_last
  <2> QED BY <1>1, <2>1 DEF ConverterBusy
<1>5. count' \in 0 .. LineLen - 1 /\ count' < saved_req.len
  BY <1>2, <1>3, CBusAssumption
<1> QED BY <1>1, <1>2, <1>3, <1>4, <1>5 DEF ConverterBusy

\* The word number, counted up, and the words left, counted down, move together.
LEMMA CountsDown ==
  ASSUME NEW len \in Nat, NEW left \in Nat, left # 0, left - 1 < len
  PROVE  /\ len - 1 - left # len - 1
         /\ len - 1 - (left - 1) = (len - 1 - left) + 1
         /\ len - 1 - (left - 1) \in 0 .. len - 1
OBVIOUS

\* A read burst: first AR, then the words in order, and rlast with the last one counted.
LEMMA ReadCycle ==
  ASSUME IInv, NEW axi \in Signals, Cycle(axi), in_issue # {}, ~saved_req.is_write
  PROVE  /\ wr = NoWrite /\ UNCHANGED <<mem, wr>> /\ rd' \in ReadBurst
         /\ NoBurstInv' /\ ReadBurstInv' /\ WriteBurstInv'
<1>1. /\ in_issue \subseteq {"AR", "R"} /\ "R" \in in_issue /\ wr = NoWrite
      /\ rd = IF "AR" \in in_issue THEN NoRead
              ELSE [busy |-> TRUE, tag |-> saved_req.tag, index |-> saved_req.index,
                    start |-> saved_req.offset, len |-> saved_req.len,
                    n |-> saved_req.len - 1 - count]
      /\ "AR" \in in_issue => count = saved_req.len - 1
  BY ResponseLemma DEF IInv, ReadBurstInv, Cycle
<1>2. /\ axi.on \subseteq in_issue /\ Handshake(axi) = axi.on
      /\ cresp(axi).ready = ("R" \in axi.on)
      /\ "R" \in axi.on =>
           "AR" \notin in_issue /\ rd.n = saved_req.len - 1 - count /\ rd.len = saved_req.len
  BY <1>1, ResponseLemma DEF Cycle
<1>3. /\ saved_req' = saved_req
      /\ count' = IF cresp(axi).ready /\ count # 0 THEN count - 1 ELSE count
      /\ in_issue' = in_issue \ {c \in axi.on : c \in {"R", "W"} => count = 0}
      /\ count \in 0 .. LineLen - 1 /\ count' < saved_req.len /\ saved_req.len \in 1 .. LineLen
  BY BusyCycle
<1>4. UNCHANGED <<mem, wr>>
  BY <1>1, <1>2 DEF Cycle, WriteChannels
<1>5. /\ saved_req.tag \in Tag /\ saved_req.index \in Index /\ saved_req.offset \in Offset
      /\ saved_req.len \in {1, LineLen} /\ count \in Nat /\ LineLen \in Nat
      /\ saved_req.len \in Nat /\ saved_req.len - 1 - (saved_req.len - 1) = 0
  BY <1>3, CBusAssumption DEF IInv, TypeOK, ConverterTypeOK, CBusReq
<1>6. rd' = IF "AR" \in axi.on
            THEN [busy |-> TRUE, tag |-> saved_req.tag, index |-> saved_req.index,
                  start |-> saved_req.offset, len |-> saved_req.len, n |-> 0]
            ELSE IF "R" \in axi.on
            THEN IF rd.n = rd.len - 1 THEN NoRead ELSE [rd EXCEPT !.n = rd.n + 1]
            ELSE rd
  BY <1>2 DEF Cycle, ReadChannels
<1> DEFINE Burst(n) == [busy |-> TRUE, tag |-> saved_req.tag, index |-> saved_req.index,
                        start |-> saved_req.offset, len |-> saved_req.len, n |-> n]
<1>7. \A n \in 0 .. saved_req.len - 1 : Burst(n) \in ReadBurst
  BY <1>3, <1>5 DEF ReadBurst
<1>8. CASE "AR" \in axi.on
  <2>1. "R" \notin axi.on /\ in_issue' = {"R"}
    BY <1>1, <1>2, <1>3, <1>8
  <2>2. count' = saved_req.len - 1 /\ saved_req.len - 1 - count' = 0
    BY <1>1, <1>2, <1>3, <1>5, <1>8, <2>1
  <2>3. rd' = Burst(saved_req.len - 1 - count') /\ rd' = Burst(0) /\ 0 \in 0 .. saved_req.len - 1
    <3>1. rd' = Burst(0)
      BY <1>6, <1>8
    <3>2. 0 \in 0 .. saved_req.len - 1
      BY <1>3, <1>5
    <3> QED BY <2>2, <3>1, <3>2
  <2>4. rd' \in ReadBurst
    BY <1>7, <2>3
  <2> QED BY <1>1, <1>3, <1>4, <2>1, <2>3, <2>4 DEF NoBurstInv, ReadBurstInv, WriteBurstInv
<1>9. CASE "AR" \notin axi.on /\ "R" \in axi.on /\ count = 0
  <2>1. in_issue' = {} /\ rd' = NoRead
    BY <1>1, <1>2, <1>3, <1>5, <1>6, <1>9
  <2> QED BY <1>1, <1>4, <2>1, ZeroValues DEF NoBurstInv, ReadBurstInv, WriteBurstInv
<1>10. CASE "AR" \notin axi.on /\ "R" \in axi.on /\ count # 0
  <2>1. /\ in_issue' = {"R"} /\ count' = count - 1 /\ rd.n # rd.len - 1
        /\ saved_req.len - 1 - count' = (saved_req.len - 1 - count) + 1
        /\ saved_req.len - 1 - count' \in 0 .. saved_req.len - 1
    <3>1. in_issue' = {"R"}
      BY <1>1, <1>2, <1>3, <1>10
    <3>2. count' = count - 1
      BY <1>2, <1>3, <1>10
    <3>3. saved_req.len \in Nat /\ count \in Nat /\ count # 0 /\ count - 1 < saved_req.len
      BY <1>3, <1>5, <1>10, <3>2
    <3>4. /\ saved_req.len - 1 - count # saved_req.len - 1
          /\ saved_req.len - 1 - (count - 1) = (saved_req.len - 1 - count) + 1
          /\ saved_req.len - 1 - (count - 1) \in 0 .. saved_req.len - 1
      BY <3>3, CountsDown
    <3>5. rd.n # rd.len - 1
      BY <1>2, <1>10, <3>4
    <3> QED BY <3>1, <3>2, <3>4, <3>5
  <2>2. rd = Burst(saved_req.len - 1 - count)
    BY <1>1, <1>2, <1>10
  <2>3. rd' = Burst(saved_req.len - 1 - count')
    BY <1>6, <1>10, <2>1, <2>2
  <2> QED BY <1>1, <1>3, <1>4, <1>7, <2>1, <2>3 DEF NoBurstInv, ReadBurstInv, WriteBurstInv
<1>11. CASE "AR" \notin axi.on /\ "R" \notin axi.on
  <2>1. in_issue' = in_issue /\ count' = count /\ rd' = rd
    BY <1>1, <1>2, <1>3, <1>6, <1>11
  <2>2. rd' \in ReadBurst
    BY <2>1 DEF IInv, TypeOK, SlaveTypeOK
  <2> QED BY <1>1, <1>3, <1>4, <2>1, <2>2 DEF NoBurstInv, ReadBurstInv, WriteBurstInv
<1> QED BY <1>1, <1>4, <1>8, <1>9, <1>10, <1>11

\* A merged line is a line.
LEMMA WrittenType ==
  ASSUME NEW words \in [Offset -> Word], NEW start \in Offset, NEW n,
         NEW beats \in [Offset -> Beat]
  PROVE  Written(words, start, n, beats) \in [Offset -> Word]
<1>1. ASSUME NEW o \in Offset
      PROVE  Merge(words[o], beats[WordBeat(start, o)].data, beats[WordBeat(start, o)].strobe)
               \in Word
  <2>1. beats[WordBeat(start, o)] \in Beat
    BY BeatWordType
  <2> QED BY <2>1 DEF Beat, Word, Merge
<1> QED BY <1>1 DEF Written

\* A write burst: AW and the words in any order, then B; memory changes with B.
LEMMA WriteCycle ==
  ASSUME IInv, NEW axi \in Signals, Cycle(axi), in_issue # {}, saved_req.is_write
  PROVE  /\ rd = NoRead /\ rd' = rd /\ SlaveTypeOK'
         /\ NoBurstInv' /\ ReadBurstInv' /\ WriteBurstInv'
         /\ "B" \in axi.on =>
              /\ in_issue = {"B"} /\ in_issue' = {}
              /\ wr.tag = saved_req.tag /\ wr.index = saved_req.index
              /\ wr.start = saved_req.offset /\ wr.n = saved_req.len
              /\ mem' = [mem EXCEPT ![wr.tag][wr.index] =
                           Written(mem[wr.tag][wr.index], wr.start, wr.n, wr.beats)]
              /\ wr' = NoWrite
         /\ "B" \notin axi.on =>
              /\ mem' = mem
              /\ "W" \notin axi.on => wr'.n = wr.n /\ wr'.beats = wr.beats
              /\ "W" \in axi.on =>
                   /\ wr.n = saved_req.len - 1 - count
                   /\ wr'.n = wr.n + 1
                   /\ wr'.beats = [wr.beats EXCEPT ![wr.n] =
                        [data |-> oreq(ireqs).data, strobe |-> oreq(ireqs).strobe]]
<1>1. /\ in_issue \subseteq {"AW", "W", "B"} /\ "B" \in in_issue /\ rd = NoRead
      /\ wr.addressed = ("AW" \notin in_issue)
      /\ wr.addressed => wr.tag = saved_req.tag /\ wr.index = saved_req.index
                         /\ wr.start = saved_req.offset
      /\ wr.complete = ("W" \notin in_issue)
      /\ wr.n = IF "W" \in in_issue THEN saved_req.len - 1 - count ELSE saved_req.len
  BY ResponseLemma DEF IInv, WriteBurstInv, Cycle
<1>2. /\ axi.on \subseteq in_issue /\ Handshake(axi) = axi.on
      /\ cresp(axi).ready = ("W" \in axi.on)
      /\ "B" \in axi.on => in_issue = {"B"}
  BY <1>1, ResponseLemma DEF Cycle
<1>3. /\ saved_req' = saved_req
      /\ count' = IF cresp(axi).ready /\ count # 0 THEN count - 1 ELSE count
      /\ in_issue' = in_issue \ {c \in axi.on : c \in {"R", "W"} => count = 0}
      /\ count \in 0 .. LineLen - 1 /\ count < saved_req.len /\ count' < saved_req.len
      /\ saved_req.len \in 1 .. LineLen
  BY BusyCycle
<1>4. /\ saved_req.tag \in Tag /\ saved_req.index \in Index /\ saved_req.offset \in Offset
      /\ count \in Nat /\ LineLen \in Nat /\ saved_req.len \in Nat
  BY <1>3, CBusAssumption DEF IInv, TypeOK, ConverterTypeOK, CBusReq
<1>5. rd' = rd
  BY <1>1, <1>2 DEF Cycle, ReadChannels
<1>6. /\ mem \in [Tag -> [Index -> [Offset -> Word]]] /\ wr \in WriteBurst /\ rd \in ReadBurst
      /\ wr.beats \in [Offset -> Beat]
  BY DEF IInv, TypeOK, SlaveTypeOK, WriteBurst
<1>7. CASE "B" \in axi.on
  <2>1. in_issue = {"B"} /\ in_issue' = {}
    BY <1>2, <1>3, <1>7
  <2>2. /\ mem' = [mem EXCEPT ![wr.tag][wr.index] =
                     Written(mem[wr.tag][wr.index], wr.start, wr.n, wr.beats)]
        /\ wr' = NoWrite
    BY <1>2, <1>7 DEF Cycle, WriteChannels
  <2>3. wr.tag \in Tag /\ wr.index \in Index /\ wr.start \in Offset
    BY <1>6 DEF WriteBurst
  <2>4. Written(mem[wr.tag][wr.index], wr.start, wr.n, wr.beats) \in [Offset -> Word]
    BY <1>6, <2>3, WrittenType
  <2>5. mem' \in [Tag -> [Index -> [Offset -> Word]]]
    BY <1>6, <2>2, <2>3, <2>4
  <2>6. SlaveTypeOK'
    BY <1>5, <1>6, <2>2, <2>5, ZeroValues DEF SlaveTypeOK
  <2> QED
    BY <1>1, <1>5, <1>7, <2>1, <2>2, <2>6 DEF NoBurstInv, ReadBurstInv, WriteBurstInv
<1>8. CASE "B" \notin axi.on
  <2> DEFINE beat == [data |-> oreq(ireqs).data, strobe |-> oreq(ireqs).strobe]
             a == IF "AW" \in axi.on
                  THEN [wr EXCEPT !.addressed = TRUE, !.tag = saved_req.tag,
                                  !.index = saved_req.index, !.start = saved_req.offset]
                  ELSE wr
  <2>1. beat \in Beat
    BY RequestTypes DEF IInv, Beat, CBusReq
  <2> HIDE DEF beat
  <2>2. mem' = mem /\ wr' = IF "W" \in axi.on
                            THEN [a EXCEPT !.beats[wr.n] = beat, !.n = a.n + 1,
                                           !.complete = (count = 0)]
                            ELSE a
    <3>1. Cycle(axi) => WriteChannels(axi.on, saved_req, beat, is_last)
      BY <1>2 DEF Cycle, beat
    <3> QED BY <1>8, <3>1 DEF WriteChannels, is_last
  <2>3. /\ a \in WriteBurst /\ a.n = wr.n /\ a.beats = wr.beats /\ a.complete = wr.complete
        /\ a.addressed = ("AW" \notin in_issue \/ "AW" \in axi.on)
        /\ a.addressed => a.tag = saved_req.tag /\ a.index = saved_req.index
                          /\ a.start = saved_req.offset
    BY <1>1, <1>4, <1>6 DEF WriteBurst
  <2> HIDE DEF a
  <2>4. "B" \in in_issue' /\ in_issue' \subseteq {"AW", "W", "B"}
        /\ ("AW" \notin in_issue') = ("AW" \notin in_issue \/ "AW" \in axi.on)
        /\ ("W" \in in_issue') = ("W" \in in_issue /\ ~("W" \in axi.on /\ count = 0))
    <3>1. \A c : c \in in_issue' <=>
                   c \in in_issue /\ ~(c \in axi.on /\ (c \in {"R", "W"} => count = 0))
      BY <1>3
    <3>2. in_issue' \subseteq in_issue
      BY <1>3
    <3>3. "B" \in in_issue'
      BY <1>1, <1>8, <3>1
    <3>4. ("AW" \notin in_issue') = ("AW" \notin in_issue \/ "AW" \in axi.on)
      BY <3>1
    <3>5. ("W" \in in_issue') = ("W" \in in_issue /\ ~("W" \in axi.on /\ count = 0))
      BY <3>1
    <3> QED BY <1>1, <3>2, <3>3, <3>4, <3>5
  <2>5. CASE "W" \in axi.on
    <3>1. "W" \in in_issue /\ wr.n = saved_req.len - 1 - count /\ wr.n \in Offset
      BY <1>1, <1>2, <1>3, <1>4, <2>5 DEF Offset
    <3>2. /\ wr' \in WriteBurst /\ wr'.n = wr.n + 1
          /\ wr'.beats = [wr.beats EXCEPT ![wr.n] = beat]
          /\ wr'.complete = (count = 0) /\ wr'.addressed = a.addressed
          /\ wr'.tag = a.tag /\ wr'.index = a.index /\ wr'.start = a.start
      <4>1. /\ wr.n + 1 \in 0 .. LineLen
            /\ [wr.beats EXCEPT ![wr.n] = beat] \in [Offset -> Beat]
        BY <1>4, <1>6, <2>1, <3>1 DEF Offset
      <4>2. wr' = [a EXCEPT !.beats = [wr.beats EXCEPT ![wr.n] = beat], !.n = wr.n + 1,
                            !.complete = (count = 0)]
        BY <2>2, <2>3, <2>5
      <4> QED BY <2>3, <4>1, <4>2 DEF WriteBurst
    <3>3. wr'.n = IF "W" \in in_issue' THEN saved_req.len - 1 - count' ELSE saved_req.len
      <4>1. CASE count = 0
        BY <1>4, <2>4, <2>5, <3>1, <3>2, <4>1
      <4>2. CASE count # 0
        <5>1. count' = count - 1 /\ "W" \in in_issue'
          BY <1>2, <1>3, <2>4, <2>5, <3>1, <4>2
        <5> QED BY <1>4, <3>1, <3>2, <5>1
      <4> QED BY <4>1, <4>2
    <3>4. wr'.complete = ("W" \notin in_issue')
      BY <2>4, <2>5, <3>1, <3>2
    <3>5. SlaveTypeOK'
      BY <1>5, <1>6, <2>2, <3>2 DEF SlaveTypeOK
    <3>6. NoBurstInv' /\ ReadBurstInv' /\ WriteBurstInv'
      BY <1>1, <1>3, <1>5, <2>3, <2>4, <3>2, <3>3, <3>4 DEF NoBurstInv, ReadBurstInv, WriteBurstInv
    <3> QED BY <1>1, <1>5, <1>8, <2>2, <2>5, <3>1, <3>2, <3>5, <3>6 DEF beat
  <2>6. CASE "W" \notin axi.on
    <3>1. wr' = a /\ count' = count
      BY <1>2, <1>3, <2>2, <2>6
    <3>2. SlaveTypeOK'
      BY <1>5, <1>6, <2>2, <2>3, <3>1 DEF SlaveTypeOK
    <3>3. NoBurstInv' /\ ReadBurstInv' /\ WriteBurstInv'
      BY <1>1, <1>3, <1>5, <2>3, <2>4, <2>6, <3>1 DEF NoBurstInv, ReadBurstInv, WriteBurstInv
    <3> QED BY <1>1, <1>5, <1>8, <2>2, <2>3, <2>6, <3>1, <3>2, <3>3
  <2> QED BY <2>5, <2>6
<1> QED BY <1>7, <1>8

-------------------------------------------------------------------------------
\* A requester holds its request and counts its words until the last one; a request it
\* makes then, or makes anew, has seen none.
Requester(i, r) ==
  /\ ireqs[i].valid /\ ~(r.ready /\ r.last) =>
       /\ Attributes(ireqs[i])' = Attributes(ireqs[i])
       /\ Passed(i)' = IF r.ready THEN Passed(i) + 1 ELSE Passed(i)
  /\ ~ireqs[i].valid \/ (r.ready /\ r.last) => (ireqs[i].valid => Passed(i) = 0)'

\* DCache.sv: the address of FLUSH is computed from the victim's tag in every cycle.
LEMMA CacheRequester ==
  ASSUME TypeOK, NEW r \in CBusResp, CacheCycle(r),
         dcreq.valid /\ r.ready /\ ~r.last => cur < LineLen - 1
  PROVE  /\ dcreq.valid /\ ~(r.ready /\ r.last) =>
              /\ Attributes(dcreq)' = Attributes(dcreq)
              /\ cur' = IF r.ready THEN cur + 1 ELSE cur
         /\ ~dcreq.valid \/ (r.ready /\ r.last) => (dcreq.valid => cur = 0)'
<1>1. /\ dcreq.valid = (state \in {"FLUSH", "FETCH"})
      /\ dcreq'.valid = (state' \in {"FLUSH", "FETCH"})
  BY DEF dcreq
<1>2. cur \in Offset /\ r.ready \in BOOLEAN
  BY DEF TypeOK, CacheTypeOK, CBusResp
<1>3. CASE dcreq.valid /\ ~(r.ready /\ r.last)
  <2>1. Flush(r) \/ Fetch(r)
    BY <1>1, <1>3 DEF CacheCycle, Accept, Serve
  <2>2. /\ UNCHANGED <<state, order, meta, req>>
        /\ cur' = IF r.ready THEN NextOffset(cur) ELSE cur
    BY <1>3, <2>1 DEF Flush, Fetch
  <2>3. r.ready => NextOffset(cur) = cur + 1
    BY <1>2, <1>3, CBusAssumption DEF NextOffset, Offset
  <2>4. Attributes(dcreq)' = Attributes(dcreq)
    BY <2>2 DEF Attributes, dcreq, Position
  <2> QED BY <1>3, <2>2, <2>3, <2>4
<1>4. CASE ~dcreq.valid
  BY <1>1, <1>4 DEF CacheCycle, Accept, Flush, Fetch, Serve, cacheVars
<1>5. CASE dcreq.valid /\ r.ready /\ r.last
  <2>1. Flush(r) \/ Fetch(r)
    BY <1>1, <1>5 DEF CacheCycle, Accept, Serve
  <2> QED BY <1>1, <1>5, <2>1 DEF Flush, Fetch
<1> QED BY <1>3, <1>4, <1>5

\* The instruction side keeps its request itself.
LEMMA ReaderRequester ==
  ASSUME NEW r \in CBusResp, ReaderCycle(r)
  PROVE  /\ fetch.valid /\ ~(r.ready /\ r.last) =>
              /\ Attributes(fetch)' = Attributes(fetch)
              /\ got' = IF r.ready THEN got + 1 ELSE got
         /\ ~fetch.valid \/ (r.ready /\ r.last) => (fetch.valid => got = 0)'
BY DEF ReaderCycle, Attributes

\* What input i sees of a response.
LEMMA SeenResponse ==
  ASSUME NEW i, NEW r \in CBusResp
  PROVE  /\ iresp(i, r) \in CBusResp
         /\ arb_busy /\ arb_index = i => iresp(i, r) = r
         /\ ~(arb_busy /\ arb_index = i) => ~iresp(i, r).ready /\ ~iresp(i, r).last
<1>1. NoResp \in CBusResp /\ ~NoResp.ready /\ ~NoResp.last
  BY ZeroValues DEF NoResp, CBusResp
<1> QED BY <1>1 DEF iresp

\* The words an input has seen are fewer than its request has, while it is not the last.
LEMMA NotLast ==
  ASSUME IInv, NEW axi \in Signals, Cycle(axi), NEW i \in Input,
         iresp(i, cresp(axi)).ready, ~iresp(i, cresp(axi)).last
  PROVE  /\ arb_busy /\ arb_index = i
         /\ Passed(i) < ireqs[i].len - 1 /\ ireqs[i].len \in 1 .. LineLen
<1>1. SlaveDrives(axi) /\ cresp(axi) \in CBusResp
  BY ResponseLemma DEF Cycle
<1>2. arb_busy /\ arb_index = i /\ cresp(axi).ready /\ ~cresp(axi).last
  BY <1>1, SeenResponse
<1>3. DataInIssue /\ count # 0
  BY <1>1, <1>2, ResponseLemma
<1>4. /\ ireqs[i].len = saved_req.len
      /\ count = saved_req.len - 1 - Passed(i)
  BY <1>2, <1>3 DEF IInv, GrantInv, Attributes
<1>5. count \in 0 .. LineLen - 1 /\ saved_req.len \in 1 .. LineLen
  BY <1>3, BusyCycle DEF DataInIssue
<1>6. Passed(i) \in Int
  BY DEF IInv, TypeOK, CacheTypeOK, ReaderTypeOK, Offset, Passed
<1> QED BY <1>2, <1>3, <1>4, <1>5, <1>6, CBusAssumption

\* Both requesters do what Requester says, on the response each one sees.
LEMMA RequestersStep ==
  ASSUME IInv, NEW axi \in Signals, Cycle(axi), NEW i \in Input
  PROVE  Requester(i, iresp(i, cresp(axi)))
<1> DEFINE r == iresp(i, cresp(axi))
<1>1. cresp(axi) \in CBusResp /\ r \in CBusResp
  BY ResponseLemma, SeenResponse DEF Cycle
<1>2. /\ i \in {0, 1} /\ ireqs[0] = dcreq /\ ireqs[1] = fetch /\ dcreq.len = LineLen
      /\ ireqs'[0] = dcreq' /\ ireqs'[1] = fetch'
  BY RequestTypes, PathAssumption DEF IInv, ireqs, Input
<1>3. r.ready /\ ~r.last => Passed(i) < ireqs[i].len - 1
  BY NotLast
<1>4. CASE i = 0
  <2>1. /\ dcreq.valid /\ ~(r.ready /\ r.last) =>
             /\ Attributes(dcreq)' = Attributes(dcreq)
             /\ cur' = IF r.ready THEN cur + 1 ELSE cur
        /\ ~dcreq.valid \/ (r.ready /\ r.last) => (dcreq.valid => cur = 0)'
    <3>1. CacheCycle(r) /\ (r.ready /\ ~r.last => cur < LineLen - 1)
      BY <1>2, <1>3, <1>4 DEF Cycle, Passed
    <3> HIDE DEF r
    <3> QED BY <1>1, <3>1, CacheRequester DEF IInv
  <2> QED BY <1>2, <1>4, <2>1 DEF Requester, Passed, Attributes
<1>5. CASE i = 1
  <2>1. /\ fetch.valid /\ ~(r.ready /\ r.last) =>
             /\ Attributes(fetch)' = Attributes(fetch)
             /\ got' = IF r.ready THEN got + 1 ELSE got
        /\ ~fetch.valid \/ (r.ready /\ r.last) => (fetch.valid => got = 0)'
    <3>1. ReaderCycle(r)
      BY <1>5 DEF Cycle
    <3> HIDE DEF r
    <3> QED BY <1>1, <3>1, ReaderRequester
  <2> QED BY <1>2, <1>5, <2>1 DEF Requester, Passed, Attributes
<1> QED BY <1>2, <1>4, <1>5

\* An input whose words do not move: its request stands still, or begins.
LEMMA WaitingInput ==
  ASSUME IInv, NEW axi \in Signals, Cycle(axi), NEW i \in Input, ~Moving(i)
  PROVE  /\ ireqs'[i].valid => Passed(i)' = 0
         /\ ireqs[i].valid => Attributes(ireqs[i])' = Attributes(ireqs[i])
<1> DEFINE r == iresp(i, cresp(axi))
<1>1. SlaveDrives(axi) /\ cresp(axi) \in CBusResp
  BY ResponseLemma DEF Cycle
<1>2. ~r.ready
  BY <1>1, SeenResponse, ResponseLemma DEF Moving
<1>3. Requester(i, r)
  BY RequestersStep
<1>4. ireqs[i].valid => Passed(i) = 0
  BY DEF IInv, HeldInv
<1> HIDE DEF r
<1>5. CASE ireqs[i].valid
  <2>1. Attributes(ireqs[i])' = Attributes(ireqs[i]) /\ Passed(i)' = Passed(i)
    BY <1>2, <1>3, <1>5 DEF Requester
  <2> QED BY <1>4, <1>5, <2>1
<1>6. CASE ~ireqs[i].valid
  BY <1>3, <1>6 DEF Requester
<1> QED BY <1>5, <1>6

\* The arbiter: a grant is held until the last word, and given to a valid input.
LEMMA GrantStep ==
  ASSUME IInv, NEW axi \in Signals, Cycle(axi)
  PROVE  /\ arb_index \in Input /\ arb_index' \in Input
         /\ arb_busy /\ ~cresp(axi).last => arb_busy' /\ arb_index' = arb_index
         /\ arb_busy /\ cresp(axi).last => ~arb_busy'
         /\ ~arb_busy /\ arb_busy' => ireqs[arb_index'].valid
<1>1. ArbiterCycle(ireqs, cresp(axi)) /\ cresp(axi) \in CBusResp
  BY ResponseLemma DEF Cycle
<1> QED BY <1>1, ArbiterTypeStep DEF ArbiterCycle, IInv, TypeOK, ArbiterTypeOK

\* While words move, both counters move together; the last word ends grant and data.
LEMMA HeldStep ==
  ASSUME IInv, NEW axi \in Signals, Cycle(axi)
  PROVE  HeldInv' /\ GrantInv'
<1> DEFINE resp == cresp(axi)
<1>0. PICK g \in Input : arb_index = g
  BY GrantStep
<1>1. /\ arb_index' \in Input
      /\ arb_busy /\ ~resp.last => arb_busy' /\ arb_index' = g
      /\ arb_busy /\ resp.last => ~arb_busy'
      /\ ~arb_busy /\ arb_busy' => ireqs[arb_index'].valid
  BY <1>0, GrantStep
<1>2. /\ SlaveDrives(axi) /\ axi.on \subseteq in_issue
      /\ resp.ready = ("R" \in axi.on \/ "W" \in axi.on)
      /\ resp.last = (resp.ready /\ count = 0)
      /\ resp.ready => DataInIssue
  BY ResponseLemma DEF Cycle
<1>3. \A i \in Input : ireqs[i] \in CBusReq /\ ireqs[i].valid \in BOOLEAN
  BY RequestTypes DEF IInv, CBusReq
<1>4. ASSUME ~DataInIssue
      PROVE  HeldInv' /\ (arb_busy => arb_busy' /\ arb_index' = g
                                      /\ Attributes(ireqs[g])' = Attributes(ireqs[g])
                                      /\ Passed(g)' = 0)
  <2>1. \A i \in Input : /\ ireqs'[i].valid => Passed(i)' = 0
                         /\ ireqs[i].valid => Attributes(ireqs[i])' = Attributes(ireqs[i])
    BY <1>4, WaitingInput DEF Moving
  <2>2. \A i \in Input : ireqs[i].valid => ireqs'[i].valid
    BY <1>3, <2>1 DEF Attributes
  <2>3. arb_busy => ireqs[g].valid
    BY <1>0 DEF IInv, HeldInv
  <2>4. ~resp.last
    BY <1>2, <1>4
  <2>5. arb_busy' => ireqs'[arb_index'].valid
    BY <1>1, <2>2, <2>3, <2>4
  <2>6. HeldInv'
    BY <2>1, <2>5 DEF HeldInv, Input
  <2>7. arb_busy => Attributes(ireqs[g])' = Attributes(ireqs[g]) /\ Passed(g)' = 0
    BY <2>1, <2>2, <2>3
  <2> HIDE DEF resp
  <2> QED BY <1>1, <2>4, <2>6, <2>7
<1>5. CASE in_issue = {}
  <2>1. ~DataInIssue
    BY <1>5 DEF DataInIssue
  <2>2. /\ saved_req' = oreq(ireqs) /\ count' = oreq(ireqs).len - 1
        /\ in_issue' = IF oreq(ireqs).valid THEN NextIssue(oreq(ireqs)) ELSE {}
    BY <1>5, IdleCycle
  <2>3. GrantInv'
    <3> SUFFICES ASSUME DataInIssue'
                 PROVE  /\ arb_busy'
                        /\ Attributes(ireqs[arb_index])' = Attributes(saved_req)'
                        /\ count' = saved_req'.len - 1 - Passed(arb_index)'
      BY DEF GrantInv
    <3>1. oreq(ireqs).valid
      BY <2>2 DEF DataInIssue
    <3>2. arb_busy /\ oreq(ireqs) = ireqs[g]
      BY <1>0, <3>1, RequestTypes, ZeroValues DEF IInv
    <3>3. /\ arb_busy' /\ arb_index' = g /\ Attributes(ireqs[g])' = Attributes(ireqs[g])
          /\ Passed(g)' = 0
      BY <1>4, <2>1, <3>2
    <3>4. Attributes(ireqs[arb_index])' = Attributes(saved_req)' /\ Passed(arb_index)' = 0
      BY <2>2, <3>2, <3>3 DEF Attributes, Passed
    <3>5. count' = saved_req'.len - 1 /\ saved_req'.len \in Int
      BY <1>1, <1>3, <2>2, <3>2, CBusAssumption DEF CBusReq
    <3> QED BY <3>3, <3>4, <3>5
  <2> QED BY <1>4, <2>1, <2>3
<1>6. CASE in_issue # {} /\ ~DataInIssue
  <2>1. ~DataInIssue'
    BY <1>6, BusyCycle DEF DataInIssue
  <2> QED BY <1>4, <1>6, <2>1 DEF GrantInv
<1>7. CASE DataInIssue
  <2>0. in_issue # {}
    BY <1>7 DEF DataInIssue
  <2>1. /\ saved_req' = saved_req
        /\ count' = IF resp.ready /\ count # 0 THEN count - 1 ELSE count
        /\ in_issue' = in_issue \ {c \in axi.on : c \in {"R", "W"} => count = 0}
        /\ count \in Int /\ saved_req.len \in Int
    BY <2>0, BusyCycle
  <2>2. /\ arb_busy /\ Attributes(ireqs[g]) = Attributes(saved_req)
        /\ count = saved_req.len - 1 - Passed(g) /\ ireqs[g].valid
    BY <1>0, <1>7 DEF IInv, GrantInv, HeldInv
  <2>3. Requester(g, resp)
    <3>1. iresp(g, resp) = resp
      BY <1>0, <2>2 DEF iresp
    <3> QED BY <3>1, RequestersStep
  <2>4. \A i \in Input \ {g} : ireqs'[i].valid => Passed(i)' = 0
    BY <1>0, WaitingInput DEF Moving
  <2>5. CASE resp.last
    <3>1. ~arb_busy' /\ (ireqs'[g].valid => Passed(g)' = 0)
      <4>1. Requester(g, resp) => (ireqs[g].valid => Passed(g) = 0)'
        BY <1>2, <2>5 DEF Requester
      <4> QED BY <1>1, <2>2, <2>3, <2>5, <4>1
    <3>2. ~DataInIssue'
      <4>1. ("R" \in axi.on \/ "W" \in axi.on) /\ count = 0
        BY <1>2, <2>5
      <4>2. ~("R" \in in_issue /\ "W" \in in_issue)
        BY DEF IInv, ReadBurstInv
      <4> QED BY <1>2, <2>1, <4>1, <4>2 DEF DataInIssue
    <3> QED BY <2>4, <3>1, <3>2 DEF HeldInv, GrantInv
  <2>6. CASE ~resp.last
    <3>1. arb_busy' /\ arb_index' = g
      BY <1>1, <2>2, <2>6
    <3>2. /\ Attributes(ireqs[g])' = Attributes(ireqs[g])
          /\ Passed(g)' = IF resp.ready THEN Passed(g) + 1 ELSE Passed(g)
      BY <2>2, <2>3, <2>6 DEF Requester
    <3>3. DataInIssue'
      BY <1>2, <1>7, <2>1, <2>6 DEF DataInIssue
    <3>4. Passed(g) \in Int
      BY DEF IInv, TypeOK, CacheTypeOK, ReaderTypeOK, Offset, Passed
    <3>5. count' = saved_req.len - 1 - Passed(g)'
      <4>1. resp.ready => count # 0
        BY <1>2, <2>6
      <4> QED BY <2>1, <2>2, <3>2, <3>4, <4>1
    <3>6. GrantInv'
      BY <2>1, <2>2, <3>1, <3>2, <3>5 DEF GrantInv, Attributes, Passed
    <3>7. ireqs'[g].valid
      BY <2>2, <3>2 DEF Attributes
    <3>8. \A i \in Input : (ireqs[i].valid /\ ~Moving(i) => Passed(i) = 0)'
      BY <2>4, <3>1, <3>3 DEF Moving
    <3> QED BY <3>1, <3>6, <3>7, <3>8 DEF HeldInv, Input
  <2> QED BY <2>5, <2>6
<1> QED BY <1>5, <1>6, <1>7

-------------------------------------------------------------------------------
\* After reset nothing is requested, granted or in issue.
LEMMA InitInv == Init => IInv
<1> SUFFICES ASSUME Init PROVE IInv
  OBVIOUS
<1> USE DEF Init
<1>1. CacheTypeOK
  <2>1. \A k \in Way : MRU - k \in Way
    BY WaysAssumption DEF Way, MRU
  <2>2. [tag |-> 0, valid |-> FALSE, dirty |-> FALSE] \in Meta
    BY ZeroValues DEF Meta
  <2>3. req \in DBusReq
    BY ZeroValues DEF CacheInit, DBusReq
  <2> QED BY <2>1, <2>2, <2>3, ZeroValues DEF CacheInit, CacheTypeOK, State
<1>2. ArbiterTypeOK
  <2>1. 0 \in Input
    BY InputsAssumption DEF Input
  <2> QED BY <2>1 DEF ArbiterInit, ArbiterTypeOK
<1>3. ConverterTypeOK
  BY DEF ConverterInit, ConverterTypeOK
<1>4. SlaveTypeOK
  BY ZeroValues DEF SlaveInit, SlaveTypeOK
<1>5. ReaderTypeOK
  BY ZeroValues, CBusAssumption DEF ReaderInit, ReaderTypeOK
<1>6. TypeOK
  BY <1>1, <1>2, <1>3, <1>4, <1>5 DEF TypeOK
<1>7. HeldInv
  <2>1. ~dcreq.valid /\ ~fetch.valid
    BY DEF dcreq, CacheInit, ReaderInit, NoReq
  <2>2. \A i \in Input : ~ireqs[i].valid
    BY <1>6, <2>1, RequestTypes
  <2> QED BY <2>2 DEF HeldInv, ArbiterInit
<1>8. GrantInv /\ NoBurstInv /\ ReadBurstInv /\ WriteBurstInv
  BY DEF ConverterInit, SlaveInit, GrantInv, DataInIssue, NoBurstInv, ReadBurstInv, WriteBurstInv
<1> QED BY <1>6, <1>7, <1>8 DEF IInv

\* Between two bursts the converter may start one, which the slave has not seen.
LEMMA IssueStep ==
  ASSUME IInv, NEW axi \in Signals, Cycle(axi), in_issue = {}
  PROVE  /\ ConverterTypeOK' /\ SlaveTypeOK'
         /\ NoBurstInv' /\ ReadBurstInv' /\ WriteBurstInv'
<1>1. /\ UNCHANGED slaveVars
      /\ saved_req' = oreq(ireqs) /\ count' = oreq(ireqs).len - 1
      /\ in_issue' = IF oreq(ireqs).valid THEN NextIssue(oreq(ireqs)) ELSE {}
  BY IdleCycle
<1>2. oreq(ireqs) \in CBusReq /\ oreq(ireqs).len \in {1, LineLen}
  BY RequestTypes DEF IInv, CBusReq
<1>3. rd' = NoRead /\ wr' = NoWrite /\ mem' = mem
  BY <1>1 DEF slaveVars, IInv, NoBurstInv
<1>4. /\ count' \in 0 .. LineLen - 1 /\ count' < saved_req'.len
      /\ count' = saved_req'.len - 1 /\ saved_req'.len - 1 - count' = 0
  BY <1>1, <1>2, CBusAssumption
<1>5. in_issue' \subseteq Channel
  BY <1>1 DEF NextIssue, Channel
<1>6. ConverterTypeOK' /\ SlaveTypeOK'
  <2>1. ConverterTypeOK'
    BY <1>1, <1>2, <1>4, <1>5 DEF ConverterTypeOK
  <2>2. SlaveTypeOK'
    BY <1>3, ZeroValues DEF IInv, TypeOK, SlaveTypeOK
  <2> QED BY <2>1, <2>2
<1>7. NoRead.busy = FALSE /\ NoWrite.addressed = FALSE /\ NoWrite.complete = FALSE /\ NoWrite.n = 0
  BY DEF NoRead, NoWrite
<1>8. NoBurstInv' /\ ReadBurstInv' /\ WriteBurstInv'
  BY <1>1, <1>3, <1>4, <1>7 DEF NextIssue, NoBurstInv, ReadBurstInv, WriteBurstInv
<1> QED BY <1>6, <1>8

\* One clock edge of everything.
LEMMA CycleStep ==
  ASSUME IInv, NEW axi \in Signals, Cycle(axi)
  PROVE  IInv'
<1>1. /\ ConverterTypeOK' /\ SlaveTypeOK'
      /\ NoBurstInv' /\ ReadBurstInv' /\ WriteBurstInv'
  <2>1. CASE in_issue = {}
    BY <2>1, IssueStep
  <2>2. ASSUME in_issue # {} PROVE ConverterTypeOK'
    BY <2>2, BusyCycle DEF ConverterTypeOK, IInv, TypeOK
  <2>3. CASE in_issue # {} /\ saved_req.is_write
    BY <2>2, <2>3, WriteCycle
  <2>4. CASE in_issue # {} /\ ~saved_req.is_write
    <3>1. SlaveTypeOK'
      BY <2>4, ReadCycle DEF SlaveTypeOK, IInv, TypeOK
    <3> QED BY <2>2, <2>4, <3>1, ReadCycle
  <2> QED BY <2>1, <2>3, <2>4
<1>2. HeldInv' /\ GrantInv'
  BY HeldStep
<1>3. cresp(axi) \in CBusResp
  BY ResponseLemma DEF Cycle
<1>4. CacheTypeOK'
  BY <1>3, CacheTypeStep, SeenResponse DEF Cycle, IInv, TypeOK
<1>5. ArbiterTypeOK'
  BY <1>3, ArbiterTypeStep DEF Cycle, IInv
<1>6. ReaderTypeOK'
  <2> DEFINE r == iresp(1, cresp(axi))
  <2>1. r \in CBusResp /\ ReaderCycle(r)
    BY <1>3, SeenResponse DEF Cycle
  <2>2. fetch \in CBusReq /\ 1 \in Input /\ ireqs[1] = fetch
    BY RequestTypes DEF IInv
  <2>3. r.ready /\ ~r.last => got < LineLen - 1
    <3>1. r.ready /\ ~r.last => Passed(1) < ireqs[1].len - 1 /\ ireqs[1].len \in 1 .. LineLen
      BY <2>2, NotLast
    <3>2. Passed(1) = got /\ got \in Int
      BY DEF Passed, IInv, TypeOK, ReaderTypeOK
    <3> HIDE DEF r
    <3> QED BY <3>1, <3>2, CBusAssumption
  <2> HIDE DEF r
  <2> QED BY <2>1, <2>2, <2>3, ReaderTypeStep DEF IInv, TypeOK
<1> QED BY <1>1, <1>2, <1>4, <1>5, <1>6 DEF IInv, TypeOK

\* No clock edge.
LEMMA StutterStep ==
  ASSUME IInv, UNCHANGED vars
  PROVE  IInv'
<1>1. /\ UNCHANGED <<state, order, meta, ram, req, cur>> /\ UNCHANGED <<arb_busy, arb_index>>
      /\ UNCHANGED <<in_issue, saved_req, count>> /\ UNCHANGED <<mem, rd, wr>>
      /\ UNCHANGED <<fetch, got, line>>
  BY DEF vars, cacheVars, arbVars, cvtVars, slaveVars, readerVars
<1>2. dcreq' = dcreq /\ DataInIssue' = DataInIssue
  BY <1>1 DEF dcreq, Position, DataInIssue
<1>3. ireqs' = ireqs
  BY <1>1, <1>2 DEF ireqs
<1>4. TypeOK'
  BY <1>1 DEF IInv, TypeOK, CacheTypeOK, ArbiterTypeOK, ConverterTypeOK, SlaveTypeOK, ReaderTypeOK
<1>5. HeldInv' /\ GrantInv'
  BY <1>1, <1>2, <1>3 DEF IInv, HeldInv, GrantInv, Moving, Passed, Attributes
<1>6. NoBurstInv' /\ ReadBurstInv' /\ WriteBurstInv'
  BY <1>1 DEF IInv, NoBurstInv, ReadBurstInv, WriteBurstInv
<1> QED BY <1>4, <1>5, <1>6 DEF IInv

\* The invariant that the theorems below rest on holds in every cycle.
THEOREM PathInductive == Spec => []IInv
<1>1. IInv /\ [Next]_vars => IInv'
  BY CycleStep, StutterStep DEF Next
<1> QED BY <1>1, InitInv, PTL DEF Spec

\* Every register, bus and burst of the path stays of its type.
THEOREM PathTypeCorrect == Spec => []TypeOK
<1>1. IInv => TypeOK
  BY DEF IInv
<1> QED BY <1>1, PathInductive, PTL

\* Nobody waits for a beat that no one asked for, and everybody sees the beats of its own
\* burst only: CBusArbiter.sv and CBusToAXI.sv keep the requester and the burst together,
\* although AW and B of one burst may end after the next request is granted.
THEOREM BeatsBelong == Spec => []BeatsBelongToGrant
<1>1. IInv => BeatsBelongToGrant
  BY DEF IInv, HeldInv, GrantInv, Attributes, Passed, BeatsBelongToGrant
<1> QED BY <1>1, PathInductive, PTL

\* CBusToAXI.sv issues no read while a write is without its response.
THEOREM ReadsAfterWrites == Spec => []NoReadPastWrite
<1>1. IInv => NoReadPastWrite
  BY DEF IInv, ReadBurstInv, NoReadPastWrite
<1> QED BY <1>1, PathInductive, PTL

-------------------------------------------------------------------------------
\* What the instruction side receives.

\* A word is taken with rvalid only, and it is the next word of the fetch.
LEMMA FetchStep ==
  ASSUME IInv, NEW axi \in Signals, Cycle(axi)
  PROVE  /\ line' # line => arb_index = 1 /\ rd.busy
         /\ arb_index = 1 /\ rd.busy /\ rd' # rd =>
              line'[BeatWord(fetch.offset, got)] =
              mem[fetch.tag][fetch.index][BeatWord(fetch.offset, got)]
<1> DEFINE r == iresp(1, cresp(axi))
<1>1. /\ SlaveDrives(axi) /\ axi.on \subseteq in_issue /\ Handshake(axi) = axi.on
      /\ cresp(axi) \in CBusResp
      /\ cresp(axi).ready = ("R" \in axi.on \/ "W" \in axi.on)
      /\ cresp(axi).data = axi.rdata
      /\ cresp(axi).ready => DataInIssue
  BY ResponseLemma DEF Cycle
<1>2. "R" \in axi.on => /\ rd.busy /\ rd.n = saved_req.len - 1 - count
                        /\ rd.tag = saved_req.tag /\ rd.index = saved_req.index
                        /\ rd.start = saved_req.offset
  BY <1>1, ResponseLemma
<1>3. ireqs[1] = fetch /\ ~fetch.is_write
  BY RequestTypes DEF IInv
<1>4. ASSUME line' # line PROVE arb_index = 1 /\ rd.busy
  <2>1. r.ready
    BY <1>4 DEF Cycle, ReaderCycle
  <2>2. arb_busy /\ arb_index = 1 /\ cresp(axi).ready
    BY <1>1, <2>1, SeenResponse
  <2>3. ~saved_req.is_write
    BY <1>1, <1>3, <2>2 DEF IInv, GrantInv, Attributes
  <2>4. "R" \in axi.on
    BY <1>1, <2>2, <2>3 DEF IInv, WriteBurstInv
  <2> QED BY <1>2, <2>2, <2>4
<1>5. ASSUME arb_index = 1, rd.busy, rd' # rd
      PROVE  line'[BeatWord(fetch.offset, got)] =
             mem[fetch.tag][fetch.index][BeatWord(fetch.offset, got)]
  <2>1. rd # NoRead
    BY <1>5 DEF NoRead
  <2>2. "R" \in in_issue /\ "AR" \notin in_issue
    BY <2>1 DEF IInv, TypeOK, ConverterTypeOK, Channel, NoBurstInv, ReadBurstInv, WriteBurstInv
  <2>3. "R" \in axi.on
    BY <1>1, <1>5, <2>2 DEF Cycle, ReadChannels
  <2>4. /\ arb_busy /\ fetch.valid
        /\ fetch.tag = saved_req.tag /\ fetch.index = saved_req.index
        /\ fetch.offset = saved_req.offset /\ count = saved_req.len - 1 - got
    <3>1. cresp(axi).ready /\ DataInIssue
      BY <1>1, <2>3
    <3>2. arb_busy /\ Attributes(fetch) = Attributes(saved_req) /\ count = saved_req.len - 1 - Passed(1)
      BY <1>3, <1>5, <3>1 DEF IInv, GrantInv
    <3>3. fetch.valid
      BY <1>3, <1>5, <3>2 DEF IInv, HeldInv
    <3> QED BY <3>2, <3>3 DEF Attributes, Passed
  <2>5. rd.n = got
    <3>1. saved_req.len \in Int /\ got \in Int
      BY CBusAssumption DEF IInv, TypeOK, ConverterTypeOK, CBusReq, ReaderTypeOK
    <3> QED BY <1>2, <2>3, <2>4, <3>1
  <2>6. axi.rdata = mem[fetch.tag][fetch.index][BeatWord(fetch.offset, got)]
    BY <1>1, <1>2, <2>3, <2>4, <2>5 DEF SlaveDrives
  <2>7. line' = [line EXCEPT ![BeatWord(fetch.offset, got)] = axi.rdata]
    <3>1. iresp(1, cresp(axi)) = cresp(axi)
      BY <1>5, <2>4 DEF iresp
    <3>2. ReaderCycle(cresp(axi))
      BY <3>1 DEF Cycle
    <3> QED BY <1>1, <2>3, <2>4, <3>2 DEF ReaderCycle
  <2>8. BeatWord(fetch.offset, got) \in Offset /\ line \in [Offset -> Word]
    <3>1. fetch.offset \in Offset /\ got \in Offset
      BY RequestTypes DEF IInv, TypeOK, ReaderTypeOK, Offset, CBusReq
    <3> QED BY <3>1, BeatWordType DEF IInv, TypeOK, ReaderTypeOK
  <2> QED BY <2>6, <2>7, <2>8
<1> QED BY <1>4, <1>5

\* CBusArbiter.sv and CBusToAXI.sv give the instruction side the words it asked for, at
\* their places, and none of the data side's.
THEOREM FetchesAreRight == Spec => FetchGetsMemory
<1>1. IInv /\ [Next]_vars =>
        [/\ line' # line => arb_index = 1 /\ rd.busy
         /\ arb_index = 1 /\ rd.busy /\ rd' # rd =>
              LET o == BeatWord(fetch.offset, got) IN
              line'[o] = mem[fetch.tag][fetch.index][o]]_vars
  BY FetchStep DEF Next
<1> QED BY <1>1, PathInductive, PTL DEF Spec, FetchGetsMemory

-------------------------------------------------------------------------------
\* The converter and the slave as a memory device.

\* Of the beats before the next one, and the next one, each word of a line has one.
LEMMA NextBeat ==
  ASSUME NEW start \in Offset, NEW k \in Offset, NEW o \in Offset
  PROVE  /\ WordBeat(start, o) \in Offset
         /\ (WordBeat(start, o) = k) = (o = BeatWord(start, k))
         /\ WordBeat(start, o) < k + 1 <=> WordBeat(start, o) < k \/ WordBeat(start, o) = k
         /\ ~(k < k)
<1>1. WordBeat(start, o) \in Offset
  BY BeatWordType
<1>2. (WordBeat(start, o) = k) = (o = BeatWord(start, k))
  BY CBusAssumption DEF BeatWord, WordBeat, Offset
<1>3. \A n \in Offset : n < k + 1 <=> n < k \/ n = k
  BY CBusAssumption DEF Offset
<1>4. ~(k < k)
  BY CBusAssumption DEF Offset
<1> QED BY <1>1, <1>2, <1>3, <1>4

\* No beat merged: the line is as it was.
LEMMA WrittenNone ==
  ASSUME NEW words \in [Offset -> Word], NEW start \in Offset, NEW beats
  PROVE  Written(words, start, 0, beats) = words
<1>1. \A o \in Offset : ~(WordBeat(start, o) < 0)
  BY BeatWordType DEF Offset
<1> QED BY <1>1 DEF Written

\* The words that have passed, in a write burst: also before the first one.
LEMMA PassedLine ==
  ASSUME TypeOK
  PROVE  PassedWords = [mem EXCEPT ![saved_req.tag][saved_req.index] =
                          Written(mem[saved_req.tag][saved_req.index], saved_req.offset,
                                  wr.n, wr.beats)]
<1>1. /\ saved_req.tag \in Tag /\ saved_req.index \in Index /\ saved_req.offset \in Offset
      /\ mem \in [Tag -> [Index -> [Offset -> Word]]]
  BY DEF TypeOK, ConverterTypeOK, CBusReq, SlaveTypeOK
<1>2. CASE wr.n = 0
  <2>1. Written(mem[saved_req.tag][saved_req.index], saved_req.offset, 0, wr.beats) =
        mem[saved_req.tag][saved_req.index]
    BY <1>1, WrittenNone
  <2> QED BY <1>1, <1>2, <2>1 DEF PassedWords
<1>3. CASE wr.n # 0
  BY <1>3 DEF PassedWords
<1> QED BY <1>2, <1>3

\* The words that have passed change with the words written, not with AW or B.
LEMMA WordsKept ==
  ASSUME IInv, NEW axi \in Signals, Cycle(axi), "W" \notin axi.on
  PROVE  PassedWords' = PassedWords
<1>1. CASE in_issue = {}
  BY <1>1, IdleCycle DEF slaveVars, IInv, NoBurstInv, PassedWords, NoWrite
<1>2. CASE in_issue # {} /\ ~saved_req.is_write
  BY <1>2, ReadCycle DEF PassedWords, NoWrite
<1>3. CASE in_issue # {} /\ saved_req.is_write
  <2>1. saved_req' = saved_req /\ saved_req.len # 0
    BY <1>3, BusyCycle
  <2>2. CASE "B" \in axi.on
    <3>1. /\ wr.tag = saved_req.tag /\ wr.index = saved_req.index
          /\ wr.start = saved_req.offset /\ wr.n # 0
          /\ mem' = [mem EXCEPT ![wr.tag][wr.index] =
                       Written(mem[wr.tag][wr.index], wr.start, wr.n, wr.beats)]
          /\ wr' = NoWrite
      BY <1>3, <2>1, <2>2, WriteCycle
    <3>2. PassedWords' = mem'
      BY <3>1 DEF PassedWords, NoWrite
    <3> QED BY <3>1, <3>2 DEF PassedWords
  <2>3. CASE "B" \notin axi.on
    <3>1. mem' = mem /\ wr'.n = wr.n /\ wr'.beats = wr.beats
      BY <1>3, <2>3, WriteCycle
    <3> QED BY <2>1, <3>1 DEF PassedWords
  <2> QED BY <2>2, <2>3
<1> QED BY <1>1, <1>2, <1>3

\* While words of the data side move, the converter's burst is the cache's line.
LEMMA MovingFacts ==
  ASSUME IInv, Moving(0)
  PROVE  /\ dcreq.valid /\ in_issue # {}
         /\ dcreq.is_write = saved_req.is_write /\ dcreq.tag = saved_req.tag
         /\ dcreq.index = saved_req.index /\ saved_req.offset = 0 /\ saved_req.len = LineLen
         /\ count = LineLen - 1 - cur /\ cur \in Offset
         /\ BeatWord(0, cur) = cur /\ LineLen - 1 - count = cur
<1>1. ireqs[0] = dcreq /\ dcreq.offset = 0 /\ dcreq.len = LineLen
  BY RequestTypes DEF IInv
<1>2. dcreq.valid /\ Attributes(dcreq) = Attributes(saved_req) /\ count = saved_req.len - 1 - cur
  BY <1>1 DEF Moving, IInv, HeldInv, GrantInv, Passed
<1>3. cur \in Offset
  BY DEF IInv, TypeOK, CacheTypeOK
<1>4. BeatWord(0, cur) = cur /\ LineLen - 1 - (LineLen - 1 - cur) = cur
  BY <1>3, CBusAssumption DEF BeatWord, Offset
<1> QED BY <1>1, <1>2, <1>3, <1>4 DEF Attributes, Moving, DataInIssue

\* The transaction that the cache sees.
LineTx == [busy |-> TRUE, is_write |-> dcreq.is_write, tag |-> dcreq.tag,
           index |-> dcreq.index, start |-> 0, addr |-> cur, n |-> cur + 1, len |-> LineLen]

\* DeviceTx, said with the cache's registers.
LEMMA DeviceTxLemma == IInv => DeviceTx = IF Moving(0) THEN LineTx ELSE Device!IdleTx
<1> SUFFICES ASSUME IInv PROVE DeviceTx = IF Moving(0) THEN LineTx ELSE Device!IdleTx
  OBVIOUS
<1>1. CASE Moving(0)
  BY <1>1, MovingFacts DEF DeviceTx, LineTx, Moving
<1>2. CASE ~Moving(0)
  BY <1>2 DEF DeviceTx, Moving, DeviceIdle, Device!IdleTx
<1> QED BY <1>1, <1>2

\* When the words of the data side begin, go on and end to move.
LEMMA MovingStep ==
  ASSUME IInv, NEW axi \in Signals, Cycle(axi)
  PROVE  /\ Moving(0) /\ ~cresp(axi).last =>
              /\ Moving(0)' /\ saved_req' = saved_req
         /\ Moving(0) /\ cresp(axi).last => ~Moving(0)'
         /\ ~Moving(0) /\ Moving(0)' =>
              /\ in_issue = {} /\ arb_busy /\ arb_index = 0
              /\ dcreq.valid /\ saved_req' = dcreq /\ count' = dcreq.len - 1
<1>1. /\ arb_busy /\ ~cresp(axi).last => arb_busy' /\ arb_index' = arb_index
      /\ arb_busy /\ cresp(axi).last => ~arb_busy'
  BY GrantStep
<1>2. /\ axi.on \subseteq in_issue
      /\ cresp(axi).ready = ("R" \in axi.on \/ "W" \in axi.on)
      /\ cresp(axi).last = (cresp(axi).ready /\ count = 0)
  BY ResponseLemma DEF Cycle
<1>3. ASSUME Moving(0), ~cresp(axi).last PROVE Moving(0)' /\ saved_req' = saved_req
  <2>1. in_issue # {} /\ DataInIssue
    BY <1>3 DEF Moving, DataInIssue
  <2>2. /\ saved_req' = saved_req
        /\ in_issue' = in_issue \ {c \in axi.on : c \in {"R", "W"} => count = 0}
    BY <2>1, BusyCycle
  <2>3. DataInIssue'
    BY <1>2, <1>3, <2>1, <2>2 DEF DataInIssue
  <2> QED BY <1>1, <1>3, <2>2, <2>3 DEF Moving
<1>4. ASSUME ~Moving(0), Moving(0)'
      PROVE  /\ in_issue = {} /\ arb_busy /\ arb_index = 0
             /\ dcreq.valid /\ saved_req' = dcreq /\ count' = dcreq.len - 1
  <2>1. CASE in_issue # {}
    <3>1. DataInIssue
      BY <1>4, <2>1, BusyCycle DEF Moving, DataInIssue
    <3>2. arb_busy
      BY <3>1 DEF IInv, GrantInv
    <3> QED BY <1>1, <1>4, <3>1, <3>2 DEF Moving
  <2>2. CASE in_issue = {}
    <3>1. /\ saved_req' = oreq(ireqs) /\ count' = oreq(ireqs).len - 1 /\ ~cresp(axi).last
          /\ in_issue' = IF oreq(ireqs).valid THEN NextIssue(oreq(ireqs)) ELSE {}
      BY <1>2, <2>2, IdleCycle
    <3>2. oreq(ireqs).valid
      BY <1>4, <3>1 DEF Moving, DataInIssue
    <3>3. arb_busy /\ oreq(ireqs) = ireqs[arb_index]
      BY <3>2, RequestTypes, ZeroValues DEF IInv
    <3>4. arb_index = 0
      BY <1>1, <1>4, <3>1, <3>3 DEF Moving
    <3>5. ireqs[0] = dcreq
      BY RequestTypes DEF IInv
    <3> QED BY <2>2, <3>1, <3>2, <3>3, <3>4, <3>5
  <2> QED BY <2>1, <2>2
<1> QED BY <1>1, <1>3, <1>4 DEF Moving

\* The cache behind the device is this cache.
LEMMA DeviceCache ==
  /\ Device!CacheInit <=> CacheInit
  /\ Device!dcreq = dcreq
  /\ Device!CBusResp = CBusResp
  /\ \A rq : Accept(rq) => Device!Accept(rq)
  /\ \A r : Flush(r) => Device!Flush(r)
  /\ \A r : Fetch(r) => Device!Fetch(r)
  /\ Serve => Device!Serve
<1>1. Device!Word = Word /\ Device!Offset = Offset /\ Device!Way = Way /\ Device!MRU = MRU
      /\ Device!ZeroWord = ZeroWord
  BY DEF Device!Word, Word, Device!Offset, Offset, Device!Way, Way, Device!MRU, MRU,
         Device!ZeroWord, ZeroWord
<1>2. Device!Position = Position
  BY <1>1 DEF Device!Position, Position
<1>3. Device!dcreq = dcreq
  BY <1>2 DEF Device!dcreq, dcreq
<1>4. Device!CBusResp = CBusResp
  BY <1>1 DEF Device!CBusResp, CBusResp
<1>5. Device!DBusReq = DBusReq
  BY <1>1 DEF Device!DBusReq, DBusReq
<1>6. Device!CacheInit <=> CacheInit
  BY <1>1 DEF Device!CacheInit, CacheInit
<1>7. \A i, t : Device!Hits(i, t) = Hits(i, t)
  BY <1>1 DEF Device!Hits, Hits
<1>8. \A i, t : Device!Lookup(i, t) = Lookup(i, t)
  <2> SUFFICES ASSUME NEW i, NEW t PROVE Device!Lookup(i, t) = Lookup(i, t)
    OBVIOUS
  <2> DEFINE First(H) == CHOOSE w \in H : \A v \in H : w <= v
  <2>1. Device!Lookup(i, t) = IF Device!Hits(i, t) # {} THEN First(Device!Hits(i, t)) ELSE order[i][0]
    BY DEF Device!Lookup
  <2>2. Lookup(i, t) = IF Hits(i, t) # {} THEN First(Hits(i, t)) ELSE order[i][0]
    BY DEF Lookup
  <2> HIDE DEF First
  <2> QED BY <1>7, <2>1, <2>2
<1>9. \A ooo, w : Device!Reorder(ooo, w) = Reorder(ooo, w)
  BY <1>1 DEF Device!Reorder, Reorder
<1>10. ASSUME NEW rq, Accept(rq) PROVE Device!Accept(rq)
  BY <1>7, <1>8, <1>9, <1>10 DEF Device!Accept, Accept
<1>11. \A o : Device!NextOffset(o) = NextOffset(o)
  BY DEF Device!NextOffset, NextOffset
<1>12. ASSUME NEW r PROVE (Flush(r) => Device!Flush(r)) /\ (Fetch(r) => Device!Fetch(r))
  BY <1>2, <1>11 DEF Device!Flush, Flush, Device!Fetch, Fetch
<1>13. \A x, y, z : Device!Merge(x, y, z) = Merge(x, y, z)
  BY DEF Device!Merge, Merge
<1>14. Serve => Device!Serve
  BY <1>2, <1>13 DEF Device!Serve, Serve
<1> QED BY <1>3, <1>4, <1>6, <1>10, <1>12, <1>14

\* One beat of a write burst of the data side changes the word at cur, as the device does.
LEMMA BeatWritten ==
  ASSUME IInv, NEW axi \in Signals, Cycle(axi), Moving(0), "W" \in axi.on
  PROVE  PassedWords' = [PassedWords EXCEPT ![dcreq.tag][dcreq.index][cur] =
                           Merge(@, dcreq.data, dcreq.strobe)]
<1> DEFINE t == saved_req.tag
           i == saved_req.index
           first == saved_req.offset
           beat == [data |-> dcreq.data, strobe |-> dcreq.strobe]
           old == Written(mem[t][i], first, cur, wr.beats)
           new == Written(mem[t][i], first, wr'.n, wr'.beats)
<1>1. /\ in_issue # {} /\ dcreq.tag = t /\ dcreq.index = i
      /\ saved_req.offset = 0 /\ saved_req.len = LineLen
      /\ cur \in Offset /\ BeatWord(0, cur) = cur /\ LineLen - 1 - count = cur
  BY MovingFacts
<1>2. axi.on \subseteq in_issue /\ ("B" \in axi.on => in_issue = {"B"})
  BY ResponseLemma DEF Cycle
<1>3. saved_req.is_write /\ "B" \notin axi.on
  BY <1>2 DEF IInv, ReadBurstInv, WriteBurstInv
<1>4. oreq(ireqs) = dcreq
  BY RequestTypes DEF Moving, IInv
<1>5. /\ mem' = mem /\ wr.n = cur /\ wr'.n = cur + 1
      /\ wr'.beats = [wr.beats EXCEPT ![cur] = beat]
  BY <1>1, <1>3, <1>4, WriteCycle
<1>6. saved_req' = saved_req
  BY <1>1, BusyCycle
<1>7. /\ t \in Tag /\ i \in Index /\ 0 \in Offset
      /\ mem \in [Tag -> [Index -> [Offset -> Word]]]
      /\ wr.beats \in [Offset -> Beat] /\ beat \in Beat
  <2>1. beat \in Beat
    BY RequestTypes DEF IInv, CBusReq, Beat
  <2> QED
    BY <2>1, ZeroValues DEF IInv, TypeOK, ConverterTypeOK, CBusReq, SlaveTypeOK, WriteBurst
<1>8. new = [old EXCEPT ![cur] = Merge(old[cur], dcreq.data, dcreq.strobe)]
  <2>1. mem[t][i] \in [Offset -> Word]
    BY <1>7
  <2>2. /\ wr.beats \in [Offset -> Beat] /\ beat \in Beat
        /\ first \in Offset /\ cur \in Offset /\ BeatWord(first, cur) = cur
    BY <1>1, <1>7
  <2> DEFINE next == Written(mem[t][i], first, cur + 1, [wr.beats EXCEPT ![cur] = beat])
  <2> HIDE DEF t, i, first, beat
  <2>3. ASSUME NEW o \in Offset
        PROVE  next[o] = IF o = cur THEN Merge(old[o], beat.data, beat.strobe) ELSE old[o]
    <3> DEFINE k == WordBeat(first, o)
    <3>1. /\ k \in Offset /\ (k = cur) = (o = cur) /\ (k < cur + 1 <=> k < cur \/ k = cur)
          /\ ~(cur < cur)
      BY <2>2, NextBeat
    <3>2. next[o] = IF k < cur + 1
                    THEN Merge(mem[t][i][o], [wr.beats EXCEPT ![cur] = beat][k].data,
                               [wr.beats EXCEPT ![cur] = beat][k].strobe)
                    ELSE mem[t][i][o]
      BY DEF Written
    <3>3. old[o] = IF k < cur THEN Merge(mem[t][i][o], wr.beats[k].data, wr.beats[k].strobe)
                   ELSE mem[t][i][o]
      BY DEF Written
    <3>4. [wr.beats EXCEPT ![cur] = beat][k] = IF k = cur THEN beat ELSE wr.beats[k]
      BY <2>2, <3>1
    <3> HIDE DEF k, old, next
    <3> QED BY <3>1, <3>2, <3>3, <3>4
  <2>4. next = [o \in Offset |-> next[o]] /\ old = [o \in Offset |-> old[o]]
    BY DEF Written
  <2>5. new = next
    BY <1>5
  <2> HIDE DEF new, old, next
  <2>6. next = [old EXCEPT ![cur] = Merge(old[cur], beat.data, beat.strobe)]
    BY <2>2, <2>3, <2>4
  <2> QED BY <2>5, <2>6 DEF beat
<1>9. PassedWords = [mem EXCEPT ![t][i] = old]
  BY <1>1, <1>5, PassedLine DEF IInv
<1>10. PassedWords' = [mem EXCEPT ![t][i] = new]
  <2>1. cur + 1 # 0
    BY <1>1 DEF Offset
  <2> QED BY <1>1, <1>5, <1>6, <2>1 DEF PassedWords
<1> HIDE DEF old, new, t, i
<1>11. PassedWords[t][i] = old
  BY <1>7, <1>9
<1>12. PassedWords' = [PassedWords EXCEPT ![t][i][cur] = Merge(@, dcreq.data, dcreq.strobe)]
  BY <1>7, <1>8, <1>9, <1>10, <1>11
<1> QED BY <1>1, <1>12

\* A cycle in which no word of the data side moves.
LEMMA QuietStep ==
  ASSUME NEW r \in CBusResp, ~r.ready, ~r.last, CacheCycle(r),
         PassedWords' = PassedWords, DeviceTx' = DeviceTx
  PROVE  Device!Next \/ UNCHANGED Device!vars
<1>1. CASE UNCHANGED cacheVars
  BY <1>1 DEF cacheVars, Device!vars, Device!cacheVars, Device!devVars
<1>2. CASE ~UNCHANGED cacheVars
  <2>1. Device!CacheCycle(r)
    BY <1>2, DeviceCache DEF CacheCycle, Device!CacheCycle
  <2>2. Device!DeviceCycle(Device!dcreq, r)
    BY DEF Device!DeviceCycle, Device!DeviceStall, Device!devVars
  <2> QED BY <2>1, <2>2, DeviceCache DEF Device!Next, Device!Cycle
<1> QED BY <1>1, <1>2

\* Every clock edge of the path is one of the device and the cache, or none.
LEMMA DeviceStep ==
  ASSUME IInv, IInv', NEW axi \in Signals, Cycle(axi)
  PROVE  Device!Next \/ UNCHANGED Device!vars
<1> DEFINE resp == cresp(axi)
           r == iresp(0, resp)
<1>1. /\ SlaveDrives(axi) /\ axi.on \subseteq in_issue /\ resp \in CBusResp
      /\ resp.ready = ("R" \in axi.on \/ "W" \in axi.on)
      /\ resp.last = (resp.ready /\ count = 0)
      /\ resp.data = axi.rdata
      /\ resp.ready => DataInIssue
  BY ResponseLemma DEF Cycle
<1>2. /\ r \in CBusResp /\ CacheCycle(r)
      /\ arb_busy /\ arb_index = 0 => r = resp
      /\ ~(arb_busy /\ arb_index = 0) => ~r.ready /\ ~r.last
  BY <1>1, SeenResponse DEF Cycle
<1>3. /\ 0 \in Input /\ ireqs[0] = dcreq /\ ireqs'[0] = dcreq' /\ dcreq.offset = 0
      /\ dcreq.len = LineLen /\ ~fetch.is_write /\ ireqs[1] = fetch /\ Input = {0, 1}
  BY RequestTypes DEF IInv, ireqs
<1>4. DeviceTx = IF Moving(0) THEN LineTx ELSE Device!IdleTx
  BY DeviceTxLemma
<1>5. DeviceTx' = IF Moving(0)' THEN LineTx' ELSE Device!IdleTx
  <2>1. (IInv => DeviceTx = IF Moving(0) THEN LineTx ELSE Device!IdleTx)'
    BY DeviceTxLemma, PTL
  <2>2. Device!IdleTx' = Device!IdleTx
    BY DEF Device!IdleTx
  <2> QED BY <2>1, <2>2
<1>6. Requester(0, r)
  BY <1>3, RequestersStep
<1> HIDE DEF r
<1>7. CASE ~Moving(0) /\ ~Moving(0)'
  <2>1. ~r.ready /\ ~r.last
    BY <1>1, <1>2, <1>7 DEF Moving
  <2>2. "W" \notin axi.on
    <3>1. SUFFICES ASSUME "W" \in axi.on PROVE FALSE
      OBVIOUS
    <3>2. arb_busy /\ DataInIssue /\ Attributes(ireqs[arb_index]) = Attributes(saved_req)
      BY <1>1, <3>1 DEF IInv, GrantInv
    <3>3. arb_index = 1
      BY <1>3, <1>7, <3>2 DEF Moving, IInv, TypeOK, ArbiterTypeOK
    <3>4. ~saved_req.is_write
      BY <1>3, <3>2, <3>3 DEF Attributes
    <3>5. "W" \in in_issue
      BY <1>1, <3>1
    <3> QED BY <3>4, <3>5 DEF IInv, WriteBurstInv
  <2>3. PassedWords' = PassedWords
    BY <2>2, WordsKept
  <2> QED BY <1>2, <1>4, <1>5, <1>7, <2>1, <2>3, QuietStep
<1>8. CASE Moving(0) /\ ~resp.ready
  <2>1. r = resp /\ ~resp.last /\ "W" \notin axi.on
    BY <1>1, <1>2, <1>8 DEF Moving
  <2>2. Moving(0)'
    BY <1>8, <2>1, MovingStep
  <2>3. Attributes(dcreq)' = Attributes(dcreq) /\ cur' = cur
    <3>1. dcreq.valid
      BY <1>8, MovingFacts
    <3> QED BY <1>3, <1>6, <1>8, <2>1, <3>1 DEF Requester, Passed, Attributes
  <2>4. DeviceTx' = DeviceTx
    BY <1>4, <1>5, <1>8, <2>2, <2>3 DEF LineTx, Attributes
  <2>5. PassedWords' = PassedWords
    BY <2>1, WordsKept
  <2> HIDE DEF resp
  <2> QED BY <1>2, <1>8, <2>1, <2>4, <2>5, QuietStep
<1>9. CASE ~Moving(0) /\ Moving(0)'
  <2>1. in_issue = {} /\ r = resp /\ dcreq.valid
    BY <1>2, <1>9, MovingStep
  <2>2. ~resp.ready /\ ~resp.last /\ "W" \notin axi.on
    BY <1>1, <2>1
  <2>3. Attributes(dcreq)' = Attributes(dcreq) /\ cur' = 0
    BY <1>3, <1>9, <2>1, WaitingInput DEF Passed, Attributes
  <2>4. DeviceTx' = Device!NewTx(dcreq)
    BY <1>3, <1>5, <1>9, <2>3 DEF LineTx, Attributes, Device!NewTx
  <2>5. ~DeviceTx.busy
    BY <1>4, <1>9 DEF Device!IdleTx
  <2>6. PassedWords' = PassedWords
    BY <2>2, WordsKept
  <2>7. Device!DeviceCycle(Device!dcreq, r)
    BY <2>1, <2>2, <2>4, <2>5, <2>6, DeviceCache
       DEF Device!DeviceCycle, Device!DeviceEnabled, Device!DeviceStart
  <2>8. Device!CacheCycle(r)
    <3>1. state # "IDLE"
      BY <2>1 DEF dcreq
    <3> QED BY <1>2, <3>1, DeviceCache DEF CacheCycle, Device!CacheCycle
  <2> QED BY <1>2, <2>7, <2>8, DeviceCache DEF Device!Next, Device!Cycle
<1>10. CASE Moving(0) /\ resp.ready
  <2>1. /\ dcreq.valid /\ in_issue # {}
        /\ dcreq.is_write = saved_req.is_write /\ dcreq.tag = saved_req.tag
        /\ dcreq.index = saved_req.index /\ saved_req.offset = 0 /\ saved_req.len = LineLen
        /\ count = LineLen - 1 - cur /\ cur \in Offset /\ BeatWord(0, cur) = cur
    BY <1>10, MovingFacts
  <2>2. r = resp /\ DeviceTx = LineTx
    BY <1>2, <1>4, <1>10 DEF Moving
  <2>3. Device!TxLast = (count = 0)
    BY <2>1, <2>2, CBusAssumption DEF Device!TxLast, LineTx, Offset
  <2>4. resp.last = Device!TxLast
    BY <1>1, <1>10, <2>3
  <2>5. ~dcreq.is_write => resp.data = PassedWords[dcreq.tag][dcreq.index][cur]
    <3> SUFFICES ASSUME ~dcreq.is_write
                 PROVE  axi.rdata = PassedWords[dcreq.tag][dcreq.index][cur]
      BY <1>1
    <3>1. "R" \in axi.on
      BY <1>1, <1>10, <2>1 DEF IInv, WriteBurstInv
    <3>2. /\ rd.n = saved_req.len - 1 - count /\ rd.tag = saved_req.tag
          /\ rd.index = saved_req.index /\ rd.start = saved_req.offset
      BY <1>1, <3>1, ResponseLemma
    <3>3. rd.n = cur
      BY <1>10, <2>1, <3>2, MovingFacts
    <3>4. axi.rdata = mem[dcreq.tag][dcreq.index][cur]
      BY <1>1, <2>1, <3>1, <3>2, <3>3 DEF SlaveDrives
    <3>5. wr.n = 0
      BY <2>1, ReadCycle DEF NoWrite
    <3> QED BY <3>4, <3>5 DEF PassedWords
  <2>6. PassedWords' = IF dcreq.is_write
                       THEN [PassedWords EXCEPT ![dcreq.tag][dcreq.index][cur] =
                               Merge(@, dcreq.data, dcreq.strobe)]
                       ELSE PassedWords
    <3>1. CASE dcreq.is_write
      <4>1. "W" \in axi.on
        BY <1>1, <1>10, <2>1, <3>1 DEF IInv, ReadBurstInv
      <4> QED BY <1>10, <3>1, <4>1, BeatWritten
    <3>2. CASE ~dcreq.is_write
      <4>1. "W" \notin axi.on
        BY <1>1, <2>1, <3>2 DEF IInv, WriteBurstInv
      <4> QED BY <3>2, <4>1, WordsKept
    <3> QED BY <3>1, <3>2
  <2>7. DeviceTx' = IF Device!TxLast THEN Device!IdleTx ELSE Device!NextTx
    <3>1. CASE resp.last
      BY <1>5, <1>10, <2>4, <3>1, MovingStep
    <3>2. CASE ~resp.last
      <4>1. Moving(0)'
        BY <1>10, <3>2, MovingStep
      <4>2. Attributes(dcreq)' = Attributes(dcreq) /\ cur' = cur + 1
        BY <1>3, <1>6, <1>10, <2>1, <2>2, <3>2 DEF Requester, Passed, Attributes
      <4>3. cur # LineLen - 1
        <5>1. count # 0
          BY <2>3, <2>4, <3>2
        <5> QED BY <2>1, <5>1, CBusAssumption DEF Offset
      <4>4. Device!NextOffset(cur) = cur + 1
        BY <4>3 DEF Device!NextOffset
      <4>5. DeviceTx' = LineTx'
        BY <1>5, <4>1
      <4>6. DeviceTx' = [DeviceTx EXCEPT !.n = @ + 1, !.addr = Device!NextOffset(@)]
        <5>1. PICK a, n : a = cur + 1 /\ n = cur + 1 + 1
          OBVIOUS
        <5>2. LineTx' = [busy |-> TRUE, is_write |-> dcreq.is_write, tag |-> dcreq.tag,
                         index |-> dcreq.index, start |-> 0, addr |-> a, n |-> n, len |-> LineLen]
          BY <4>2, <5>1 DEF LineTx, Attributes
        <5>3. DeviceTx = [busy |-> TRUE, is_write |-> dcreq.is_write, tag |-> dcreq.tag,
                          index |-> dcreq.index, start |-> 0, addr |-> cur, n |-> a,
                          len |-> LineLen]
          BY <2>2, <5>1 DEF LineTx
        <5>4. DeviceTx.n + 1 = n /\ Device!NextOffset(DeviceTx.addr) = a
          BY <4>4, <5>1, <5>3
        <5>5. PICK next : next = [DeviceTx EXCEPT !.n = n, !.addr = a]
          OBVIOUS
        <5>6. next = [busy |-> TRUE, is_write |-> dcreq.is_write, tag |-> dcreq.tag,
                      index |-> dcreq.index, start |-> 0, addr |-> a, n |-> n, len |-> LineLen]
          BY <5>3, <5>5
        <5> QED BY <4>5, <5>2, <5>4, <5>5, <5>6
      <4> QED BY <2>4, <3>2, <4>6 DEF Device!NextTx
    <3> QED BY <3>1, <3>2
  <2>8. Device!DeviceBeat(dcreq, resp)
    <3>1. \A x, y, z : Device!Merge(x, y, z) = Merge(x, y, z)
      BY DEF Device!Merge, Merge
    <3>2. /\ DeviceTx.busy /\ DeviceTx.is_write = dcreq.is_write /\ DeviceTx.tag = dcreq.tag
          /\ DeviceTx.index = dcreq.index /\ DeviceTx.addr = cur
      BY <2>2 DEF LineTx
    <3> HIDE DEF resp
    <3> QED BY <1>10, <2>4, <2>5, <2>6, <2>7, <3>1, <3>2 DEF Device!DeviceBeat
  <2>9. Device!CacheCycle(r)
    <3>1. state # "IDLE"
      BY <2>1 DEF dcreq
    <3> QED BY <1>2, <3>1, DeviceCache DEF CacheCycle, Device!CacheCycle
  <2> QED BY <1>2, <2>2, <2>8, <2>9, DeviceCache
          DEF Device!Next, Device!Cycle, Device!DeviceCycle, Device!DeviceEnabled
<1> QED BY <1>7, <1>8, <1>9, <1>10

\* "class CBusDevice should match the behavior of module CBusToAXI" (cbus_device.h): for
\* the cache, the arbiter, the converter and memory are the device of the test bench.
THEOREM PathMatchesDevice == Spec => MatchesDevice
<1>1. Init => Device!Init
  <2> SUFFICES ASSUME Init PROVE Device!Init
    OBVIOUS
  <2>1. IInv /\ ~Moving(0)
    BY InitInv DEF Init, ArbiterInit, Moving
  <2>2. DeviceTx = Device!IdleTx
    BY <2>1, DeviceTxLemma
  <2>3. PassedWords = mem
    BY DEF Init, SlaveInit, NoWrite, PassedWords
  <2>4. Device!ZeroWord = ZeroWord /\ Device!Offset = Offset
    BY DEF Device!ZeroWord, ZeroWord, Device!Offset, Offset
  <2>5. Device!DeviceInit
    BY <2>2, <2>3, <2>4 DEF Init, SlaveInit, Device!DeviceInit
  <2> QED BY <2>5, DeviceCache DEF Init, Device!Init
<1>2. IInv /\ IInv' /\ [Next]_vars => [Device!Next]_(Device!vars)
  <2> SUFFICES ASSUME IInv, IInv', [Next]_vars
               PROVE  Device!Next \/ UNCHANGED Device!vars
    OBVIOUS
  <2>1. CASE Next
    BY <2>1, DeviceStep DEF Next
  <2>2. CASE UNCHANGED vars
    BY <2>2 DEF vars, cacheVars, arbVars, cvtVars, slaveVars, readerVars, Device!vars,
                Device!cacheVars, Device!devVars, PassedWords, DeviceTx, DataInIssue
  <2> QED BY <2>1, <2>2
<1> QED BY <1>1, <1>2, PathInductive, PTL DEF Spec, MatchesDevice, Device!Spec

===============================================================================
