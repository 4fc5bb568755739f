-------------------------------- MODULE DCache --------------------------------
(***************************************************************************)
(* The write-back, write-allocate, set-associative cache of                *)
(* src/source/mycpu/DCache.sv; ICache.sv is the same module with loads     *)
(* only.  One action is one clock edge in the state it names; an IDLE      *)
(* cycle without a request changes nothing and is no action.               *)
(*                                                                         *)
(* The code has four ways; NumWays is a parameter.  Each set keeps in      *)
(* `order` its ways from the oldest used (0) to the latest used (MRU).     *)
(***************************************************************************)
EXTENDS CBus

CONSTANTS NumWays

ASSUME WaysAssumption == NumWays \in Nat \ {0}

VARIABLES
  state,  \* the FSM
  order,  \* order[index][k]: the way at position k of the recency order
  meta,   \* meta[index][way]: tag, valid and dirty bits
  ram,    \* ram[index][way][offset]: the LUTRAMs
  req,    \* the request saved when it is accepted
  cur     \* the word offset driven to the LUTRAMs

cacheVars == <<state, order, meta, ram, req, cur>>

State == {"IDLE", "FLUSH", "FETCH", "READY"}
Way   == 0 .. NumWays - 1
MRU   == NumWays - 1
Meta  == [tag: Tag, valid: BOOLEAN, dirty: BOOLEAN]

CacheTypeOK ==
  /\ state \in State
  /\ order \in [Index -> [Way -> Way]]
  /\ meta \in [Index -> [Way -> Meta]]
  /\ ram \in [Index -> [Way -> [Offset -> Word]]]
  /\ req \in DBusReq
  /\ cur \in Offset

CacheInit ==
  /\ state = "IDLE"
  /\ order = [i \in Index |-> [k \in Way |-> MRU - k]]
  /\ meta = [i \in Index |-> [w \in Way |-> [tag |-> 0, valid |-> FALSE, dirty |-> FALSE]]]
  /\ ram = [i \in Index |-> [w \in Way |-> [o \in Offset |-> ZeroWord]]]
  /\ req = [tag |-> 0, index |-> CHOOSE i \in Index : TRUE, offset |-> 0,
            strobe |-> {}, data |-> ZeroWord]
  /\ cur = 0

-------------------------------------------------------------------------------
\* The search of the IDLE state.

\* Slip: the search leaves out the last way.
HitsButLast(i, t) == {w \in Way \ {MRU} : meta[i][w].valid /\ meta[i][w].tag = t}

Hits(i, t) == {w \in Way : meta[i][w].valid /\ meta[i][w].tag = t}

\* The first hit, or the oldest used way as the victim of a miss.
Lookup(i, t) ==
  IF Hits(i, t) # {}
  THEN CHOOSE w \in Hits(i, t) : \A v \in Hits(i, t) : w <= v
  ELSE order[i][0]

\* Slip: the shift starts one position too late.
ReorderLate(ooo, w) ==
  LET at == CHOOSE k \in Way : ooo[k] = w
  IN  [k \in Way |-> IF k <= at THEN ooo[k] ELSE IF k = MRU THEN w ELSE ooo[k + 1]]

\* ooo_nxt: way w moves behind the others, which keep their order.
Reorder(ooo, w) ==
  LET at == CHOOSE k \in Way : ooo[k] = w
  IN  [k \in Way |-> IF k < at THEN ooo[k] ELSE IF k = MRU THEN w ELSE ooo[k + 1]]

\* The way in use outside IDLE: the one Accept has made the latest used.
Position == order[req.index][MRU]

-------------------------------------------------------------------------------
\* Combinational outputs.

dresp == [addr_ok |-> state = "IDLE",
          data_ok |-> state = "READY",
          data    |-> ram[req.index][Position][cur]]

\* Slip: the address follows the beats.
dcreqMovingAddress ==
         [valid    |-> state \in {"FLUSH", "FETCH"},
          is_write |-> state = "FLUSH",
          tag      |-> IF state = "FLUSH" THEN meta[req.index][Position].tag ELSE req.tag,
          index    |-> req.index,
          offset   |-> cur,
          strobe   |-> Lane,
          data     |-> ram[req.index][Position][cur],
          len      |-> LineLen]

\* Slip: FLUSH writes the victim where the requested line belongs.
dcreqRequestTag ==
         [valid    |-> state \in {"FLUSH", "FETCH"},
          is_write |-> state = "FLUSH",
          tag      |-> req.tag,
          index    |-> req.index,
          offset   |-> 0,
          strobe   |-> Lane,
          data     |-> ram[req.index][Position][cur],
          len      |-> LineLen]

dcreq == [valid    |-> state \in {"FLUSH", "FETCH"},
          is_write |-> state = "FLUSH",
          tag      |-> IF state = "FLUSH" THEN meta[req.index][Position].tag ELSE req.tag,
          index    |-> req.index,
          offset   |-> 0,
          strobe   |-> Lane,
          data     |-> ram[req.index][Position][cur],
          len      |-> LineLen]

-------------------------------------------------------------------------------
\* The FSM.

\* Slip: every miss goes to FETCH.
AcceptNeverFlushes(rq) ==
  LET w == Lookup(rq.index, rq.tag) IN
  /\ state = "IDLE"
  /\ req' = rq
  /\ order' = [order EXCEPT ![rq.index] = Reorder(@, w)]
  /\ state' = IF Hits(rq.index, rq.tag) # {} THEN "READY" ELSE "FETCH"
  /\ cur' = IF Hits(rq.index, rq.tag) # {} THEN rq.offset ELSE 0
  /\ UNCHANGED <<meta, ram>>

Accept(rq) ==
  LET w == Lookup(rq.index, rq.tag) IN
  /\ state = "IDLE"
  /\ req' = rq
  /\ order' = [order EXCEPT ![rq.index] = Reorder(@, w)]
  /\ state' = IF Hits(rq.index, rq.tag) # {} THEN "READY"
              ELSE IF meta[rq.index][w].dirty THEN "FLUSH" ELSE "FETCH"
  /\ cur' = IF Hits(rq.index, rq.tag) # {} THEN rq.offset ELSE 0
  /\ UNCHANGED <<meta, ram>>

\* Slip: the word counter does not wait for ready.
FlushWithoutReady(resp) ==
  /\ state = "FLUSH"
  /\ state' = IF resp.ready /\ resp.last THEN "FETCH" ELSE state
  /\ cur' = IF resp.last THEN 0 ELSE NextOffset(cur)
  /\ UNCHANGED <<order, meta, ram, req>>

\* FLUSH: the dirty victim goes to memory, one word per ready beat.
Flush(resp) ==
  /\ state = "FLUSH"
  /\ state' = IF resp.ready /\ resp.last THEN "FETCH" ELSE state
  /\ cur' = IF ~resp.ready THEN cur ELSE IF resp.last THEN 0 ELSE NextOffset(cur)
  /\ UNCHANGED <<order, meta, ram, req>>

\* Slip: the refilled line is not made valid.
FetchKeepsValid(resp) ==
  LET i == req.index
      done == resp.ready /\ resp.last IN
  /\ state = "FETCH"
  /\ ram' = [ram EXCEPT ![i][Position][cur] = resp.data]
  /\ meta' = IF done
             THEN [meta EXCEPT ![i][Position].tag = req.tag, ![i][Position].dirty = FALSE]
             ELSE meta
  /\ state' = IF done THEN "READY" ELSE state
  /\ cur' = IF done THEN req.offset ELSE IF resp.ready THEN NextOffset(cur) ELSE cur
  /\ UNCHANGED <<order, req>>

\* FETCH: the LUTRAM is written in every cycle, also with the data of a cycle that is
\* not ready; the word at cur is final only when its ready beat has passed.
Fetch(resp) ==
  LET i == req.index
      done == resp.ready /\ resp.last IN
  /\ state = "FETCH"
  /\ ram' = [ram EXCEPT ![i][Position][cur] = resp.data]
  /\ meta' = IF done
             THEN [meta EXCEPT ![i][Position] = [tag |-> req.tag, valid |-> TRUE, dirty |-> FALSE]]
             ELSE meta
  /\ state' = IF done THEN "READY" ELSE state
  /\ cur' = IF done THEN req.offset ELSE IF resp.ready THEN NextOffset(cur) ELSE cur
  /\ UNCHANGED <<order, req>>

\* Slip: a store of part of a word leaves the line clean.
ServePartialClean ==
  LET i == req.index IN
  /\ state = "READY"
  /\ ram' = [ram EXCEPT ![i][Position][cur] = Merge(@, req.data, req.strobe)]
  /\ meta' = IF req.strobe = Lane THEN [meta EXCEPT ![i][Position].dirty = TRUE] ELSE meta
  /\ state' = "IDLE"
  /\ UNCHANGED <<order, req, cur>>

\* Slip: the strobe is ignored, so a load writes.
ServeWithoutStrobe ==
  LET i == req.index IN
  /\ state = "READY"
  /\ ram' = [ram EXCEPT ![i][Position][cur] = req.data]
  /\ meta' = IF req.strobe # {} THEN [meta EXCEPT ![i][Position].dirty = TRUE] ELSE meta
  /\ state' = "IDLE"
  /\ UNCHANGED <<order, req, cur>>

\* READY: the word is read or written under the strobe; the core sees data_ok.
Serve ==
  LET i == req.index IN
  /\ state = "READY"
  /\ ram' = [ram EXCEPT ![i][Position][cur] = Merge(@, req.data, req.strobe)]
  /\ meta' = IF req.strobe # {} THEN [meta EXCEPT ![i][Position].dirty = TRUE] ELSE meta
  /\ state' = "IDLE"
  /\ UNCHANGED <<order, req, cur>>
===============================================================================
