--------------------------- MODULE CacheSystemProofs --------------------------
(***************************************************************************)
(* Proofs about CacheSystem, for every number of tags, sets, ways, words   *)
(* per line and lanes, and every set of client requests.                   *)
(***************************************************************************)
EXTENDS CacheSystem, TLAPS

\* The cache's burst and the device's transaction are the same transfer.
BurstInv ==
  /\ tx.busy =>
       /\ state \in {"FLUSH", "FETCH"}
       /\ tx.is_write = (state = "FLUSH")
       /\ tx.tag = dcreq.tag /\ tx.index = req.index /\ tx.start = 0
       /\ tx.addr = cur /\ tx.n = cur + 1 /\ tx.len = LineLen
  /\ ~tx.busy /\ state \in {"FLUSH", "FETCH"} => cur = 0

\* FLUSH: the line asked for is in no way, and the words before cur are in memory.
FlushInv ==
  state = "FLUSH" =>
    /\ meta[req.index][Position].dirty
    /\ Hits(req.index, req.tag) = {}
    /\ \A o \in Offset : o < cur =>
         mem[meta[req.index][Position].tag][req.index][o] = ram[req.index][Position][o]

\* FETCH: the line asked for is in no way, and the words before cur have arrived.
FetchInv ==
  state = "FETCH" =>
    /\ Hits(req.index, req.tag) = {}
    /\ \A o \in Offset : o < cur =>
         ram[req.index][Position][o] = mem[req.tag][req.index][o]

\* READY: the way in use holds the word asked for.
ReadyInv ==
  state = "READY" =>
    /\ meta[req.index][Position].valid
    /\ meta[req.index][Position].tag = req.tag
    /\ cur = req.offset

IInv ==
  /\ TypeOK
  /\ OrderIsPermutation
  /\ NoDuplicateLines
  /\ DirtyIsValid
  /\ CleanLinesMatchMemory
  /\ BurstInv
  /\ FlushInv
  /\ FetchInv
  /\ ReadyInv

-------------------------------------------------------------------------------
IsOrder(ooo) ==
  /\ ooo \in [Way -> Way]
  /\ \A j, k \in Way : ooo[j] = ooo[k] => j = k
  /\ \A w \in Way : \E k \in Way : ooo[k] = w

\* Moving a way behind the others yields a permutation of the ways that ends with it:
\* what the shifting assignments of DCache.sv 92-109 do to one set's order.
LEMMA ReorderLemma ==
  ASSUME NEW ooo, IsOrder(ooo), NEW w \in Way
  PROVE  IsOrder(Reorder(ooo, w)) /\ Reorder(ooo, w)[MRU] = w
<1> DEFINE at == CHOOSE k \in Way : ooo[k] = w
           new == Reorder(ooo, w)
<1> USE WaysAssumption
<1>1. at \in Way /\ ooo[at] = w
  BY DEF IsOrder
<1>2. /\ MRU \in Way
      /\ \A k \in Way : ~(MRU < k)
      /\ \A k \in Way : k # MRU => k + 1 \in Way
  BY DEF MRU, Way
<1>3. new = [k \in Way |-> IF k < at THEN ooo[k] ELSE IF k = MRU THEN w ELSE ooo[k + 1]]
  BY DEF Reorder
<1> HIDE DEF at, new
<1>4. new \in [Way -> Way] /\ new[MRU] = w
  <2>1. ASSUME NEW k \in Way
        PROVE  (IF k < at THEN ooo[k] ELSE IF k = MRU THEN w ELSE ooo[k + 1]) \in Way
    BY <1>2 DEF IsOrder
  <2>2. QED BY <2>1, <1>1, <1>2, <1>3
<1>5. ASSUME NEW j \in Way, NEW k \in Way, new[j] = new[k]
      PROVE  j = k
  <2>1. /\ \A m \in Way : m < at => new[m] = ooo[m]
        /\ \A m \in Way : ~(m < at) /\ m # MRU => new[m] = ooo[m + 1]
    BY <1>3
  <2>2. ASSUME NEW m \in Way, new[m] = w PROVE m = MRU
    <3>1. CASE m < at
      <4>1. ooo[m] = ooo[at]
        BY <3>1, <2>1, <2>2, <1>1
      <4>2. m = at
        BY <4>1, <1>1 DEF IsOrder
      <4>3. QED BY <4>2, <3>1, <1>1 DEF Way
    <3>2. CASE ~(m < at) /\ m # MRU
      <4>1. ooo[m + 1] = ooo[at] /\ m + 1 \in Way
        BY <3>2, <2>1, <2>2, <1>1, <1>2
      <4>2. m + 1 = at
        BY <4>1, <1>1 DEF IsOrder
      <4>3. QED BY <4>2, <3>2, <1>1 DEF Way
    <3>3. QED BY <3>1, <3>2
  <2>3. CASE j = MRU \/ k = MRU
    BY <2>2, <2>3, <1>4, <1>5
  <2>4. CASE j # MRU /\ k # MRU
    <3>1. CASE j < at /\ k < at
      <4>1. ooo[j] = ooo[k]
        BY <3>1, <2>1, <1>5
      <4>2. QED BY <4>1 DEF IsOrder
    <3>2. CASE ~(j < at) /\ ~(k < at)
      <4>1. ooo[j + 1] = ooo[k + 1] /\ j + 1 \in Way /\ k + 1 \in Way
        BY <3>2, <2>1, <2>4, <1>2, <1>5
      <4>2. j + 1 = k + 1
        BY <4>1 DEF IsOrder
      <4>3. QED BY <4>2 DEF Way
    <3>3. CASE j < at /\ ~(k < at)
      <4>1. ooo[j] = ooo[k + 1] /\ k + 1 \in Way
        BY <3>3, <2>1, <2>4, <1>2, <1>5
      <4>2. j = k + 1
        BY <4>1 DEF IsOrder
      <4>3. QED BY <4>2, <3>3, <1>1 DEF Way
    <3>4. CASE ~(j < at) /\ k < at
      <4>1. ooo[j + 1] = ooo[k] /\ j + 1 \in Way
        BY <3>4, <2>1, <2>4, <1>2, <1>5
      <4>2. j + 1 = k
        BY <4>1 DEF IsOrder
      <4>3. QED BY <4>2, <3>4, <1>1 DEF Way
    <3>5. QED BY <3>1, <3>2, <3>3, <3>4
  <2>5. QED BY <2>3, <2>4
<1>6. ASSUME NEW v \in Way PROVE \E k \in Way : new[k] = v
  <2>1. PICK m \in Way : ooo[m] = v
    BY DEF IsOrder
  <2>2. CASE m < at
    BY <2>1, <2>2, <1>3
  <2>3. CASE m = at
    BY <2>1, <2>3, <1>1, <1>2, <1>4
  <2>4. CASE m > at
    <3>1. m - 1 \in Way /\ ~(m - 1 < at) /\ m - 1 # MRU
      BY <2>4, <1>1 DEF Way, MRU
    <3>2. new[m - 1] = ooo[m]
      BY <3>1, <1>3 DEF Way
    <3>3. QED BY <2>1, <3>1, <3>2
  <2>5. QED BY <2>2, <2>3, <2>4, <1>1 DEF Way
<1>7. QED BY <1>4, <1>5, <1>6 DEF IsOrder, new

-------------------------------------------------------------------------------
\* The way in use is a way, and so are the positions the code names by number.
LEMMA PositionLemma ==
  ASSUME TypeOK
  PROVE  /\ req.index \in Index /\ req.tag \in Tag /\ req.offset \in Offset
         /\ Position \in Way /\ MRU \in Way /\ 0 \in Way /\ 0 \in Offset
         /\ dcreq.data = ram[req.index][Position][cur]
         /\ dcreq.strobe = Lane
<1> USE WaysAssumption, CBusAssumption DEF TypeOK, CacheTypeOK
<1>1. req.index \in Index /\ req.tag \in Tag /\ req.offset \in Offset
  BY DEF DBusReq
<1>2. MRU \in Way /\ 0 \in Way /\ 0 \in Offset
  BY DEF MRU, Way, Offset
<1>3. Position \in Way
  BY <1>1, <1>2 DEF Position
<1>4. QED BY <1>1, <1>2, <1>3 DEF dcreq

\* The search of IDLE: the line's way on a hit, the oldest used way on a miss.
LEMMA LookupLemma ==
  ASSUME TypeOK, NoDuplicateLines, NEW i \in Index, NEW t \in Tag
  PROVE  /\ Lookup(i, t) \in Way
         /\ Hits(i, t) # {} => Lookup(i, t) \in Hits(i, t)
<1>1. CASE Hits(i, t) = {}
  BY <1>1, PositionLemma DEF Lookup, TypeOK, CacheTypeOK
<1>2. CASE Hits(i, t) # {}
  <2>1. PICK h \in Hits(i, t) : TRUE
    BY <1>2
  <2>2. \A v \in Hits(i, t) : v = h
    BY <2>1 DEF Hits, NoDuplicateLines
  <2>3. h <= h
    BY <2>1, WaysAssumption DEF Hits, Way
  <2>4. \A v \in Hits(i, t) : h <= v
    BY <2>2, <2>3
  <2>5. Lookup(i, t) \in Hits(i, t)
    BY <1>2, <2>1, <2>4 DEF Lookup
  <2>6. QED BY <1>2, <2>5 DEF Hits
<1>3. QED BY <1>1, <1>2

\* The cache and the device move together in one of eight ways: outside a burst the
\* device stands still, and a beat is always a beat of the cache's burst.
LEMMA CycleCases ==
  ASSUME IInv, NEW resp \in CBusResp, Cycle(resp)
  PROVE  \/ (\E rq \in Requests : Accept(rq)) /\ UNCHANGED devVars
         \/ Serve /\ UNCHANGED devVars
         \/ Flush(resp) /\ DeviceStall(resp)
         \/ Flush(resp) /\ DeviceStart(dcreq, resp)
         \/ Flush(resp) /\ DeviceBeat(dcreq, resp)
         \/ Fetch(resp) /\ DeviceStall(resp)
         \/ Fetch(resp) /\ DeviceStart(dcreq, resp)
         \/ Fetch(resp) /\ DeviceBeat(dcreq, resp)
<1>1. CacheCycle(resp) /\ (DeviceStall(resp) \/ DeviceStart(dcreq, resp) \/ DeviceBeat(dcreq, resp))
  BY DEF Cycle, DeviceCycle, DeviceEnabled
<1>2. ASSUME state \in {"IDLE", "READY"} PROVE UNCHANGED devVars
  <2>1. ~tx.busy /\ ~dcreq.valid
    BY <1>2 DEF IInv, BurstInv, dcreq
  <2>2. QED BY <1>1, <2>1 DEF DeviceStall, DeviceStart, DeviceBeat
<1>3. CASE \E rq \in Requests : Accept(rq)
  BY <1>2, <1>3 DEF Accept
<1>4. CASE Serve
  BY <1>2, <1>4 DEF Serve
<1>5. CASE Flush(resp) \/ Fetch(resp)
  BY <1>1, <1>5
<1>6. QED BY <1>1, <1>3, <1>4, <1>5 DEF CacheCycle

-------------------------------------------------------------------------------
\* IDLE takes a request: only the order of one set, the saved request and the FSM move.
LEMMA AcceptStep ==
  ASSUME IInv, NEW rq \in DBusReq, Accept(rq), UNCHANGED devVars
  PROVE  IInv'
<1> DEFINE i == rq.index
           t == rq.tag
           w == Lookup(i, t)
<1>1. rq \in DBusReq /\ i \in Index /\ t \in Tag /\ rq.offset \in Offset
  BY DEF DBusReq
<1>2. w \in Way /\ (Hits(i, t) # {} => w \in Hits(i, t))
  BY <1>1, LookupLemma DEF IInv
<1>3. IsOrder(order[i])
  BY <1>1 DEF IInv, TypeOK, CacheTypeOK, OrderIsPermutation, IsOrder
<1>4. IsOrder(Reorder(order[i], w)) /\ Reorder(order[i], w)[MRU] = w
  BY <1>2, <1>3, ReorderLemma
<1>5. /\ state = "IDLE" /\ req' = rq /\ meta' = meta /\ ram' = ram /\ mem' = mem /\ tx' = tx
      /\ order' = [order EXCEPT ![i] = Reorder(order[i], w)]
      /\ state' = IF Hits(i, t) # {} THEN "READY"
                  ELSE IF meta[i][w].dirty THEN "FLUSH" ELSE "FETCH"
      /\ cur' = IF Hits(i, t) # {} THEN rq.offset ELSE 0
  BY DEF Accept, devVars
<1> HIDE DEF w
<1>6. order' \in [Index -> [Way -> Way]] /\ order'[i] = Reorder(order[i], w)
  BY <1>1, <1>4, <1>5 DEF IInv, TypeOK, CacheTypeOK, IsOrder
<1>7. Position' = w /\ Hits(i, t)' = Hits(i, t)
  BY <1>4, <1>5, <1>6 DEF Position, Hits
<1>8. ~tx.busy /\ ~tx'.busy
  BY <1>5 DEF IInv, BurstInv
<1>9. TypeOK'
  <2>1. state' \in State /\ cur' \in Offset
    BY <1>1, <1>5, PositionLemma DEF IInv, State
  <2>2. QED BY <1>1, <1>5, <1>6, <2>1 DEF IInv, TypeOK, CacheTypeOK, DeviceTypeOK
<1>10. OrderIsPermutation'
  <2>1. ASSUME NEW j \in Index PROVE IsOrder(order'[j])
    <3>1. CASE j = i BY <3>1, <1>4, <1>6
    <3>2. CASE j # i
      <4>1. order'[j] = order[j]
        BY <3>2, <1>1, <1>5 DEF IInv, TypeOK, CacheTypeOK
      <4>2. QED BY <4>1 DEF IInv, TypeOK, CacheTypeOK, OrderIsPermutation, IsOrder
    <3>3. QED BY <3>1, <3>2
  <2>2. QED BY <2>1 DEF OrderIsPermutation, IsOrder
<1>11. NoDuplicateLines' /\ DirtyIsValid'
  BY <1>5 DEF IInv, NoDuplicateLines, DirtyIsValid
<1>12. CleanLinesMatchMemory'
  <2>1. \A j \in Index : \A v \in Way : Live(j, v)' => Live(j, v)
    BY <1>5 DEF Live, Refilling
  <2>2. QED BY <1>5, <2>1 DEF IInv, CleanLinesMatchMemory
<1>13. BurstInv'
  BY <1>5, <1>8 DEF BurstInv
<1>14. FlushInv'
  <2>1. ~(\E o \in Offset : o < 0)
    BY DEF Offset
  <2>2. CASE state' = "FLUSH"
    BY <2>1, <2>2, <1>5, <1>7 DEF FlushInv
  <2>3. QED BY <2>2 DEF FlushInv
<1>15. FetchInv'
  <2>1. ~(\E o \in Offset : o < 0)
    BY DEF Offset
  <2>2. QED BY <2>1, <1>5, <1>7 DEF FetchInv
<1>16. ReadyInv'
  BY <1>2, <1>5, <1>7 DEF ReadyInv, Hits
<1>17. QED
  BY <1>9, <1>10, <1>11, <1>12, <1>13, <1>14, <1>15, <1>16 DEF IInv

-------------------------------------------------------------------------------
\* Writing one word of one line changes that word only: the LUTRAMs and the memory are
\* both written this way.
LEMMA WordUpdate ==
  ASSUME NEW A, NEW B, NEW C, NEW D, NEW f \in [A -> [B -> [C -> D]]],
         NEW a \in A, NEW b \in B, NEW c \in C, NEW d \in D,
         NEW g, g = [f EXCEPT ![a][b][c] = d]
  PROVE  /\ g \in [A -> [B -> [C -> D]]]
         /\ g[a][b][c] = d
         /\ \A x \in A, y \in B, z \in C :
              (x # a \/ y # b \/ z # c) => g[x][y][z] = f[x][y][z]
<1>1. g = [f EXCEPT ![a] = [f[a] EXCEPT ![b] = [f[a][b] EXCEPT ![c] = d]]]
  OBVIOUS
<1>2. [f[a][b] EXCEPT ![c] = d] \in [C -> D]
  OBVIOUS
<1>3. [f[a] EXCEPT ![b] = [f[a][b] EXCEPT ![c] = d]] \in [B -> [C -> D]]
  BY <1>2
<1>4. g \in [A -> [B -> [C -> D]]]
  BY <1>1, <1>3
<1>5. g[a][b][c] = d
  BY <1>1
<1>6. ASSUME NEW x \in A, NEW y \in B, NEW z \in C, x # a \/ y # b \/ z # c
      PROVE  g[x][y][z] = f[x][y][z]
  BY <1>1, <1>6
<1>7. QED BY <1>4, <1>5, <1>6

\* Likewise for the meta data of one way.
LEMMA MetaUpdate ==
  ASSUME NEW A, NEW B, NEW D, NEW f \in [A -> [B -> D]],
         NEW a \in A, NEW b \in B, NEW d \in D,
         NEW g, g = [f EXCEPT ![a][b] = d]
  PROVE  /\ g \in [A -> [B -> D]]
         /\ g[a][b] = d
         /\ \A x \in A, y \in B : (x # a \/ y # b) => g[x][y] = f[x][y]
<1>1. g = [f EXCEPT ![a] = [f[a] EXCEPT ![b] = d]]
  OBVIOUS
<1>2. [f[a] EXCEPT ![b] = d] \in [B -> D]
  OBVIOUS
<1>3. QED BY <1>1, <1>2

\* A strobe selects lanes of a word, and the empty strobe none: a load writes nothing.
LEMMA MergeLemma ==
  ASSUME NEW old \in Word, NEW new \in Word, NEW strobe \in SUBSET Lane
  PROVE  /\ Merge(old, new, strobe) \in Word
         /\ strobe = {} => Merge(old, new, strobe) = old
         /\ strobe = Lane => Merge(old, new, strobe) = new
BY DEF Merge, Word

\* READY serves the word: a store makes the line dirty, a load changes nothing.
LEMMA ServeStep ==
  ASSUME IInv, Serve, UNCHANGED devVars
  PROVE  IInv'
<1> DEFINE i == req.index
           p == Position
           m == Merge(ram[i][p][cur], req.data, req.strobe)
<1>1. /\ i \in Index /\ p \in Way /\ cur \in Offset
      /\ req.data \in Word /\ req.strobe \in SUBSET Lane
      /\ ram \in [Index -> [Way -> [Offset -> Word]]]
      /\ meta \in [Index -> [Way -> Meta]]
  BY PositionLemma DEF IInv, TypeOK, CacheTypeOK, DBusReq
<1>2. /\ state = "READY" /\ state' = "IDLE"
      /\ order' = order /\ req' = req /\ cur' = cur /\ mem' = mem /\ tx' = tx
      /\ ram' = [ram EXCEPT ![i][p][cur] = m]
      /\ meta' = IF req.strobe # {} THEN [meta EXCEPT ![i][p].dirty = TRUE] ELSE meta
  BY DEF Serve, devVars
<1>3. ram[i][p][cur] \in Word
  BY <1>1
<1>4. m \in Word /\ (req.strobe = {} => m = ram[i][p][cur])
  BY <1>1, <1>3, MergeLemma
<1> HIDE DEF m
<1>5. /\ ram' \in [Index -> [Way -> [Offset -> Word]]]
      /\ ram'[i][p][cur] = m
      /\ \A j \in Index, v \in Way, o \in Offset :
           (j # i \/ v # p \/ o # cur) => ram'[j][v][o] = ram[j][v][o]
  BY <1>1, <1>2, <1>4, WordUpdate
<1>6. /\ meta' \in [Index -> [Way -> Meta]]
      /\ \A j \in Index, v \in Way :
           /\ meta'[j][v].tag = meta[j][v].tag /\ meta'[j][v].valid = meta[j][v].valid
           /\ (j # i \/ v # p \/ req.strobe = {}) => meta'[j][v].dirty = meta[j][v].dirty
      /\ req.strobe # {} => meta'[i][p].dirty
  <2>1. CASE req.strobe = {}
    BY <2>1, <1>1, <1>2
  <2>2. CASE req.strobe # {}
    <3> DEFINE d == [meta[i][p] EXCEPT !.dirty = TRUE]
    <3>1. meta[i][p] \in Meta
      BY <1>1
    <3>2. d \in Meta /\ d.dirty /\ d.tag = meta[i][p].tag /\ d.valid = meta[i][p].valid
      BY <3>1 DEF Meta
    <3>3. meta' = [meta EXCEPT ![i][p] = d]
      BY <2>2, <1>2
    <3> HIDE DEF d
    <3>4. /\ meta' \in [Index -> [Way -> Meta]]
          /\ meta'[i][p] = d
          /\ \A j \in Index, v \in Way : (j # i \/ v # p) => meta'[j][v] = meta[j][v]
      BY <1>1, <3>2, <3>3, MetaUpdate
    <3>5. QED BY <2>2, <3>2, <3>4
  <2>3. QED BY <2>1, <2>2
<1>7. meta[i][p].valid /\ ~tx.busy
  BY <1>2 DEF IInv, ReadyInv, BurstInv
<1>8. TypeOK'
  BY <1>2, <1>5, <1>6 DEF IInv, TypeOK, CacheTypeOK, DeviceTypeOK, State
<1>9. OrderIsPermutation'
  BY <1>2 DEF IInv, OrderIsPermutation
<1>10. NoDuplicateLines'
  BY <1>6 DEF IInv, NoDuplicateLines
<1>11. DirtyIsValid'
  BY <1>6, <1>7 DEF IInv, DirtyIsValid
<1>12. CleanLinesMatchMemory'
  <2> SUFFICES ASSUME NEW j \in Index, NEW v \in Way, Live(j, v)', ~meta'[j][v].dirty,
                      NEW o \in Offset
               PROVE  ram'[j][v][o] = mem'[meta'[j][v].tag][j][o]
    BY DEF CleanLinesMatchMemory
  <2>1. Live(j, v)
    BY <1>2, <1>6 DEF Live, Refilling
  <2>2. ~meta[j][v].dirty /\ ram'[j][v][o] = ram[j][v][o]
    BY <1>4, <1>5, <1>6
  <2>3. ram[j][v][o] = mem[meta[j][v].tag][j][o]
    BY <2>1, <2>2 DEF IInv, CleanLinesMatchMemory
  <2>4. mem' = mem /\ meta'[j][v].tag = meta[j][v].tag
    BY <1>2, <1>6
  <2>5. QED BY <2>2, <2>3, <2>4
<1>13. BurstInv' /\ FlushInv' /\ FetchInv' /\ ReadyInv'
  BY <1>2, <1>7 DEF BurstInv, FlushInv, FetchInv, ReadyInv
<1>14. QED
  BY <1>8, <1>9, <1>10, <1>11, <1>12, <1>13 DEF IInv

-------------------------------------------------------------------------------
\* A step that changes no register keeps the invariant.
LEMMA StutterStep ==
  ASSUME IInv, UNCHANGED vars
  PROVE  IInv'
<1>1. /\ state' = state /\ order' = order /\ meta' = meta /\ ram' = ram /\ req' = req
      /\ cur' = cur /\ mem' = mem /\ tx' = tx
  BY DEF vars, cacheVars, devVars
<1>2. /\ Position' = Position /\ Hits(req.index, req.tag)' = Hits(req.index, req.tag)
      /\ dcreq' = dcreq /\ \A i \in Index : \A w \in Way : Live(i, w)' = Live(i, w)
  BY <1>1 DEF Position, Hits, dcreq, Live, Refilling
<1>3. TypeOK'
  BY <1>1 DEF IInv, TypeOK, CacheTypeOK, DeviceTypeOK
<1>4. OrderIsPermutation' /\ NoDuplicateLines' /\ DirtyIsValid'
  BY <1>1 DEF IInv, OrderIsPermutation, NoDuplicateLines, DirtyIsValid
<1>5. CleanLinesMatchMemory'
  BY <1>1, <1>2 DEF IInv, CleanLinesMatchMemory
<1>6. BurstInv'
  BY <1>1, <1>2 DEF IInv, BurstInv
<1>7. FlushInv' /\ FetchInv' /\ ReadyInv'
  BY <1>1, <1>2 DEF IInv, FlushInv, FetchInv, ReadyInv
<1>8. QED BY <1>3, <1>4, <1>5, <1>6, <1>7 DEF IInv

\* The transaction that a cache request starts covers its line from the first word on.
LEMMA StartLemma ==
  ASSUME IInv, state \in {"FLUSH", "FETCH"}, NEW resp \in CBusResp, DeviceStart(dcreq, resp)
  PROVE  /\ cur = 0 /\ ~resp.ready /\ ~resp.last /\ mem' = mem
         /\ tx' \in Transaction
         /\ tx'.busy /\ tx'.is_write = (state = "FLUSH")
         /\ tx'.tag = dcreq.tag /\ tx'.index = req.index /\ tx'.start = 0
         /\ tx'.addr = 0 /\ tx'.n = 1 /\ tx'.len = LineLen
<1>1. cur = 0 /\ ~resp.ready /\ ~resp.last /\ mem' = mem /\ tx' = NewTx(dcreq)
  BY DEF DeviceStart, IInv, BurstInv
<1>2. /\ dcreq.is_write = (state = "FLUSH") /\ dcreq.index = req.index
      /\ dcreq.offset = 0 /\ dcreq.len = LineLen
  BY DEF dcreq
<1>3. dcreq.tag \in Tag
  <2>1. meta[req.index][Position] \in Meta
    BY PositionLemma DEF IInv, TypeOK, CacheTypeOK
  <2>2. QED BY <2>1, PositionLemma DEF dcreq, Meta, IInv
<1>4. 0 \in Offset /\ req.index \in Index /\ 1 \in 1 .. LineLen
  BY PositionLemma, CBusAssumption DEF IInv
<1>5. QED BY <1>1, <1>2, <1>3, <1>4 DEF NewTx, Transaction

\* A beat of the device is the beat `cur` of the cache's burst, and both see its last one.
LEMMA BeatLemma ==
  ASSUME IInv, state \in {"FLUSH", "FETCH"}, NEW resp \in CBusResp, DeviceBeat(dcreq, resp)
  PROVE  /\ tx.busy /\ tx.is_write = (state = "FLUSH")
         /\ tx.tag = dcreq.tag /\ tx.index = req.index /\ tx.start = 0
         /\ tx.addr = cur /\ tx.n = cur + 1 /\ tx.len = LineLen
         /\ resp.ready
         /\ resp.last = (cur = LineLen - 1)
         /\ resp.last => tx' = IdleTx
         /\ ~resp.last => tx' = NextTx /\ NextOffset(cur) = cur + 1 /\ cur + 1 \in Offset
<1> USE CBusAssumption
<1>1. /\ tx.busy /\ tx.is_write = (state = "FLUSH")
      /\ tx.tag = dcreq.tag /\ tx.index = req.index /\ tx.start = 0
      /\ tx.addr = cur /\ tx.n = cur + 1 /\ tx.len = LineLen
  BY DEF DeviceBeat, IInv, BurstInv
<1>2. cur \in Offset
  BY DEF IInv, TypeOK, CacheTypeOK
<1>3. TxLast = (cur = LineLen - 1)
  BY <1>1, <1>2 DEF TxLast, Offset
<1>4. resp.ready /\ resp.last = TxLast
  BY DEF DeviceBeat
<1>5. tx' = IF TxLast THEN IdleTx ELSE NextTx
  BY DEF DeviceBeat
<1>6. cur # LineLen - 1 => NextOffset(cur) = cur + 1 /\ cur + 1 \in Offset
  BY <1>2 DEF NextOffset, Offset
<1>7. QED BY <1>1, <1>3, <1>4, <1>5, <1>6

\* Between two beats the device only counts on; after the last it is free again.
LEMMA BeatTxType ==
  ASSUME IInv, state \in {"FLUSH", "FETCH"}, NEW resp \in CBusResp, DeviceBeat(dcreq, resp)
  PROVE  /\ tx' \in Transaction
         /\ resp.last => ~tx'.busy
         /\ ~resp.last =>
              /\ tx'.busy /\ tx'.is_write = (state = "FLUSH")
              /\ tx'.tag = dcreq.tag /\ tx'.index = req.index /\ tx'.start = 0
              /\ tx'.addr = cur + 1 /\ tx'.n = cur + 2 /\ tx'.len = LineLen
<1> USE CBusAssumption
<1>1. tx \in Transaction /\ cur \in Offset
  BY DEF IInv, TypeOK, CacheTypeOK, DeviceTypeOK
<1>2. CASE resp.last
  <2>1. tx' = IdleTx
    BY <1>2, BeatLemma
  <2>2. IdleTx \in Transaction
    <3>1. (CHOOSE i \in Index : TRUE) \in Index
      OBVIOUS
    <3>2. 0 \in Offset /\ 1 \in 1 .. LineLen
      BY DEF Offset
    <3>3. QED BY <3>1, <3>2 DEF IdleTx, Transaction
  <2>3. QED BY <1>2, <2>1, <2>2 DEF IdleTx
<1>3. CASE ~resp.last
  <2>1. /\ tx' = [tx EXCEPT !.n = tx.n + 1, !.addr = NextOffset(tx.addr)]
        /\ NextOffset(cur) = cur + 1 /\ cur + 1 \in Offset
    BY <1>3, BeatLemma DEF NextTx
  <2>2. tx.addr = cur /\ tx.n = cur + 1 /\ tx.n + 1 = cur + 2 /\ cur + 2 \in 1 .. LineLen
    BY <1>1, <2>1, BeatLemma DEF Offset
  <2>3. tx' \in Transaction
    BY <1>1, <2>1, <2>2 DEF Transaction
  <2>4. /\ tx'.busy = tx.busy /\ tx'.is_write = tx.is_write /\ tx'.tag = tx.tag
        /\ tx'.index = tx.index /\ tx'.start = tx.start /\ tx'.len = tx.len
        /\ tx'.addr = cur + 1 /\ tx'.n = cur + 2
    BY <1>1, <2>1, <2>2 DEF Transaction
  <2>5. QED BY <1>3, <2>3, <2>4, BeatLemma
<1>4. QED BY <1>2, <1>3

-------------------------------------------------------------------------------
\* FLUSH: the device stalls, takes the request, or stores the word at cur.
LEMMA FlushStep ==
  ASSUME IInv, NEW resp \in CBusResp, Flush(resp), DeviceCycle(dcreq, resp)
  PROVE  IInv'
<1> DEFINE i == req.index
           p == Position
           vt == meta[i][p].tag
<1>1. /\ state = "FLUSH" /\ order' = order /\ meta' = meta /\ ram' = ram /\ req' = req
      /\ state' = IF resp.ready /\ resp.last THEN "FETCH" ELSE state
      /\ cur' = IF ~resp.ready THEN cur ELSE IF resp.last THEN 0 ELSE NextOffset(cur)
  BY DEF Flush
<1>2. /\ Position' = p /\ Hits(i, req.tag)' = Hits(i, req.tag)
      /\ dcreq.tag = vt /\ dcreq.data = ram[i][p][cur] /\ dcreq.strobe = Lane
  BY <1>1 DEF Position, Hits, dcreq
<1>3. /\ i \in Index /\ p \in Way /\ cur \in Offset /\ vt \in Tag /\ req.tag \in Tag
      /\ mem \in [Tag -> [Index -> [Offset -> Word]]]
      /\ ram[i][p] \in [Offset -> Word]
  <2>1. meta[i][p] \in Meta
    BY PositionLemma DEF IInv, TypeOK, CacheTypeOK
  <2>2. QED BY <2>1, PositionLemma DEF IInv, TypeOK, CacheTypeOK, DeviceTypeOK, Meta
<1>4. /\ meta[i][p].dirty /\ meta[i][p].valid /\ Hits(i, req.tag) = {}
      /\ \A o \in Offset : o < cur => mem[vt][i][o] = ram[i][p][o]
  BY <1>1, <1>3 DEF IInv, FlushInv, DirtyIsValid
<1>5. CASE DeviceStall(resp)
  <2>1. state' = state /\ cur' = cur /\ mem' = mem /\ tx' = tx
    BY <1>1, <1>5 DEF DeviceStall, devVars
  <2>2. UNCHANGED vars
    BY <1>1, <2>1 DEF vars, cacheVars, devVars
  <2>3. QED BY <2>2, StutterStep
<1>6. CASE DeviceStart(dcreq, resp)
  <2>1. /\ cur = 0 /\ mem' = mem /\ state' = "FLUSH" /\ cur' = cur
        /\ tx' \in Transaction
        /\ tx'.busy /\ tx'.is_write = TRUE
        /\ tx'.tag = dcreq.tag /\ tx'.index = i /\ tx'.start = 0
        /\ tx'.addr = 0 /\ tx'.n = 1 /\ tx'.len = LineLen
    BY <1>1, <1>6, StartLemma
  <2>2. dcreq' = dcreq /\ \A j \in Index, v \in Way : Live(j, v)' = Live(j, v)
    BY <1>1, <1>2, <2>1 DEF dcreq, Live, Refilling, Position
  <2>3. TypeOK'
    BY <1>1, <2>1 DEF IInv, TypeOK, CacheTypeOK, DeviceTypeOK
  <2>4. OrderIsPermutation' /\ NoDuplicateLines' /\ DirtyIsValid'
    BY <1>1 DEF IInv, OrderIsPermutation, NoDuplicateLines, DirtyIsValid
  <2>5. CleanLinesMatchMemory'
    BY <1>1, <2>1, <2>2 DEF IInv, CleanLinesMatchMemory
  <2>6. BurstInv'
    <3>1. state' = "FLUSH" /\ req' = req /\ cur' = 0 /\ dcreq'.tag = dcreq.tag /\ 1 = 0 + 1
      BY <1>1, <2>1, <2>2
    <3>2. QED BY <2>1, <3>1 DEF BurstInv
  <2>7. FlushInv' /\ FetchInv' /\ ReadyInv'
    BY <1>1, <1>2, <1>4, <2>1 DEF FlushInv, FetchInv, ReadyInv
  <2>8. QED BY <2>3, <2>4, <2>5, <2>6, <2>7 DEF IInv
<1>7. CASE DeviceBeat(dcreq, resp)
  <2>1. /\ tx.busy /\ tx.is_write /\ tx.tag = vt /\ tx.index = i /\ tx.addr = cur /\ resp.ready
        /\ resp.last = (cur = LineLen - 1)
        /\ ~resp.last => NextOffset(cur) = cur + 1 /\ cur + 1 \in Offset
    BY <1>1, <1>2, <1>7, BeatLemma
  <2>2. /\ tx' \in Transaction
        /\ resp.last => ~tx'.busy
        /\ ~resp.last =>
             /\ tx'.busy /\ tx'.is_write = TRUE
             /\ tx'.tag = vt /\ tx'.index = i /\ tx'.start = 0
             /\ tx'.addr = cur + 1 /\ tx'.n = cur + 2 /\ tx'.len = LineLen
    BY <1>1, <1>2, <1>7, BeatTxType
  <2>3. mem' = [mem EXCEPT ![vt][i][cur] = ram[i][p][cur]]
    <3>1. mem' = [mem EXCEPT ![vt][i][cur] = Merge(mem[vt][i][cur], ram[i][p][cur], Lane)]
      BY <1>2, <1>7, <2>1 DEF DeviceBeat
    <3>2. mem[vt][i][cur] \in Word /\ ram[i][p][cur] \in Word
      BY <1>3
    <3>3. Merge(mem[vt][i][cur], ram[i][p][cur], Lane) = ram[i][p][cur]
      BY <3>2, MergeLemma
    <3>4. QED BY <3>1, <3>3
  <2>3a. ram[i][p][cur] \in Word
    BY <1>3
  <2>4. /\ mem' \in [Tag -> [Index -> [Offset -> Word]]]
        /\ mem'[vt][i][cur] = ram[i][p][cur]
        /\ \A t \in Tag, j \in Index, o \in Offset :
             (t # vt \/ j # i \/ o # cur) => mem'[t][j][o] = mem[t][j][o]
    <3> HIDE DEF i, p, vt
    <3>1. QED BY <1>3, <2>3, <2>3a, WordUpdate
  <2>5. /\ cur' = IF resp.last THEN 0 ELSE cur + 1
        /\ state' = IF resp.last THEN "FETCH" ELSE "FLUSH"
        /\ cur' \in Offset
    BY <1>1, <2>1, PositionLemma DEF IInv
  <2>6. TypeOK'
    BY <1>1, <2>2, <2>4, <2>5 DEF IInv, TypeOK, CacheTypeOK, DeviceTypeOK, State
  <2>7. OrderIsPermutation' /\ NoDuplicateLines' /\ DirtyIsValid'
    BY <1>1 DEF IInv, OrderIsPermutation, NoDuplicateLines, DirtyIsValid
  <2>8. CleanLinesMatchMemory'
    <3> SUFFICES ASSUME NEW j \in Index, NEW v \in Way, Live(j, v)', ~meta[j][v].dirty,
                        NEW o \in Offset
                 PROVE  ram[j][v][o] = mem'[meta[j][v].tag][j][o]
      BY <1>1 DEF CleanLinesMatchMemory
    <3>1. Live(j, v) /\ meta[j][v].valid
      BY <1>1 DEF Live, Refilling
    <3>2. ram[j][v][o] = mem[meta[j][v].tag][j][o]
      BY <3>1 DEF IInv, CleanLinesMatchMemory
    <3>3. j # i \/ meta[j][v].tag # vt
      BY <1>3, <1>4, <3>1 DEF IInv, NoDuplicateLines
    <3>4. meta[j][v] \in Meta
      BY DEF IInv, TypeOK, CacheTypeOK
    <3>5. meta[j][v].tag \in Tag
      BY <3>4 DEF Meta
    <3>6. mem'[meta[j][v].tag][j][o] = mem[meta[j][v].tag][j][o]
      BY <2>4, <3>3, <3>5
    <3>7. QED BY <3>2, <3>6
  <2>9. BurstInv'
    <3>1. CASE resp.last
      BY <3>1, <2>2, <2>5 DEF BurstInv
    <3>2. CASE ~resp.last
      <4>1. dcreq'.tag = vt
        BY <1>1, <1>2, <2>5, <3>2 DEF dcreq
      <4>2. cur + 1 + 1 = cur + 2
        BY <1>3 DEF Offset
      <4>3. QED BY <1>1, <2>2, <2>5, <3>2, <4>1, <4>2 DEF BurstInv
    <3>3. QED BY <3>1, <3>2
  <2>10. FlushInv'
    <3>1. CASE resp.last
      BY <3>1, <2>5 DEF FlushInv
    <3>2. CASE ~resp.last
      <4>1. ASSUME NEW o \in Offset, o < cur + 1
            PROVE  mem'[vt][i][o] = ram[i][p][o]
        <5>1. CASE o = cur BY <5>1, <2>4
        <5>2. CASE o # cur
          <6>1. o < cur BY <4>1, <5>2, <1>3 DEF Offset
          <6>2. QED BY <6>1, <5>2, <1>3, <1>4, <2>4
        <5>3. QED BY <5>1, <5>2
      <4>2. QED BY <1>1, <1>2, <1>4, <2>5, <3>2, <4>1 DEF FlushInv
    <3>3. QED BY <3>1, <3>2
  <2>11. FetchInv'
    <3>1. \A o \in Offset : ~(o < 0)
      BY DEF Offset
    <3>2. QED BY <1>1, <1>2, <1>4, <2>5, <3>1 DEF FetchInv
  <2>12. ReadyInv'
    BY <2>5 DEF ReadyInv
  <2>13. QED BY <2>6, <2>7, <2>8, <2>9, <2>10, <2>11, <2>12 DEF IInv
<1>8. QED BY <1>5, <1>6, <1>7 DEF DeviceCycle, DeviceEnabled

-------------------------------------------------------------------------------
\* FETCH writes the way in use only, whatever the memory answers in this cycle.
LEMMA FetchWrite ==
  ASSUME IInv, NEW resp \in CBusResp, Fetch(resp)
  PROVE  /\ ram' \in [Index -> [Way -> [Offset -> Word]]]
         /\ ram'[req.index][Position][cur] = resp.data
         /\ \A j \in Index, v \in Way, o \in Offset :
              (j # req.index \/ v # Position \/ o # cur) => ram'[j][v][o] = ram[j][v][o]
<1>1. /\ req.index \in Index /\ Position \in Way /\ cur \in Offset /\ resp.data \in Word
      /\ ram \in [Index -> [Way -> [Offset -> Word]]]
  BY PositionLemma DEF IInv, TypeOK, CacheTypeOK, CBusResp
<1>2. ram' = [ram EXCEPT ![req.index][Position][cur] = resp.data]
  BY DEF Fetch
<1>3. QED BY <1>1, <1>2, WordUpdate

\* A cycle of FETCH that is not the last keeps the invariant, provided the device's own
\* state still matches the cache's.
LEMMA FetchOn ==
  ASSUME IInv, NEW resp \in CBusResp, Fetch(resp), ~(resp.ready /\ resp.last),
         mem' = mem, tx' \in Transaction, BurstInv',
         resp.ready => /\ NextOffset(cur) = cur + 1 /\ cur + 1 \in Offset
                       /\ resp.data = mem[req.tag][req.index][cur]
  PROVE  IInv'
<1> DEFINE i == req.index
           p == Position
<1>1. /\ state = "FETCH" /\ state' = "FETCH" /\ order' = order /\ req' = req /\ meta' = meta
      /\ cur' = IF resp.ready THEN cur + 1 ELSE cur
  BY DEF Fetch
<1>2. /\ ram' \in [Index -> [Way -> [Offset -> Word]]]
      /\ ram'[i][p][cur] = resp.data
      /\ \A j \in Index, v \in Way, o \in Offset :
           (j # i \/ v # p \/ o # cur) => ram'[j][v][o] = ram[j][v][o]
  BY FetchWrite
<1>3. i \in Index /\ p \in Way /\ cur \in Offset
  BY PositionLemma DEF IInv, TypeOK, CacheTypeOK
<1>4. Position' = p /\ Hits(i, req.tag)' = Hits(i, req.tag)
  BY <1>1 DEF Position, Hits
<1>5. TypeOK'
  BY <1>1, <1>2, <1>3 DEF IInv, TypeOK, CacheTypeOK, DeviceTypeOK
<1>6. OrderIsPermutation' /\ NoDuplicateLines' /\ DirtyIsValid'
  BY <1>1 DEF IInv, OrderIsPermutation, NoDuplicateLines, DirtyIsValid
<1>7. CleanLinesMatchMemory'
  <2> SUFFICES ASSUME NEW j \in Index, NEW v \in Way, Live(j, v)', ~meta[j][v].dirty,
                      NEW o \in Offset
               PROVE  ram'[j][v][o] = mem[meta[j][v].tag][j][o]
    BY <1>1 DEF CleanLinesMatchMemory
  <2>1. Live(j, v) /\ (j # i \/ v # p)
    BY <1>1, <1>4 DEF Live, Refilling
  <2>2. ram[j][v][o] = mem[meta[j][v].tag][j][o]
    BY <2>1 DEF IInv, CleanLinesMatchMemory
  <2>3. ram'[j][v][o] = ram[j][v][o]
    BY <1>2, <2>1
  <2>4. QED BY <2>2, <2>3
<1>8. FetchInv'
  <2>1. ASSUME NEW o \in Offset, o < cur'
        PROVE  ram'[i][p][o] = mem[req.tag][i][o]
    <3>1. CASE o < cur
      <4>1. o # cur
        BY <3>1, <1>3 DEF Offset
      <4>2. ram[i][p][o] = mem[req.tag][i][o]
        BY <3>1, <1>1 DEF IInv, FetchInv
      <4>3. QED BY <4>1, <4>2, <1>2, <1>3
    <3>2. CASE ~(o < cur)
      <4>1. resp.ready /\ o = cur
        BY <2>1, <3>2, <1>1, <1>3 DEF Offset
      <4>2. QED BY <4>1, <1>2
    <3>3. QED BY <3>1, <3>2
  <2>2. Hits(i, req.tag) = {}
    BY <1>1 DEF IInv, FetchInv
  <2>3. QED BY <1>1, <1>4, <2>1, <2>2 DEF FetchInv
<1>9. FlushInv' /\ ReadyInv'
  BY <1>1 DEF FlushInv, ReadyInv
<1>10. QED BY <1>5, <1>6, <1>7, <1>8, <1>9 DEF IInv

\* The last beat of FETCH makes the line valid and clean, and every word of it has come.
LEMMA FetchDone ==
  ASSUME IInv, NEW resp \in CBusResp, Fetch(resp), resp.ready, resp.last,
         cur = LineLen - 1, resp.data = mem[req.tag][req.index][cur],
         mem' = mem, tx' \in Transaction, ~tx'.busy
  PROVE  IInv'
<1> DEFINE i == req.index
           p == Position
           m == [tag |-> req.tag, valid |-> TRUE, dirty |-> FALSE]
<1>1. /\ state = "FETCH" /\ state' = "READY" /\ order' = order /\ req' = req
      /\ cur' = req.offset
      /\ meta' = [meta EXCEPT ![i][p] = m]
  BY DEF Fetch
<1>2. /\ ram' \in [Index -> [Way -> [Offset -> Word]]]
      /\ ram'[i][p][cur] = resp.data
      /\ \A j \in Index, v \in Way, o \in Offset :
           (j # i \/ v # p \/ o # cur) => ram'[j][v][o] = ram[j][v][o]
  BY FetchWrite
<1>3. /\ i \in Index /\ p \in Way /\ cur \in Offset /\ req.tag \in Tag /\ req.offset \in Offset
      /\ meta \in [Index -> [Way -> Meta]]
  BY PositionLemma DEF IInv, TypeOK, CacheTypeOK
<1>4. m \in Meta
  BY <1>3 DEF Meta
<1>5. m.valid = TRUE /\ m.dirty = FALSE /\ m.tag = req.tag
  OBVIOUS
<1> HIDE DEF m
<1>6. /\ meta' \in [Index -> [Way -> Meta]]
      /\ meta'[i][p] = m
      /\ \A j \in Index, v \in Way : (j # i \/ v # p) => meta'[j][v] = meta[j][v]
  BY <1>1, <1>3, <1>4, MetaUpdate
<1>7. Position' = p
  BY <1>1 DEF Position
<1>8. \A v \in Way : ~(meta[i][v].valid /\ meta[i][v].tag = req.tag)
  BY <1>1 DEF IInv, FetchInv, Hits
<1>9. TypeOK'
  BY <1>1, <1>2, <1>3, <1>6 DEF IInv, TypeOK, CacheTypeOK, DeviceTypeOK, State
<1>10. OrderIsPermutation'
  BY <1>1 DEF IInv, OrderIsPermutation
<1>11. NoDuplicateLines'
  <2> SUFFICES ASSUME NEW j \in Index, NEW v \in Way, NEW w \in Way,
                      meta'[j][v].valid, meta'[j][w].valid, meta'[j][v].tag = meta'[j][w].tag
               PROVE  v = w
    BY DEF NoDuplicateLines
  <2>1. CASE j # i \/ (v # p /\ w # p)
    <3>1. meta'[j][v] = meta[j][v] /\ meta'[j][w] = meta[j][w]
      BY <2>1, <1>6
    <3>2. QED BY <3>1 DEF IInv, NoDuplicateLines
  <2>2. CASE j = i /\ v = p /\ w # p
    BY <2>2, <1>5, <1>6, <1>8
  <2>3. CASE j = i /\ v # p /\ w = p
    BY <2>3, <1>5, <1>6, <1>8
  <2>4. QED BY <2>1, <2>2, <2>3
<1>12. DirtyIsValid'
  BY <1>5, <1>6 DEF IInv, DirtyIsValid
<1>13. CleanLinesMatchMemory'
  <2> SUFFICES ASSUME NEW j \in Index, NEW v \in Way, Live(j, v)', ~meta'[j][v].dirty,
                      NEW o \in Offset
               PROVE  ram'[j][v][o] = mem[meta'[j][v].tag][j][o]
    BY DEF CleanLinesMatchMemory
  <2>1. CASE j = i /\ v = p
    <3>1. CASE o = cur
      BY <3>1, <2>1, <1>2, <1>5, <1>6
    <3>2. CASE o # cur
      <4>1. o < cur
        BY <3>2, <1>3 DEF Offset
      <4>2. ram[i][p][o] = mem[req.tag][i][o]
        BY <4>1, <1>1 DEF IInv, FetchInv
      <4>3. ram'[i][p][o] = ram[i][p][o]
        BY <3>2, <1>2, <1>3
      <4>4. QED BY <4>2, <4>3, <2>1, <1>5, <1>6
    <3>3. QED BY <3>1, <3>2
  <2>2. CASE j # i \/ v # p
    <3>1. meta'[j][v] = meta[j][v] /\ ram'[j][v][o] = ram[j][v][o]
      BY <2>2, <1>2, <1>6
    <3>2. Live(j, v) /\ ~meta[j][v].dirty
      BY <2>2, <3>1 DEF Live, Refilling
    <3>3. QED BY <3>1, <3>2 DEF IInv, CleanLinesMatchMemory
  <2>3. QED BY <2>1, <2>2
<1>14. BurstInv' /\ FlushInv' /\ FetchInv'
  BY <1>1 DEF BurstInv, FlushInv, FetchInv
<1>15. ReadyInv'
  BY <1>1, <1>5, <1>6, <1>7 DEF ReadyInv
<1>16. QED
  BY <1>9, <1>10, <1>11, <1>12, <1>13, <1>14, <1>15 DEF IInv

\* FETCH: the device stalls, takes the request, or answers with the word at cur.
LEMMA FetchStep ==
  ASSUME IInv, NEW resp \in CBusResp, Fetch(resp), DeviceCycle(dcreq, resp)
  PROVE  IInv'
<1>1. /\ state = "FETCH" /\ order' = order /\ req' = req
      /\ ~(resp.ready /\ resp.last) => state' = "FETCH" /\ meta' = meta
      /\ ~resp.ready => cur' = cur
      /\ resp.ready /\ ~resp.last => cur' = NextOffset(cur)
  BY DEF Fetch
<1>2. dcreq.tag = req.tag /\ (state' = "FETCH" => dcreq'.tag = req.tag)
  BY <1>1 DEF dcreq
<1>3. CASE DeviceStall(resp)
  <2>1. ~resp.ready /\ mem' = mem /\ tx' = tx /\ state' = "FETCH" /\ cur' = cur
    BY <1>1, <1>3 DEF DeviceStall, devVars
  <2>2. tx' \in Transaction
    BY <2>1 DEF IInv, TypeOK, DeviceTypeOK
  <2>3. BurstInv'
    BY <1>1, <1>2, <2>1 DEF IInv, BurstInv
  <2>4. QED BY <2>1, <2>2, <2>3, FetchOn
<1>4. CASE DeviceStart(dcreq, resp)
  <2>1. /\ cur = 0 /\ ~resp.ready /\ mem' = mem /\ tx' \in Transaction
        /\ tx'.busy /\ tx'.is_write = FALSE
        /\ tx'.tag = req.tag /\ tx'.index = req.index /\ tx'.start = 0
        /\ tx'.addr = 0 /\ tx'.n = 1 /\ tx'.len = LineLen
    BY <1>1, <1>2, <1>4, StartLemma
  <2>2. state' = "FETCH" /\ cur' = 0 /\ dcreq'.tag = req.tag /\ 1 = 0 + 1
    BY <1>1, <1>2, <2>1
  <2>3. BurstInv'
    BY <1>1, <2>1, <2>2 DEF BurstInv
  <2>4. QED BY <2>1, <2>3, FetchOn
<1>5. CASE DeviceBeat(dcreq, resp)
  <2>1. /\ tx.busy /\ tx.is_write = FALSE /\ tx.tag = req.tag /\ tx.index = req.index
        /\ tx.addr = cur /\ resp.ready
        /\ resp.last = (cur = LineLen - 1)
        /\ ~resp.last => NextOffset(cur) = cur + 1 /\ cur + 1 \in Offset
    BY <1>1, <1>2, <1>5, BeatLemma
  <2>2. /\ tx' \in Transaction
        /\ resp.last => ~tx'.busy
        /\ ~resp.last =>
             /\ tx'.busy /\ tx'.is_write = FALSE
             /\ tx'.tag = req.tag /\ tx'.index = req.index /\ tx'.start = 0
             /\ tx'.addr = cur + 1 /\ tx'.n = cur + 2 /\ tx'.len = LineLen
    BY <1>1, <1>2, <1>5, BeatTxType
  <2>3. mem' = mem /\ resp.data = mem[req.tag][req.index][cur]
    BY <1>5, <2>1 DEF DeviceBeat
  <2>4. CASE resp.last
    BY <2>1, <2>2, <2>3, <2>4, FetchDone
  <2>5. CASE ~resp.last
    <3>1. state' = "FETCH" /\ cur' = cur + 1 /\ dcreq'.tag = req.tag /\ cur + 2 = cur + 1 + 1
      <4>1. cur \in Int
        BY DEF IInv, TypeOK, CacheTypeOK, Offset
      <4>2. QED BY <4>1, <1>1, <1>2, <2>1, <2>5
    <3>2. BurstInv'
      BY <1>1, <2>2, <2>5, <3>1 DEF BurstInv
    <3>3. QED BY <2>1, <2>2, <2>3, <2>5, <3>2, FetchOn
  <2>6. QED BY <2>4, <2>5
<1>6. QED BY <1>3, <1>4, <1>5 DEF DeviceCycle, DeviceEnabled

-------------------------------------------------------------------------------
\* After reset every line is invalid and every set's order is the ways counted down.
LEMMA InitInv == Init => IInv
<1> SUFFICES ASSUME Init PROVE IInv
  OBVIOUS
<1> USE CBusAssumption, WaysAssumption DEF Init, CacheInit, DeviceInit
<1>1. ZeroWord \in Word /\ 0 \in Offset /\ (CHOOSE i \in Index : TRUE) \in Index
  BY DEF ZeroWord, Word, Offset
<1>2. /\ MRU \in Int
      /\ \A k \in Way : MRU - k \in Way
      /\ \A w \in Way : MRU - (MRU - w) = w
      /\ \A j, k \in Way : MRU - j = MRU - k => j = k
  BY DEF MRU, Way
<1>3. CacheTypeOK
  <2>1. order \in [Index -> [Way -> Way]]
    BY <1>2
  <2>2. meta \in [Index -> [Way -> Meta]]
    BY DEF Meta
  <2>3. ram \in [Index -> [Way -> [Offset -> Word]]]
    BY <1>1
  <2>4. req \in DBusReq
    BY <1>1 DEF DBusReq
  <2>5. QED BY <1>1, <2>1, <2>2, <2>3, <2>4 DEF CacheTypeOK, State
<1>4. DeviceTypeOK
  BY <1>1 DEF DeviceTypeOK, IdleTx, Transaction
<1>5. OrderIsPermutation
  <2>1. \A i \in Index : order[i] = [k \in Way |-> MRU - k]
    OBVIOUS
  <2>2. ASSUME NEW i \in Index, NEW w \in Way PROVE \E k \in Way : order[i][k] = w
    BY <1>2, <2>1
  <2>3. ASSUME NEW i \in Index, NEW j \in Way, NEW k \in Way, order[i][j] = order[i][k]
        PROVE  j = k
    BY <1>2, <2>1, <2>3
  <2>4. QED BY <2>2, <2>3 DEF OrderIsPermutation
<1>6. \A i \in Index : \A w \in Way : ~meta[i][w].valid /\ ~meta[i][w].dirty
  OBVIOUS
<1>7. NoDuplicateLines /\ DirtyIsValid /\ CleanLinesMatchMemory
  BY <1>6 DEF NoDuplicateLines, DirtyIsValid, CleanLinesMatchMemory, Live
<1>8. BurstInv /\ FlushInv /\ FetchInv /\ ReadyInv
  BY DEF BurstInv, FlushInv, FetchInv, ReadyInv, IdleTx
<1>9. QED BY <1>3, <1>4, <1>5, <1>7, <1>8 DEF IInv, TypeOK

\* The invariant is inductive: every clock edge, whatever the client asks and however
\* long the memory takes, keeps it.
LEMMA NextInv == IInv /\ [Next]_vars => IInv'
<1> SUFFICES ASSUME IInv, [Next]_vars PROVE IInv'
  OBVIOUS
<1>1. CASE UNCHANGED vars
  BY <1>1, StutterStep
<1>2. ASSUME NEW resp \in CBusResp, Cycle(resp)
      PROVE  IInv'
  <2>1. DeviceCycle(dcreq, resp)
    BY <1>2 DEF Cycle
  <2>2. CASE (\E rq \in Requests : Accept(rq)) /\ UNCHANGED devVars
    BY <2>2, RequestsAssumption, AcceptStep
  <2>3. CASE Serve /\ UNCHANGED devVars
    BY <2>3, ServeStep
  <2>4. CASE Flush(resp)
    BY <2>1, <2>4, FlushStep
  <2>5. CASE Fetch(resp)
    BY <2>1, <2>5, FetchStep
  <2>6. QED BY <1>2, <2>2, <2>3, <2>4, <2>5, CycleCases
<1>3. QED BY <1>1, <1>2 DEF Next

\* Every cycle of VCacheTop satisfies the invariant.
LEMMA Invariance == Spec => []IInv
BY InitInv, NextInv, PTL DEF Spec

\* DCache.sv and the memory device keep every register in its type.
THEOREM TypeCorrect == Spec => []TypeOK
<1>1. IInv => TypeOK
  BY DEF IInv
<1>2. QED BY <1>1, Invariance, PTL

\* The shifting assignments of DCache.sv 92-109 keep each set's recency order a
\* permutation, for every number of ways.
THEOREM OrderStaysPermutation == Spec => []OrderIsPermutation
<1>1. IInv => OrderIsPermutation
  BY DEF IInv
<1>2. QED BY <1>1, Invariance, PTL

\* No line is ever held by two ways, for every sequence of requests and evictions.
THEOREM LinesStayUnique == Spec => []NoDuplicateLines
<1>1. IInv => NoDuplicateLines
  BY DEF IInv
<1>2. QED BY <1>1, Invariance, PTL

\* The dirty bit that decides FLUSH is never set in an invalid way.
THEOREM DirtyStaysValid == Spec => []DirtyIsValid
<1>1. IInv => DirtyIsValid
  BY DEF IInv
<1>2. QED BY <1>1, Invariance, PTL

\* A line that would be dropped without FLUSH equals memory, word for word.
THEOREM CleanLinesStayCoherent == Spec => []CleanLinesMatchMemory
<1>1. IInv => CleanLinesMatchMemory
  BY DEF IInv
<1>2. QED BY <1>1, Invariance, PTL

\* The cache's word counter and the memory's beat counter never drift apart, for every
\* line length and every pattern of stalls.
THEOREM BeatsStayInLockstep == Spec => []BeatsInLockstep
<1>1. IInv => BeatsInLockstep
  BY DEF IInv, BurstInv, BeatsInLockstep, dcreq
<1>2. QED BY <1>1, Invariance, PTL

\* The assertions of cbus_device.cpp 36-40 never fire.
THEOREM DeviceNeverAsserts == Spec => []RequestHeldDuringBurst
<1>1. IInv => RequestHeldDuringBurst
  BY DEF IInv, BurstInv, RequestHeldDuringBurst, DeviceAsserts, dcreq
<1>2. QED BY <1>1, Invariance, PTL

-------------------------------------------------------------------------------
(***************************************************************************)
(* Refinement of AtomicMemory.  View is read through two facts: a live     *)
(* line shows its own words, and every other line shows memory.            *)
(***************************************************************************)
LiveHit(t, i, w) == Live(i, w) /\ meta[i][w].tag = t

ViewFacts ==
  /\ View \in [Tag -> [Index -> [Offset -> Word]]]
  /\ \A t \in Tag, i \in Index, o \in Offset :
       /\ \A w \in Way : LiveHit(t, i, w) => View[t][i][o] = ram[i][w][o]
       /\ (\A w \in Way : ~LiveHit(t, i, w)) => View[t][i][o] = mem[t][i][o]

\* The lines being unique, it does not matter which of them View picks.
LEMMA ViewOfLines == TypeOK /\ NoDuplicateLines => ViewFacts
<1> SUFFICES ASSUME TypeOK, NoDuplicateLines PROVE ViewFacts
  OBVIOUS
<1>1. \A t \in Tag, i \in Index, o \in Offset :
        View[t][i][o] = IF \E w \in Hits(i, t) : ~Refilling(i, w)
                        THEN ram[i][CHOOSE w \in Hits(i, t) : ~Refilling(i, w)][o]
                        ELSE mem[t][i][o]
  BY DEF View
<1>2. ASSUME NEW t \in Tag, NEW i \in Index, NEW o \in Offset, NEW w \in Way, LiveHit(t, i, w)
      PROVE  View[t][i][o] = ram[i][w][o]
  <2>1. w \in Hits(i, t) /\ ~Refilling(i, w)
    BY <1>2 DEF LiveHit, Live, Hits
  <2>2. \A v \in Hits(i, t) : v = w
    BY <1>2, <2>1 DEF Hits, NoDuplicateLines
  <2>3. (CHOOSE v \in Hits(i, t) : ~Refilling(i, v)) = w
    BY <2>1, <2>2
  <2>4. QED BY <1>1, <2>1, <2>3
<1>3. ASSUME NEW t \in Tag, NEW i \in Index, NEW o \in Offset,
             \A w \in Way : ~LiveHit(t, i, w)
      PROVE  View[t][i][o] = mem[t][i][o]
  <2>1. ~ \E w \in Hits(i, t) : ~Refilling(i, w)
    BY <1>3 DEF LiveHit, Live, Hits
  <2>2. QED BY <1>1, <2>1
<1>4. ASSUME NEW t \in Tag, NEW i \in Index, NEW o \in Offset
      PROVE  View[t][i][o] \in Word
  <2>1. CASE \E w \in Way : LiveHit(t, i, w)
    BY <1>2, <2>1 DEF TypeOK, CacheTypeOK
  <2>2. CASE \A w \in Way : ~LiveHit(t, i, w)
    BY <1>3, <2>2 DEF TypeOK, DeviceTypeOK
  <2>3. QED BY <2>1, <2>2
<1>5. View \in [Tag -> [Index -> [Offset -> Word]]]
  BY <1>1, <1>4 DEF View
<1>6. QED BY <1>2, <1>3, <1>5 DEF ViewFacts

\* The same, from the invariant, of a state and of the next one.
LEMMA ViewLemma == IInv => ViewFacts
BY ViewOfLines DEF IInv

\* The same facts of the next state.
LEMMA ViewLemmaNext == IInv' => ViewFacts'
BY ViewLemma, PTL

\* Two memories that agree on every word are equal.
LEMMA Extensional ==
  ASSUME NEW A, NEW B, NEW C, NEW D,
         NEW f \in [A -> [B -> [C -> D]]], NEW g \in [A -> [B -> [C -> D]]],
         \A a \in A, b \in B, c \in C : f[a][b][c] = g[a][b][c]
  PROVE  f = g
<1>1. ASSUME NEW a \in A, NEW b \in B PROVE f[a][b] = g[a][b]
  <2>1. f[a][b] \in [C -> D] /\ g[a][b] \in [C -> D]
    OBVIOUS
  <2>2. QED BY <2>1
<1>2. ASSUME NEW a \in A PROVE f[a] = g[a]
  <2>1. f[a] \in [B -> [C -> D]] /\ g[a] \in [B -> [C -> D]]
    OBVIOUS
  <2>2. QED BY <2>1, <1>1
<1>3. QED BY <1>2

\* A step after which every live line shows what it showed, every line that stops being
\* live is in memory, and every line that becomes live was in memory, is invisible.
LEMMA ViewKept ==
  ASSUME IInv, IInv',
         \A t \in Tag, i \in Index, o \in Offset : View'[t][i][o] = View[t][i][o]
  PROVE  View' = View
<1>1. /\ View \in [Tag -> [Index -> [Offset -> Word]]]
      /\ View' \in [Tag -> [Index -> [Offset -> Word]]]
  BY ViewLemma, ViewLemmaNext DEF ViewFacts
<1> HIDE DEF View
<1>2. QED BY <1>1, Extensional

\* A hit moves no word, and the victim of a miss without FLUSH is clean.
LEMMA AcceptRefines ==
  ASSUME IInv, IInv', NEW rq \in DBusReq, Accept(rq), UNCHANGED devVars
  PROVE  Abs!Take(rq)
<1> DEFINE w == Lookup(rq.index, rq.tag)
<1>1. /\ rq \in DBusReq /\ rq.index \in Index /\ rq.tag \in Tag /\ rq.offset \in Offset
      /\ w \in Way /\ (Hits(rq.index, rq.tag) # {} => w \in Hits(rq.index, rq.tag))
  <2>1. rq \in DBusReq /\ rq.index \in Index /\ rq.tag \in Tag /\ rq.offset \in Offset
    BY DEF DBusReq
  <2>2. QED BY <2>1, LookupLemma DEF IInv
<1>2. IsOrder(order[rq.index])
  BY <1>1 DEF IInv, TypeOK, CacheTypeOK, OrderIsPermutation, IsOrder
<1>3. Reorder(order[rq.index], w)[MRU] = w
  BY <1>1, <1>2, ReorderLemma
<1>4. /\ state = "IDLE" /\ req' = rq /\ meta' = meta /\ ram' = ram /\ mem' = mem
      /\ order' = [order EXCEPT ![rq.index] = Reorder(order[rq.index], w)]
      /\ state' = IF Hits(rq.index, rq.tag) # {} THEN "READY"
                  ELSE IF meta[rq.index][w].dirty THEN "FLUSH" ELSE "FETCH"
      /\ cur' = IF Hits(rq.index, rq.tag) # {} THEN rq.offset ELSE 0
  BY DEF Accept, devVars
<1> HIDE DEF w
<1>5. Position' = w
  BY <1>1, <1>3, <1>4 DEF Position, IInv, TypeOK, CacheTypeOK
<1>6. ViewFacts /\ ViewFacts'
  BY ViewLemma, ViewLemmaNext
<1>7. ASSUME NEW t \in Tag, NEW i \in Index, NEW o \in Offset
      PROVE  View'[t][i][o] = View[t][i][o]
  <2>1. CASE \E v \in Way : LiveHit(t, i, v)'
    <3>1. PICK v \in Way : LiveHit(t, i, v)'
      BY <2>1
    <3>2. LiveHit(t, i, v)
      BY <3>1, <1>4 DEF LiveHit, Live, Refilling
    <3>3. View'[t][i][o] = ram'[i][v][o] /\ View[t][i][o] = ram[i][v][o]
      BY <3>1, <3>2, <1>6 DEF ViewFacts
    <3>4. QED BY <3>3, <1>4
  <2>2. CASE \A v \in Way : ~LiveHit(t, i, v)'
    <3>1. View'[t][i][o] = mem[t][i][o]
      BY <2>2, <1>4, <1>6 DEF ViewFacts
    <3>2. CASE \A v \in Way : ~LiveHit(t, i, v)
      BY <3>1, <3>2, <1>6 DEF ViewFacts
    <3>3. CASE \E v \in Way : LiveHit(t, i, v)
      <4>1. PICK v \in Way : LiveHit(t, i, v)
        BY <3>3
      <4>2. Refilling(i, v)'
        BY <4>1, <2>2, <1>4 DEF LiveHit, Live
      <4>3. ~meta[i][v].dirty
        BY <4>2, <1>4, <1>5 DEF Refilling
      <4>4. View[t][i][o] = ram[i][v][o] /\ ram[i][v][o] = mem[t][i][o]
        BY <4>1, <4>3, <1>6 DEF ViewFacts, LiveHit, IInv, CleanLinesMatchMemory
      <4>5. QED BY <3>1, <4>4
    <3>4. QED BY <3>2, <3>3
  <2>3. QED BY <2>1, <2>2
<1>8. View' = View
  BY <1>7, ViewKept
<1>9. CASE Hits(rq.index, rq.tag) # {}
  <2>1. LiveHit(rq.tag, rq.index, w)
    BY <1>1, <1>4, <1>9 DEF LiveHit, Live, Refilling, Hits
  <2>2. View[rq.tag][rq.index][rq.offset] = ram[rq.index][w][rq.offset]
    BY <1>1, <1>6, <2>1 DEF ViewFacts
  <2>3. dresp'.data_ok /\ dresp'.data = ram[rq.index][w][rq.offset]
    BY <1>4, <1>5, <1>9 DEF dresp
  <2>4. Phase = "free" /\ Phase' = "answered"
    BY <1>4, <1>9 DEF Phase
  <2>5. QED BY <1>4, <1>8, <2>2, <2>3, <2>4 DEF Abs!Take, Abs!WordAt
<1>10. CASE Hits(rq.index, rq.tag) = {}
  <2>1. ~dresp'.data_ok
    BY <1>4, <1>10 DEF dresp
  <2>2. Phase = "free" /\ Phase' = "accepted"
    BY <1>4, <1>10 DEF Phase
  <2>3. QED BY <1>4, <1>8, <2>1, <2>2 DEF Abs!Take
<1>11. QED BY <1>9, <1>10

\* FLUSH writes only the memory behind a live line; when it ends that line is in memory.
LEMMA FlushRefines ==
  ASSUME IInv, IInv', NEW resp \in CBusResp, Flush(resp), DeviceCycle(dcreq, resp)
  PROVE  UNCHANGED Abs!absVars
<1> DEFINE k == req.index
           p == Position
           vt == meta[k][p].tag
<1>1. /\ state = "FLUSH" /\ state' \in {"FLUSH", "FETCH"}
      /\ order' = order /\ meta' = meta /\ ram' = ram /\ req' = req
  BY DEF Flush
<1>2. /\ Position' = p /\ k \in Index /\ p \in Way /\ cur \in Offset /\ vt \in Tag
      /\ dcreq.tag = vt
      /\ meta[k][p].valid /\ LiveHit(vt, k, p)
  <2>1. Position' = p /\ dcreq.tag = vt
    BY <1>1 DEF Position, dcreq
  <2>2. meta[k][p] \in Meta /\ k \in Index /\ p \in Way /\ cur \in Offset
    BY PositionLemma DEF IInv, TypeOK, CacheTypeOK
  <2>3. meta[k][p].valid
    BY <1>1, <2>2 DEF IInv, FlushInv, DirtyIsValid
  <2>4. QED BY <1>1, <2>1, <2>2, <2>3 DEF Meta, LiveHit, Live, Refilling
<1>3. ViewFacts /\ ViewFacts'
  BY ViewLemma, ViewLemmaNext
\* Memory changes at one word at most, and that word is the one the victim holds.
<1>4. \A t \in Tag, i \in Index, o \in Offset :
        (t # vt \/ i # k) => mem'[t][i][o] = mem[t][i][o]
  <2>1. CASE mem' = mem
    BY <2>1
  <2>2. CASE DeviceBeat(dcreq, resp)
    <3>1. /\ tx.tag = vt /\ tx.index = k /\ tx.addr = cur
      BY <1>1, <1>2, <2>2, BeatLemma
    <3>2. mem' = mem \/ mem' = [mem EXCEPT ![vt][k][cur] = Merge(mem[vt][k][cur], dcreq.data, dcreq.strobe)]
      BY <2>2, <3>1 DEF DeviceBeat
    <3>3. mem \in [Tag -> [Index -> [Offset -> Word]]]
      BY DEF IInv, TypeOK, DeviceTypeOK
    <3>4. QED BY <1>2, <3>2, <3>3
  <2>3. QED
    BY <2>1, <2>2 DEF DeviceCycle, DeviceEnabled, DeviceStall, DeviceStart, devVars
\* When FLUSH ends, the whole victim is in memory.
<1>5. state' = "FETCH" => \A o \in Offset : mem'[vt][k][o] = ram[k][p][o]
  <2> SUFFICES ASSUME state' = "FETCH", NEW o \in Offset
               PROVE  mem'[vt][k][o] = ram[k][p][o]
    OBVIOUS
  <2>1. resp.ready /\ resp.last
    BY <1>1 DEF Flush
  <2>2. DeviceBeat(dcreq, resp)
    BY <2>1 DEF DeviceCycle, DeviceEnabled, DeviceStall, DeviceStart
  <2>3. /\ tx.is_write = TRUE /\ tx.tag = vt /\ tx.index = k /\ tx.addr = cur
        /\ cur = LineLen - 1
    BY <1>1, <1>2, <2>1, <2>2, BeatLemma
  <2>4. /\ mem \in [Tag -> [Index -> [Offset -> Word]]]
        /\ ram[k][p][cur] \in Word /\ mem[vt][k][cur] \in Word
    BY <1>2 DEF IInv, TypeOK, CacheTypeOK, DeviceTypeOK
  <2>5. mem' = [mem EXCEPT ![vt][k][cur] = ram[k][p][cur]]
    <3>1. mem' = [mem EXCEPT ![vt][k][cur] = Merge(mem[vt][k][cur], ram[k][p][cur], Lane)]
      BY <2>2, <2>3 DEF DeviceBeat, dcreq
    <3>2. Merge(mem[vt][k][cur], ram[k][p][cur], Lane) = ram[k][p][cur]
      BY <2>4, MergeLemma
    <3>3. QED BY <3>1, <3>2
  <2>6. CASE o = cur
    BY <2>4, <2>5, <2>6, <1>2
  <2>7. CASE o # cur
    <3>1. o < cur
      BY <2>3, <2>7, <1>2, CBusAssumption DEF Offset
    <3>2. mem[vt][k][o] = ram[k][p][o]
      BY <3>1, <1>1 DEF IInv, FlushInv
    <3>3. QED BY <2>4, <2>5, <2>7, <3>2, <1>2
  <2>8. QED BY <2>6, <2>7
<1>6. ASSUME NEW t \in Tag, NEW i \in Index, NEW o \in Offset
      PROVE  View'[t][i][o] = View[t][i][o]
  <2>1. \A v \in Way : LiveHit(t, i, v)' => LiveHit(t, i, v)
    BY <1>1 DEF LiveHit, Live, Refilling
  <2>2. CASE \E v \in Way : LiveHit(t, i, v)'
    <3>1. PICK v \in Way : LiveHit(t, i, v)'
      BY <2>2
    <3>2. View'[t][i][o] = ram'[i][v][o] /\ View[t][i][o] = ram[i][v][o]
      BY <2>1, <3>1, <1>3 DEF ViewFacts
    <3>3. QED BY <3>2, <1>1
  <2>3. CASE \A v \in Way : ~LiveHit(t, i, v)'
    <3>1. View'[t][i][o] = mem'[t][i][o]
      BY <2>3, <1>3 DEF ViewFacts
    <3>2. CASE t = vt /\ i = k
      <4>1. state' = "FETCH"
        BY <2>3, <3>2, <1>1, <1>2 DEF LiveHit, Live, Refilling
      <4>2. View[t][i][o] = ram[k][p][o]
        BY <3>2, <1>2, <1>3 DEF ViewFacts
      <4>3. QED BY <3>1, <3>2, <4>1, <4>2, <1>5
    <3>3. CASE t # vt \/ i # k
      <4>1. \A v \in Way : ~LiveHit(t, i, v)
        BY <2>3, <3>3, <1>1, <1>2 DEF LiveHit, Live, Refilling
      <4>2. View[t][i][o] = mem[t][i][o]
        BY <4>1, <1>3 DEF ViewFacts
      <4>3. QED BY <3>1, <3>3, <4>2, <1>4
    <3>4. QED BY <3>2, <3>3
  <2>4. QED BY <2>2, <2>3
<1>7. View' = View
  BY <1>6, ViewKept
<1>8. Phase' = Phase /\ ~dresp.data_ok /\ ~dresp'.data_ok
  BY <1>1 DEF Phase, dresp
<1>9. QED BY <1>1, <1>7, <1>8 DEF Abs!absVars

\* FETCH changes words that no live line shows, until the refilled line becomes live with
\* the words of memory.
LEMMA FetchRefines ==
  ASSUME IInv, IInv', NEW resp \in CBusResp, Fetch(resp), DeviceCycle(dcreq, resp)
  PROVE  Abs!Answer \/ UNCHANGED Abs!absVars
<1> DEFINE k == req.index
           p == Position
<1>1. /\ state = "FETCH" /\ order' = order /\ req' = req
      /\ state' = IF resp.ready /\ resp.last THEN "READY" ELSE "FETCH"
      /\ ~(resp.ready /\ resp.last) => meta' = meta
      /\ resp.ready /\ resp.last => cur' = req.offset
      /\ resp.ready /\ resp.last =>
           meta' = [meta EXCEPT ![k][p] = [tag |-> req.tag, valid |-> TRUE, dirty |-> FALSE]]
  BY DEF Fetch
<1>2. /\ Position' = p /\ k \in Index /\ p \in Way /\ cur \in Offset
      /\ req.tag \in Tag /\ req.offset \in Offset
      /\ meta \in [Index -> [Way -> Meta]] /\ meta' \in [Index -> [Way -> Meta]]
  BY <1>1, PositionLemma DEF Position, IInv, TypeOK, CacheTypeOK
<1>3. ViewFacts /\ ViewFacts'
  BY ViewLemma, ViewLemmaNext
<1>4. mem' = mem
  <2>1. CASE DeviceBeat(dcreq, resp)
    <3>1. ~tx.is_write
      BY <1>1, <2>1, BeatLemma
    <3>2. QED BY <2>1, <3>1 DEF DeviceBeat
  <2>2. QED BY <2>1 DEF DeviceCycle, DeviceEnabled, DeviceStall, DeviceStart, devVars
<1>5. \A j \in Index, v \in Way : (j # k \/ v # p) =>
        /\ meta'[j][v] = meta[j][v]
        /\ \A o \in Offset : ram'[j][v][o] = ram[j][v][o]
  BY <1>1, <1>2, FetchWrite
<1>6. \A v \in Way : ~(meta[k][v].valid /\ meta[k][v].tag = req.tag)
  BY <1>1 DEF IInv, FetchInv, Hits
<1>7. CASE ~(resp.ready /\ resp.last)
  <2>1. ASSUME NEW t \in Tag, NEW i \in Index, NEW o \in Offset
        PROVE  View'[t][i][o] = View[t][i][o]
    <3>1. \A v \in Way : LiveHit(t, i, v)' = LiveHit(t, i, v)
      BY <1>1, <1>2, <1>7 DEF LiveHit, Live, Refilling
    <3>2. CASE \E v \in Way : LiveHit(t, i, v)
      <4>1. PICK v \in Way : LiveHit(t, i, v)
        BY <3>2
      <4>2. View'[t][i][o] = ram'[i][v][o] /\ View[t][i][o] = ram[i][v][o]
        BY <3>1, <4>1, <1>3 DEF ViewFacts
      <4>3. i # k \/ v # p
        BY <4>1, <1>1 DEF LiveHit, Live, Refilling
      <4>4. QED BY <4>2, <4>3, <1>5
    <3>3. CASE \A v \in Way : ~LiveHit(t, i, v)
      BY <3>1, <3>3, <1>3, <1>4 DEF ViewFacts
    <3>4. QED BY <3>2, <3>3
  <2>2. View' = View
    BY <2>1, ViewKept
  <2>3. Phase' = Phase /\ ~dresp.data_ok /\ ~dresp'.data_ok
    BY <1>1, <1>7 DEF Phase, dresp
  <2>4. QED BY <1>1, <2>2, <2>3 DEF Abs!absVars
<1>8. CASE resp.ready /\ resp.last
  <2>0. /\ state' = "READY"
        /\ meta'[k][p].valid /\ meta'[k][p].tag = req.tag /\ ~meta'[k][p].dirty
    BY <1>1, <1>2, <1>8
  <2>1. \A t \in Tag, i \in Index, v \in Way :
          LiveHit(t, i, v)' = (meta'[i][v].valid /\ meta'[i][v].tag = t)
    BY <2>0 DEF LiveHit, Live, Refilling
  <2>2. \A o \in Offset : ram'[k][p][o] = mem[req.tag][k][o]
    <3>1. \A i \in Index, w \in Way : meta'[i][w].valid => Live(i, w)'
      BY <2>0 DEF Live, Refilling
    <3>2. \A i \in Index, w \in Way : meta'[i][w].valid /\ ~meta'[i][w].dirty =>
            \A o \in Offset : ram'[i][w][o] = mem'[meta'[i][w].tag][i][o]
      BY <3>1 DEF IInv, CleanLinesMatchMemory
    <3>3. QED BY <2>0, <3>2, <1>2, <1>4
  <2>3. ASSUME NEW t \in Tag, NEW i \in Index, NEW o \in Offset
        PROVE  View'[t][i][o] = View[t][i][o]
    <3>1. CASE t = req.tag /\ i = k
      <4>1. View'[t][i][o] = ram'[k][p][o]
        <5>1. \A v \in Way : LiveHit(t, i, v)' => View'[t][i][o] = ram'[i][v][o]
          BY <1>3 DEF ViewFacts
        <5>2. QED BY <2>0, <2>1, <3>1, <5>1, <1>2
      <4>2. View[t][i][o] = mem[t][i][o]
        BY <3>1, <1>3, <1>6 DEF ViewFacts, LiveHit, Live
      <4>3. QED BY <3>1, <4>1, <4>2, <2>2
    <3>2. CASE t # req.tag \/ i # k
      <4>1. \A v \in Way : LiveHit(t, i, v)' = LiveHit(t, i, v)
        <5>1. ASSUME NEW v \in Way, i = k, v = p
              PROVE  LiveHit(t, i, v)' = LiveHit(t, i, v)
          <6>1. LiveHit(t, i, v) = FALSE
            BY <5>1, <1>1 DEF LiveHit, Live, Refilling
          <6>2. t # req.tag
            BY <5>1, <3>2
          <6>3. LiveHit(t, i, v)' = FALSE
            BY <6>2, <5>1, <2>0, <2>1
          <6>4. QED BY <6>1, <6>3
        <5>2. ASSUME NEW v \in Way, i # k \/ v # p
              PROVE  LiveHit(t, i, v)' = LiveHit(t, i, v)
          <6>1. meta'[i][v] = meta[i][v] /\ ~Refilling(i, v)
            BY <5>2, <1>5 DEF Refilling
          <6>2. LiveHit(t, i, v)' = (meta'[i][v].valid /\ meta'[i][v].tag = t)
            BY <2>1
          <6>3. LiveHit(t, i, v) = (meta[i][v].valid /\ meta[i][v].tag = t)
            BY <6>1 DEF LiveHit, Live
          <6>4. QED BY <6>1, <6>2, <6>3
        <5>3. QED BY <5>1, <5>2
      <4>2. CASE \E v \in Way : LiveHit(t, i, v)
        <5>1. PICK v \in Way : LiveHit(t, i, v)
          BY <4>2
        <5>2. View'[t][i][o] = ram'[i][v][o] /\ View[t][i][o] = ram[i][v][o]
          BY <4>1, <5>1, <1>3 DEF ViewFacts
        <5>3. i # k \/ v # p
          BY <5>1, <1>1 DEF LiveHit, Live, Refilling
        <5>4. QED BY <5>2, <5>3, <1>5
      <4>3. CASE \A v \in Way : ~LiveHit(t, i, v)
        BY <4>1, <4>3, <1>3, <1>4 DEF ViewFacts
      <4>4. QED BY <4>2, <4>3
    <3>3. QED BY <3>1, <3>2
  <2>4. View' = View
    BY <2>3, ViewKept
  <2>5. View[req.tag][k][req.offset] = ram'[k][p][req.offset]
    <3>1. \A v \in Way : ~LiveHit(req.tag, k, v)
      BY <1>6 DEF LiveHit, Live
    <3>2. View[req.tag][k][req.offset] = mem[req.tag][k][req.offset]
      BY <3>1, <1>2, <1>3 DEF ViewFacts
    <3>3. QED BY <3>2, <2>2, <1>2
  <2>6. dresp'.data_ok /\ dresp'.data = ram'[k][p][req.offset]
    BY <1>1, <1>2, <1>8 DEF dresp
  <2>7. Phase = "accepted" /\ Phase' = "answered"
    BY <1>1, <2>0 DEF Phase
  <2>8. QED BY <1>1, <2>4, <2>5, <2>6, <2>7 DEF Abs!Answer, Abs!WordAt
<1>9. QED BY <1>7, <1>8

\* READY writes the line that shows the word asked for, and no other.
LEMMA ServeRefines ==
  ASSUME IInv, IInv', Serve, UNCHANGED devVars
  PROVE  Abs!Retire
<1> DEFINE k == req.index
           p == Position
           m == Merge(ram[k][p][cur], req.data, req.strobe)
<1>1. /\ state = "READY" /\ state' = "IDLE" /\ req' = req /\ mem' = mem
      /\ ram' = [ram EXCEPT ![k][p][cur] = m]
  BY DEF Serve, devVars
<1>2. /\ k \in Index /\ p \in Way /\ cur \in Offset /\ req.tag \in Tag
      /\ req.offset \in Offset /\ req.data \in Word /\ req.strobe \in SUBSET Lane
      /\ ram \in [Index -> [Way -> [Offset -> Word]]]
      /\ meta \in [Index -> [Way -> Meta]] /\ meta' \in [Index -> [Way -> Meta]]
  BY PositionLemma DEF IInv, TypeOK, CacheTypeOK, DBusReq
<1>3. m \in Word
  <2>1. ram[k][p][cur] \in Word
    BY <1>2
  <2>2. QED BY <2>1, <1>2, MergeLemma
<1>4. cur = req.offset /\ LiveHit(req.tag, k, p)
  BY <1>1 DEF IInv, ReadyInv, LiveHit, Live, Refilling
<1>5. /\ ViewFacts /\ ViewFacts'
      /\ View \in [Tag -> [Index -> [Offset -> Word]]]
      /\ View' \in [Tag -> [Index -> [Offset -> Word]]]
  BY ViewLemma, ViewLemmaNext DEF ViewFacts
<1>6. m = Merge(View[req.tag][k][req.offset], req.data, req.strobe)
  <2>1. View[req.tag][k][req.offset] = ram[k][p][req.offset]
    BY <1>2, <1>4, <1>5 DEF ViewFacts
  <2>2. QED BY <2>1, <1>4
<1> HIDE DEF m
<1>7. /\ ram'[k][p][cur] = m
      /\ \A j \in Index, v \in Way, o \in Offset :
           (j # k \/ v # p \/ o # cur) => ram'[j][v][o] = ram[j][v][o]
  BY <1>1, <1>2, <1>3, WordUpdate
<1>8. \A j \in Index, v \in Way :
        meta'[j][v].tag = meta[j][v].tag /\ meta'[j][v].valid = meta[j][v].valid
  <2>1. CASE req.strobe = {}
    BY <2>1 DEF Serve
  <2>2. CASE req.strobe # {}
    <3>1. meta' = [meta EXCEPT ![k] = [meta[k] EXCEPT ![p] = [meta[k][p] EXCEPT !.dirty = TRUE]]]
      BY <2>2 DEF Serve
    <3>2. \A j \in Index, v \in Way : meta[j][v] \in Meta
      BY <1>2
    <3>3. QED BY <3>1, <3>2, <1>2 DEF Meta
  <2>3. QED BY <2>1, <2>2
<1>9. \A t \in Tag, i \in Index, v \in Way : LiveHit(t, i, v)' <=> LiveHit(t, i, v)
  BY <1>1, <1>8 DEF LiveHit, Live, Refilling
<1>10. ASSUME NEW t \in Tag, NEW i \in Index, NEW o \in Offset,
              t # req.tag \/ i # k \/ o # req.offset
       PROVE  View'[t][i][o] = View[t][i][o]
  <2>1. CASE \E v \in Way : LiveHit(t, i, v)
    <3>1. PICK v \in Way : LiveHit(t, i, v)
      BY <2>1
    <3>2. LiveHit(t, i, v)'
      BY <3>1, <1>9
    <3>3. View'[t][i][o] = ram'[i][v][o] /\ View[t][i][o] = ram[i][v][o]
      BY <3>1, <3>2, <1>5 DEF ViewFacts
    <3>4. i # k \/ v # p \/ o # cur
      BY <3>1, <1>4, <1>10 DEF LiveHit
    <3>5. QED BY <3>3, <3>4, <1>7
  <2>2. CASE \A v \in Way : ~LiveHit(t, i, v)
    <3>1. \A v \in Way : ~LiveHit(t, i, v)'
      BY <2>2, <1>9
    <3>2. View'[t][i][o] = mem'[t][i][o]
      BY <3>1, <1>5 DEF ViewFacts
    <3>3. View[t][i][o] = mem[t][i][o]
      BY <2>2, <1>5 DEF ViewFacts
    <3>4. mem' = mem
      BY <1>1
    <3>5. QED BY <3>2, <3>3, <3>4
  <2>3. QED BY <2>1, <2>2
<1>11. View'[req.tag][k][req.offset] = m
  <2>1. \A t \in Tag, i \in Index, o \in Offset : LiveHit(t, i, p) =>
          View'[t][i][o] = ram'[i][p][o]
    <3>1. \A t \in Tag, i \in Index, o \in Offset : LiveHit(t, i, p)' =>
            View'[t][i][o] = ram'[i][p][o]
      <4>1. \A t \in Tag, i \in Index, o \in Offset, v \in Way : LiveHit(t, i, v)' =>
              View'[t][i][o] = ram'[i][v][o]
        BY <1>5 DEF ViewFacts
      <4>2. p \in Way
        BY <1>2
      <4>3. Position' = p
        BY DEF Serve, Position
      <4>4. QED BY <4>1, <4>2, <4>3
    <3>2. Position' = p
      BY DEF Serve, Position
    <3>3. QED BY <3>1, <3>2, <1>2, <1>9
  <2>2. View'[req.tag][k][req.offset] = ram'[k][p][req.offset]
    BY <2>1, <1>2, <1>4
  <2>3. QED BY <2>2, <1>4, <1>7
<1>12. View' = [View EXCEPT ![req.tag][k][req.offset] =
                              Merge(@, req.data, req.strobe)]
  <2> HIDE DEF View
  <2>0. PICK g : g = [View EXCEPT ![req.tag][k][req.offset] = m]
    OBVIOUS
  <2>1. /\ g \in [Tag -> [Index -> [Offset -> Word]]]
        /\ g[req.tag][k][req.offset] = m
        /\ \A t \in Tag, i \in Index, o \in Offset :
             (t # req.tag \/ i # k \/ o # req.offset) => g[t][i][o] = View[t][i][o]
    <3>1. View \in [Tag -> [Index -> [Offset -> Word]]]
      BY <1>5
    <3>2. QED BY <2>0, <3>1, <1>2, <1>3, WordUpdate
  <2>2. \A t \in Tag, i \in Index, o \in Offset : View'[t][i][o] = g[t][i][o]
    BY <1>10, <1>11, <2>1
  <2>3. View' = g
    BY <1>5, <2>1, <2>2, Extensional
  <2>4. QED BY <2>0, <2>3, <1>6
<1>13. /\ Phase = "answered" /\ Phase' = "free" /\ ~dresp'.data_ok
  BY <1>1 DEF Phase, dresp
<1>14. QED BY <1>1, <1>12, <1>13 DEF Abs!Retire, Abs!Merge, Merge

\* After reset no line is valid and the memory is zero.
LEMMA InitRefines == Init => Abs!AbsInit
<1> SUFFICES ASSUME Init PROVE Abs!AbsInit
  OBVIOUS
<1>1. \A i \in Index, t \in Tag : Hits(i, t) = {}
  BY DEF Init, CacheInit, Hits
<1>2. View = [t \in Tag |-> [i \in Index |-> [o \in Offset |-> ZeroWord]]]
  BY <1>1 DEF View, Init, DeviceInit
<1>3. Phase = "free" /\ ~dresp.data_ok
  BY DEF Init, CacheInit, Phase, dresp
<1>4. req \in DBusReq
  BY InitInv DEF IInv, TypeOK, CacheTypeOK
<1>5. QED BY <1>2, <1>3, <1>4 DEF Abs!AbsInit, ZeroWord, Abs!ZeroWord, Offset, Abs!Offset,
            Word, Abs!Word, DBusReq, Abs!DBusReq

\* Every clock edge is a step of the flat memory or is invisible to the client.
LEMMA NextRefines == IInv /\ IInv' /\ [Next]_vars => [Abs!AbsNext]_(Abs!absVars)
<1> SUFFICES ASSUME IInv, IInv', [Next]_vars
             PROVE  Abs!AbsNext \/ UNCHANGED Abs!absVars
  OBVIOUS
<1>1. CASE UNCHANGED vars
  <2>1. /\ state' = state /\ order' = order /\ meta' = meta /\ ram' = ram /\ req' = req
        /\ cur' = cur /\ mem' = mem
    BY <1>1 DEF vars, cacheVars, devVars
  <2>2. View' = View /\ Phase' = Phase /\ dresp' = dresp
    BY <2>1 DEF View, Phase, dresp, Position, Hits, Refilling
  <2>3. QED BY <2>1, <2>2 DEF Abs!absVars
<1>2. ASSUME NEW resp \in CBusResp, Cycle(resp)
      PROVE  Abs!AbsNext \/ UNCHANGED Abs!absVars
  <2>1. DeviceCycle(dcreq, resp)
    BY <1>2 DEF Cycle
  <2>2. ASSUME NEW rq \in Requests, Accept(rq), UNCHANGED devVars
        PROVE  Abs!AbsNext
    BY <2>2, RequestsAssumption, AcceptRefines DEF Abs!AbsNext
  <2>3. CASE Serve /\ UNCHANGED devVars
    BY <2>3, ServeRefines DEF Abs!AbsNext
  <2>4. CASE Flush(resp)
    BY <2>1, <2>4, FlushRefines
  <2>5. CASE Fetch(resp)
    BY <2>1, <2>5, FetchRefines DEF Abs!AbsNext
  <2>6. QED BY <1>2, <2>2, <2>3, <2>4, <2>5, CycleCases
<1>3. QED BY <1>1, <1>2 DEF Next

\* The cache implements the flat memory: its client gets the last word stored at every
\* address, over every sequence of hits, evictions and refills of DCache.sv.
THEOREM Refinement == Spec => Transparent
<1>1. Init => Abs!AbsInit
  BY InitRefines
<1>2. IInv /\ IInv' /\ [Next]_vars => [Abs!AbsNext]_(Abs!absVars)
  BY NextRefines
<1>3. QED BY <1>1, <1>2, Invariance, PTL DEF Spec, Transparent, Abs!AbsSpec
===============================================================================
