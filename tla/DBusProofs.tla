------------------------------ MODULE DBusProofs ------------------------------
(***************************************************************************)
(* Proofs about what a client of the DBus sees through two of its slaves:  *)
(* the data side of the core, where the address selects between the cache  *)
(* and the bus (DataPort), and the one-line buffer under the pipelined     *)
(* driver of the tests (DBusPipeline).                                     *)
(*                                                                         *)
(* What the cache does in a cycle that is its own is taken from the proofs *)
(* about CacheSystem, whose Requests and NoData play no part here.         *)
(***************************************************************************)
EXTENDS MCTargets, CacheSystemProofs, SequenceTheorems

\* The invariant of the cache and the device, without their common burst.
LinesInv ==
  /\ TypeOK
  /\ OrderIsPermutation
  /\ NoDuplicateLines
  /\ DirtyIsValid
  /\ CleanLinesMatchMemory
  /\ FlushInv
  /\ FetchInv
  /\ ReadyInv

\* The transaction on the bus belongs to the side that is selected, and the cache works on
\* nothing but the access the core is still holding.
SideInv ==
  /\ port \in Ports
  /\ port.kseg1 => state = "IDLE"
  /\ state # "IDLE" => port.valid /\ req = port.req
  /\ ~port.kseg1 => BurstInv
  /\ port.kseg1 /\ tx.busy => port.valid /\ tx = NewTx(UncachedReq)

CachedTags == {r.tag : r \in CachedRequests}

\* No word reached through kseg1 is ever in the cache.
LinesAreCached ==
  \A i \in Index : \A w \in Way : meta[i][w].valid => meta[i][w].tag \in CachedTags

\* The program's memory is what the cache and the device hold between them.
ProgramView == flat = View /\ answer.data = answer.expect

PortInv ==
  /\ LinesInv
  /\ SideInv
  /\ LinesAreCached
  /\ ProgramView

-------------------------------------------------------------------------------
\* What the two sides start from: the cache's whole invariant while it is selected, and a
\* request it may take.
LEMMA PortFacts ==
  ASSUME PortInv
  PROVE  /\ port.valid \in BOOLEAN /\ port.kseg1 \in BOOLEAN
         /\ ~port.kseg1 => IInv
         /\ port.valid /\ ~port.kseg1 => port.req \in CachedRequests /\ port.req \in DBusReq
         /\ port.valid /\ port.kseg1  => port.req \in UncachedRequests /\ port.req \in DBusReq
<1>1. port \in Ports /\ (~port.kseg1 => BurstInv)
  BY DEF PortInv, SideInv
<1>2. /\ port.valid \in BOOLEAN /\ port.kseg1 \in BOOLEAN
      /\ port.valid /\ ~port.kseg1 => port.req \in CachedRequests
      /\ port.valid /\ port.kseg1  => port.req \in UncachedRequests
  BY <1>1 DEF Ports
<1>3. ~port.kseg1 => IInv
  BY <1>1 DEF PortInv, LinesInv, IInv
<1>4. QED BY <1>2, <1>3, PortAssumption

\* When an access is done, or there was none, both sides are at rest and the core may
\* drive any address next.
LEMMA FreePort ==
  ASSUME state' = "IDLE", ~tx'.busy, port' \in Ports
  PROVE  SideInv'
BY DEF SideInv, BurstInv

\* A cycle of the cache in which the core waits.
LEMMA CachedWait ==
  ASSUME PortInv, ~port.kseg1, port.valid, IInv', Waiting, View' = View, req' = port.req,
         \A i \in Index : \A w \in Way : meta'[i][w].valid => meta'[i][w].tag \in CachedTags
  PROVE  PortInv'
<1>1. port' = port /\ flat' = flat /\ answer' = NoAnswer
  BY DEF Waiting
<1>2. SideInv'
  BY <1>1 DEF PortInv, SideInv, IInv
<1>3. ProgramView'
  BY <1>1 DEF PortInv, ProgramView, NoAnswer
<1>4. QED BY <1>2, <1>3 DEF PortInv, LinesInv, IInv, LinesAreCached

\* Without a transaction or a request for one the device does nothing.
LEMMA DeviceIdle ==
  ASSUME NEW creq, NEW resp, DeviceCycle(creq, resp), ~tx.busy, ~creq.valid
  PROVE  UNCHANGED devVars
BY DEF DeviceCycle, DeviceStall, DeviceEnabled, DeviceStart, DeviceBeat

\* IDLE: the cache takes the access the core drives.
LEMMA CachedAccept ==
  ASSUME PortInv, ~port.kseg1, port.valid, NEW resp \in CBusResp, PortCycle(resp),
         Accept(port.req)
  PROVE  PortInv'
<1>1. IInv /\ port.req \in DBusReq
  BY PortFacts
<1>2. state = "IDLE" /\ req' = port.req /\ meta' = meta
  BY DEF Accept
<1>3. UNCHANGED devVars
  <2>1. ~tx.busy /\ ~dcreq.valid
    BY <1>1, <1>2 DEF IInv, BurstInv, dcreq
  <2>2. DeviceCycle(dcreq, resp)
    BY DEF PortCycle, PortReq
  <2>3. QED BY <2>1, <2>2, DeviceIdle
<1>4. IInv'
  BY <1>1, <1>3, AcceptStep
<1>5. View' = View
  BY <1>1, <1>3, <1>4, AcceptRefines DEF Abs!Take
<1>6. Waiting
  BY <1>2 DEF PortCycle, DataOkay, dresp
<1>7. \A i \in Index : \A w \in Way : meta'[i][w].valid => meta'[i][w].tag \in CachedTags
  BY <1>2 DEF PortInv, LinesAreCached
<1>8. QED BY <1>2, <1>4, <1>5, <1>6, <1>7, CachedWait

\* FLUSH: the victim is written back, which the program does not see.
LEMMA CachedFlush ==
  ASSUME PortInv, ~port.kseg1, port.valid, NEW resp \in CBusResp, PortCycle(resp), Flush(resp)
  PROVE  PortInv'
<1>1. IInv
  BY PortFacts
<1>2. state = "FLUSH" /\ req' = req /\ meta' = meta
  BY DEF Flush
<1>3. DeviceCycle(dcreq, resp)
  BY DEF PortCycle, PortReq
<1>4. IInv'
  BY <1>1, <1>3, FlushStep
<1>5. View' = View
  BY <1>1, <1>3, <1>4, FlushRefines DEF Abs!absVars
<1>6. Waiting
  BY <1>2 DEF PortCycle, DataOkay, dresp
<1>7. \A i \in Index : \A w \in Way : meta'[i][w].valid => meta'[i][w].tag \in CachedTags
  BY <1>2 DEF PortInv, LinesAreCached
<1>8. req' = port.req
  BY <1>2 DEF PortInv, SideInv
<1>9. QED BY <1>4, <1>5, <1>6, <1>7, <1>8, CachedWait

\* FETCH: the line that becomes valid is one the core asked for through the cache.
LEMMA CachedFetch ==
  ASSUME PortInv, ~port.kseg1, port.valid, NEW resp \in CBusResp, PortCycle(resp), Fetch(resp)
  PROVE  PortInv'
<1>1. IInv /\ port.req \in CachedRequests
  BY PortFacts
<1>2. state = "FETCH" /\ req' = req
  BY DEF Fetch
<1>3. DeviceCycle(dcreq, resp)
  BY DEF PortCycle, PortReq
<1>4. IInv'
  BY <1>1, <1>3, FetchStep
<1>5. View' = View
  BY <1>1, <1>3, <1>4, FetchRefines DEF Abs!absVars, Abs!Answer
<1>6. Waiting
  BY <1>2 DEF PortCycle, DataOkay, dresp
<1>7. req = port.req /\ req' = port.req
  BY <1>2 DEF PortInv, SideInv
<1>8. req.tag \in CachedTags
  BY <1>1, <1>7 DEF CachedTags
<1>9. \A i \in Index : \A w \in Way : meta'[i][w].valid => meta'[i][w].tag \in CachedTags
  <2> DEFINE m == [tag |-> req.tag, valid |-> TRUE, dirty |-> FALSE]
  <2>1. \A i \in Index : \A w \in Way : meta[i][w].valid => meta[i][w].tag \in CachedTags
    BY DEF PortInv, LinesAreCached
  <2>2. CASE meta' = meta
    BY <2>1, <2>2
  <2>3. CASE meta' = [meta EXCEPT ![req.index][Position] = m]
    <3>1. /\ req.index \in Index /\ Position \in Way /\ m \in Meta
          /\ meta \in [Index -> [Way -> Meta]]
      BY <1>1, PositionLemma DEF IInv, TypeOK, CacheTypeOK, Meta
    <3>2. /\ meta'[req.index][Position] = m
          /\ \A x \in Index, y \in Way :
               (x # req.index \/ y # Position) => meta'[x][y] = meta[x][y]
      BY <2>3, <3>1, MetaUpdate
    <3>3. QED BY <1>8, <2>1, <3>2
  <2>4. QED BY <2>2, <2>3 DEF Fetch
<1>10. QED BY <1>4, <1>5, <1>6, <1>7, <1>9, CachedWait

\* READY: the answer is the word the program expects, and a store changes no other word.
LEMMA CachedServe ==
  ASSUME PortInv, ~port.kseg1, port.valid, NEW resp \in CBusResp, PortCycle(resp), Serve
  PROVE  PortInv'
<1> DEFINE r == port.req
           p == Position
<1>1. IInv /\ r \in DBusReq
  BY PortFacts
<1>2. state = "READY" /\ state' = "IDLE" /\ req' = req
  BY DEF Serve
<1>3. req = r
  BY <1>2 DEF PortInv, SideInv
<1>4. ~tx.busy /\ UNCHANGED devVars
  <2>1. ~tx.busy /\ ~dcreq.valid
    BY <1>1, <1>2 DEF IInv, BurstInv, dcreq
  <2>2. DeviceCycle(dcreq, resp)
    BY DEF PortCycle, PortReq
  <2>3. QED BY <2>1, <2>2, DeviceIdle
<1>5. IInv'
  BY <1>1, <1>4, ServeStep
<1>6. View' = [View EXCEPT ![r.tag][r.index][r.offset] = Merge(@, r.data, r.strobe)]
  <2>1. Abs!Retire
    BY <1>1, <1>4, <1>5, ServeRefines
  <2>2. View' = [View EXCEPT ![req.tag][req.index][req.offset] = Merge(@, req.data, req.strobe)]
    BY <2>1 DEF Abs!Retire, Abs!Merge, Merge
  <2>3. QED BY <1>3, <2>2
<1>7. Done(resp) /\ dresp.data_ok
  BY <1>2 DEF PortCycle, DataOkay, dresp
<1>8. flat = View
  BY DEF PortInv, ProgramView
<1>9. flat' = View'
  BY <1>6, <1>7, <1>8 DEF Done
<1>10. answer'.data = answer'.expect
  <2>1. /\ r.tag \in Tag /\ r.index \in Index /\ r.offset \in Offset
        /\ p \in Way /\ p = order[r.index][MRU] /\ cur = r.offset
        /\ meta[r.index][p].valid /\ meta[r.index][p].tag = r.tag
    BY <1>1, <1>2, <1>3, PositionLemma DEF IInv, ReadyInv, Position
  <2>2. LiveHit(r.tag, r.index, p)
    BY <1>2, <2>1 DEF LiveHit, Live, Refilling
  <2>3. View[r.tag][r.index][r.offset] = ram[r.index][p][cur]
    BY <1>1, <2>1, <2>2, ViewLemma DEF ViewFacts
  <2>4. PortData(resp) = flat[r.tag][r.index][r.offset]
    BY <1>3, <1>8, <2>3 DEF PortData, dresp
  <2>5. QED BY <1>7, <2>4 DEF Done, NoAnswer
<1>11. port' \in Ports
  BY <1>7 DEF Done
<1>12. SideInv'
  BY <1>2, <1>4, <1>11, FreePort DEF devVars
<1>13. LinesAreCached'
  <2> DEFINE m == [meta[req.index][p] EXCEPT !.dirty = TRUE]
  <2>1. \A i \in Index : \A w \in Way : meta[i][w].valid => meta[i][w].tag \in CachedTags
    BY DEF PortInv, LinesAreCached
  <2>2. CASE meta' = meta
    BY <2>1, <2>2 DEF LinesAreCached
  <2>3. CASE meta' = [meta EXCEPT ![req.index][p].dirty = TRUE]
    <3>1. /\ req.index \in Index /\ p \in Way /\ meta \in [Index -> [Way -> Meta]]
      BY <1>1, PositionLemma DEF IInv, TypeOK, CacheTypeOK
    <3>2. m \in Meta /\ m.valid = meta[req.index][p].valid /\ m.tag = meta[req.index][p].tag
      <4>1. meta[req.index][p] \in Meta
        BY <3>1
      <4>2. QED BY <4>1 DEF Meta
    <3>3. meta' = [meta EXCEPT ![req.index][p] = m]
      BY <2>3, <3>1
    <3>4. /\ meta'[req.index][p] = m
          /\ \A x \in Index, y \in Way :
               (x # req.index \/ y # p) => meta'[x][y] = meta[x][y]
      BY <3>1, <3>2, <3>3, MetaUpdate
    <3>5. ASSUME NEW x \in Index, NEW y \in Way, meta'[x][y].valid
          PROVE  meta'[x][y].tag \in CachedTags
      <4>1. CASE x = req.index /\ y = p
        <5>1. meta'[x][y] = m
          BY <3>4, <4>1
        <5>2. meta[req.index][p].valid
          BY <3>2, <3>5, <5>1
        <5>3. meta[req.index][p].tag \in CachedTags
          BY <2>1, <3>1, <5>2
        <5>4. QED BY <3>2, <5>1, <5>3
      <4>2. CASE x # req.index \/ y # p
        BY <2>1, <3>4, <3>5, <4>2
      <4>3. QED BY <4>1, <4>2
    <3>6. QED BY <3>5 DEF LinesAreCached
  <2>4. QED BY <2>2, <2>3 DEF Serve
<1>14. ProgramView'
  BY <1>9, <1>10 DEF ProgramView
<1>15. QED BY <1>5, <1>12, <1>13, <1>14 DEF PortInv, LinesInv, IInv

-------------------------------------------------------------------------------
\* The cycles that leave the cache, its lines and the memory as they are.
LEMMA LinesKept ==
  ASSUME PortInv, UNCHANGED <<cacheVars, mem>>, tx' \in Transaction
  PROVE  LinesInv' /\ LinesAreCached' /\ View' = View
<1>1. /\ state' = state /\ order' = order /\ meta' = meta /\ ram' = ram /\ req' = req
      /\ cur' = cur /\ mem' = mem
  BY DEF cacheVars
<1>2. /\ Position' = Position /\ Hits(req.index, req.tag)' = Hits(req.index, req.tag)
      /\ \A i \in Index : \A w \in Way : Live(i, w)' = Live(i, w)
  BY <1>1 DEF Position, Hits, Live, Refilling
<1>3. View' = View
  BY <1>1 DEF View, Hits, Refilling, Position
<1>4. TypeOK' /\ OrderIsPermutation' /\ NoDuplicateLines' /\ DirtyIsValid'
  BY <1>1 DEF PortInv, LinesInv, TypeOK, CacheTypeOK, DeviceTypeOK, OrderIsPermutation,
              NoDuplicateLines, DirtyIsValid
<1>5. CleanLinesMatchMemory'
  BY <1>1, <1>2 DEF PortInv, LinesInv, CleanLinesMatchMemory
<1>6. FlushInv' /\ FetchInv' /\ ReadyInv'
  BY <1>1, <1>2 DEF PortInv, LinesInv, FlushInv, FetchInv, ReadyInv
<1>7. LinesAreCached'
  BY <1>1 DEF PortInv, LinesAreCached
<1>8. QED BY <1>3, <1>4, <1>5, <1>6, <1>7 DEF LinesInv

\* A cycle in which the core drives no access: nothing is in progress on either side.
LEMMA UnusedStep ==
  ASSUME PortInv, ~port.valid, NEW resp \in CBusResp, PortCycle(resp)
  PROVE  PortInv'
<1>1. state = "IDLE" /\ ~tx.busy
  BY PortFacts DEF PortInv, SideInv, BurstInv
<1>2. UNCHANGED cacheVars
  BY <1>1 DEF PortCycle, PortCacheCycle, Flush, Fetch, Serve
<1>3. ~PortReq.valid
  BY <1>1 DEF PortReq, UncachedReq, dcreq
<1>4. UNCHANGED devVars
  BY <1>1, <1>3, DeviceIdle DEF PortCycle
<1>5. Unused
  BY DEF PortCycle
<1>6. LinesInv' /\ LinesAreCached' /\ View' = View
  BY <1>2, <1>4, LinesKept DEF devVars, PortInv, LinesInv, TypeOK, DeviceTypeOK
<1>7. SideInv'
  BY <1>1, <1>2, <1>4, <1>5, FreePort DEF Unused, cacheVars, devVars
<1>8. ProgramView'
  BY <1>5, <1>6 DEF Unused, NoAnswer, PortInv, ProgramView
<1>9. QED BY <1>6, <1>7, <1>8 DEF PortInv

\* DBusToCBus: a cycle in which the device does nothing, or starts the core's access.
LEMMA DirectWait ==
  ASSUME PortInv, port.kseg1, port.valid, UNCHANGED <<cacheVars, mem>>, Waiting,
         tx' = tx \/ (~tx.busy /\ tx' = NewTx(UncachedReq))
  PROVE  PortInv'
<1>1. port' = port /\ flat' = flat /\ answer' = NoAnswer
  BY DEF Waiting
<1>2. state = "IDLE" /\ state' = "IDLE"
  BY DEF PortInv, SideInv, cacheVars
<1>3. tx' \in Transaction
  <2>1. port.req \in DBusReq /\ tx \in Transaction
    BY PortFacts DEF PortInv, LinesInv, TypeOK, DeviceTypeOK
  <2>2. port.req.tag \in Tag /\ port.req.index \in Index /\ port.req.offset \in Offset
    BY <2>1 DEF DBusReq
  <2>3. NewTx(UncachedReq) \in Transaction
    BY <2>2, CBusAssumption DEF NewTx, UncachedReq, Transaction
  <2>4. QED BY <2>1, <2>3
<1>4. LinesInv' /\ LinesAreCached' /\ View' = View
  BY <1>3, LinesKept
<1>5. UncachedReq' = UncachedReq
  BY <1>1 DEF UncachedReq
<1>6. tx'.busy => tx' = NewTx(UncachedReq)
  BY DEF PortInv, SideInv
<1>7. SideInv'
  <2>1. NewTx(UncachedReq)' = NewTx(UncachedReq)
    BY <1>5 DEF NewTx
  <2>2. port \in Ports
    BY DEF PortInv, SideInv
  <2>3. QED BY <1>1, <1>2, <1>6, <2>1, <2>2 DEF SideInv
<1>8. ProgramView'
  BY <1>1, <1>4 DEF NoAnswer, PortInv, ProgramView
<1>9. QED BY <1>4, <1>7, <1>8 DEF PortInv

\* DBusToCBus: the one beat of the access.  No line of the cache has its tag, so the memory
\* is what the program sees there, before the access and after it.
LEMMA DirectBeat ==
  ASSUME PortInv, port.kseg1, port.valid, NEW resp \in CBusResp, PortCycle(resp),
         UNCHANGED cacheVars, DeviceBeat(UncachedReq, resp)
  PROVE  PortInv'
<1> DEFINE r == port.req
           m == Merge(mem[r.tag][r.index][r.offset], r.data, r.strobe)
<1>1. r \in UncachedRequests /\ r \in DBusReq
  BY PortFacts
<1>2. /\ r.tag \in Tag /\ r.index \in Index /\ r.offset \in Offset
      /\ r.data \in Word /\ r.strobe \in SUBSET Lane
  BY <1>1 DEF DBusReq
<1>3. tx.busy /\ tx = NewTx(UncachedReq)
  BY DEF DeviceBeat, PortInv, SideInv
<1>4. /\ tx.is_write = (r.strobe # {}) /\ tx.tag = r.tag /\ tx.index = r.index
      /\ tx.addr = r.offset /\ tx.n = 1 /\ tx.len = 1
  BY <1>3 DEF NewTx, UncachedReq
<1>5. /\ resp.ready /\ resp.last /\ tx' = IdleTx
      /\ r.strobe = {} => resp.data = mem[r.tag][r.index][r.offset] /\ mem' = mem
      /\ r.strobe # {} => mem' = [mem EXCEPT ![r.tag][r.index][r.offset] = m]
  BY <1>4, CBusAssumption DEF DeviceBeat, TxLast, UncachedReq, CBusResp
<1>6. Done(resp)
  BY <1>5 DEF PortCycle, DataOkay
<1>7. TypeOK /\ NoDuplicateLines /\ state = "IDLE" /\ flat = View
  BY DEF PortInv, LinesInv, SideInv, ProgramView
<1>8. /\ state' = state /\ order' = order /\ meta' = meta /\ ram' = ram /\ req' = req
      /\ cur' = cur
  BY DEF cacheVars
<1>9. mem \in [Tag -> [Index -> [Offset -> Word]]] /\ mem[r.tag][r.index][r.offset] \in Word
  BY <1>2, <1>7 DEF TypeOK, DeviceTypeOK
<1>10. /\ m \in Word
       /\ r.strobe = {} => m = mem[r.tag][r.index][r.offset]
  BY <1>2, <1>9, MergeLemma
<1>11. /\ mem' \in [Tag -> [Index -> [Offset -> Word]]]
       /\ mem'[r.tag][r.index][r.offset] = m
       /\ \A t \in Tag, i \in Index, o \in Offset :
            (t # r.tag \/ i # r.index \/ o # r.offset) => mem'[t][i][o] = mem[t][i][o]
  <2>1. CASE r.strobe = {}
    BY <1>5, <1>9, <1>10, <2>1
  <2>2. CASE r.strobe # {}
    <3> HIDE DEF m
    <3>1. mem' = [mem EXCEPT ![r.tag][r.index][r.offset] = m]
      BY <1>5, <2>2
    <3>2. PICK g : g = [mem EXCEPT ![r.tag][r.index][r.offset] = m]
      OBVIOUS
    <3>3. /\ g \in [Tag -> [Index -> [Offset -> Word]]]
          /\ g[r.tag][r.index][r.offset] = m
          /\ \A t \in Tag, i \in Index, o \in Offset :
               (t # r.tag \/ i # r.index \/ o # r.offset) => g[t][i][o] = mem[t][i][o]
      BY <1>2, <1>9, <1>10, <3>2, WordUpdate
    <3>4. QED BY <3>1, <3>2, <3>3
  <2>3. QED BY <2>1, <2>2
<1>12. \A i \in Index : \A w \in Way : meta[i][w].valid => meta[i][w].tag # r.tag
  <2>1. \A c \in CachedRequests : c.tag # r.tag
    BY <1>1, PortAssumption
  <2>2. r.tag \notin CachedTags
    BY <2>1 DEF CachedTags
  <2>3. QED BY <2>2 DEF PortInv, LinesAreCached
<1>13. \A i \in Index : \A w \in Way :
         /\ Live(i, w)' = Live(i, w)
         /\ Live(i, w) => meta[i][w].tag # r.tag /\ meta[i][w].tag \in Tag
  <2>1. \A i \in Index : \A w \in Way : Live(i, w)' = Live(i, w)
    BY <1>7, <1>8 DEF Live, Refilling
  <2>2. \A i \in Index : \A w \in Way : meta[i][w].tag \in Tag
    BY <1>7 DEF TypeOK, CacheTypeOK, Meta
  <2>3. QED BY <1>12, <2>1, <2>2 DEF Live
<1>14. TypeOK'
  <2>1. IdleTx \in Transaction
    BY CBusAssumption DEF IdleTx, Transaction, Offset
  <2>2. QED BY <1>5, <1>7, <1>8, <1>11, <2>1 DEF TypeOK, CacheTypeOK, DeviceTypeOK
<1>15. CleanLinesMatchMemory'
  <2>1. \A i \in Index : \A w \in Way : \A o \in Offset :
          Live(i, w) => mem'[meta[i][w].tag][i][o] = mem[meta[i][w].tag][i][o]
    BY <1>11, <1>13
  <2>2. QED BY <1>8, <1>13, <2>1 DEF PortInv, LinesInv, CleanLinesMatchMemory
<1>16. LinesInv'
  <2>1. OrderIsPermutation' /\ NoDuplicateLines' /\ DirtyIsValid'
    BY <1>8 DEF PortInv, LinesInv, OrderIsPermutation, NoDuplicateLines, DirtyIsValid
  <2>2. FlushInv' /\ FetchInv' /\ ReadyInv'
    BY <1>7, <1>8 DEF FlushInv, FetchInv, ReadyInv
  <2>3. QED BY <1>14, <1>15, <2>1, <2>2 DEF LinesInv
<1>17. LinesAreCached'
  BY <1>8 DEF PortInv, LinesAreCached
<1>18. SideInv'
  BY <1>5, <1>6, <1>7, <1>8, FreePort DEF Done, IdleTx
<1>19. ViewFacts /\ ViewFacts'
  <2>1. ViewFacts
    BY <1>7, ViewOfLines
  <2>2. TypeOK' /\ NoDuplicateLines' => ViewFacts'
    BY ViewOfLines, PTL
  <2>3. QED BY <1>16, <2>1, <2>2 DEF LinesInv
<1>20. \A t \in Tag, i \in Index, o \in Offset :
         View'[t][i][o] = IF t = r.tag /\ i = r.index /\ o = r.offset THEN m ELSE View[t][i][o]
  <2> SUFFICES ASSUME NEW t \in Tag, NEW i \in Index, NEW o \in Offset
               PROVE  View'[t][i][o] = IF t = r.tag /\ i = r.index /\ o = r.offset
                                       THEN m ELSE View[t][i][o]
    OBVIOUS
  <2>1. \A w \in Way : LiveHit(t, i, w)' = LiveHit(t, i, w)
    BY <1>8, <1>13 DEF LiveHit
  <2>2. CASE \E w \in Way : LiveHit(t, i, w)
    <3>1. PICK w \in Way : LiveHit(t, i, w)
      BY <2>2
    <3>2. t # r.tag
      BY <1>13, <3>1 DEF LiveHit
    <3>3. View[t][i][o] = ram[i][w][o]
      BY <1>19, <3>1 DEF ViewFacts
    <3>4. View'[t][i][o] = ram'[i][w][o]
      BY <1>19, <2>1, <3>1 DEF ViewFacts
    <3>5. QED BY <1>8, <3>2, <3>3, <3>4
  <2>3. CASE \A w \in Way : ~LiveHit(t, i, w)
    <3>1. View[t][i][o] = mem[t][i][o]
      BY <1>19, <2>3 DEF ViewFacts
    <3>2. View'[t][i][o] = mem'[t][i][o]
      BY <1>19, <2>1, <2>3 DEF ViewFacts
    <3>3. QED BY <1>11, <3>1, <3>2
  <2>4. QED BY <2>2, <2>3
<1>21. View[r.tag][r.index][r.offset] = mem[r.tag][r.index][r.offset]
  <2>1. \A w \in Way : ~LiveHit(r.tag, r.index, w)
    BY <1>2, <1>13 DEF LiveHit
  <2>2. QED BY <1>2, <1>19, <2>1 DEF ViewFacts
<1>22. flat' = View'
  <2> HIDE DEF m
  <2>1. /\ flat \in [Tag -> [Index -> [Offset -> Word]]]
        /\ View' \in [Tag -> [Index -> [Offset -> Word]]]
    BY <1>7, <1>19 DEF ViewFacts
  <2>2. flat' = [flat EXCEPT ![r.tag][r.index][r.offset] = m]
    BY <1>6, <1>7, <1>21 DEF Done, m
  <2>3. /\ flat' \in [Tag -> [Index -> [Offset -> Word]]]
        /\ flat'[r.tag][r.index][r.offset] = m
        /\ \A t \in Tag, i \in Index, o \in Offset :
             (t # r.tag \/ i # r.index \/ o # r.offset) => flat'[t][i][o] = flat[t][i][o]
    BY <1>2, <1>10, <2>1, <2>2, WordUpdate
  <2>4. \A t \in Tag, i \in Index, o \in Offset : flat'[t][i][o] = View'[t][i][o]
    BY <1>7, <1>20, <2>3
  <2> HIDE DEF View
  <2>5. QED BY <2>1, <2>3, <2>4, Extensional
<1>23. answer'.data = answer'.expect
  BY <1>5, <1>6, <1>7, <1>21 DEF Done, PortData, NoAnswer
<1>24. QED BY <1>16, <1>17, <1>18, <1>22, <1>23 DEF PortInv, ProgramView

\* The core drives an access of kseg1: the cache is at rest, and is not disturbed.
LEMMA DirectStep ==
  ASSUME PortInv, port.kseg1, port.valid, NEW resp \in CBusResp, PortCycle(resp)
  PROVE  PortInv'
<1>1. state = "IDLE"
  BY DEF PortInv, SideInv
<1>2. UNCHANGED cacheVars
  BY <1>1 DEF PortCycle, PortCacheCycle, Flush, Fetch, Serve
<1>3. DeviceCycle(UncachedReq, resp) /\ resp.ready \in BOOLEAN
  BY DEF PortCycle, PortReq, CBusResp
<1>4. CASE ~resp.ready
  <2>1. Waiting
    BY <1>4 DEF PortCycle, DataOkay
  <2>2. mem' = mem /\ (tx' = tx \/ (~tx.busy /\ tx' = NewTx(UncachedReq)))
    BY <1>3, <1>4 DEF DeviceCycle, DeviceStall, DeviceEnabled, DeviceStart, DeviceBeat, devVars
  <2>3. QED BY <1>2, <2>1, <2>2, DirectWait
<1>5. CASE resp.ready
  <2>1. DeviceBeat(UncachedReq, resp)
    BY <1>3, <1>5 DEF DeviceCycle, DeviceStall, DeviceEnabled, DeviceStart
  <2>2. QED BY <1>2, <2>1, DirectBeat
<1>6. QED BY <1>3, <1>4, <1>5

\* The core drives an access of the cache.
LEMMA CachedStep ==
  ASSUME PortInv, ~port.kseg1, port.valid, NEW resp \in CBusResp, PortCycle(resp)
  PROVE  PortInv'
<1>1. Accept(port.req) \/ Flush(resp) \/ Fetch(resp) \/ Serve
  BY DEF PortCycle, PortCacheCycle
<1>2. QED BY <1>1, CachedAccept, CachedFlush, CachedFetch, CachedServe

\* After reset the lines are empty, and the program's memory is the device's.
LEMMA PortInitInv == PortInit => PortInv
<1> SUFFICES ASSUME PortInit PROVE PortInv
  OBVIOUS
<1>1. Init
  BY DEF PortInit, Init
<1>2. IInv /\ Abs!AbsInit
  BY <1>1, InitInv, InitRefines
<1>3. View = mem
  BY <1>1, <1>2 DEF Abs!AbsInit, Abs!Offset, Abs!ZeroWord, Offset, ZeroWord,
                    Init, DeviceInit
<1>4. state = "IDLE" /\ ~tx.busy /\ \A i \in Index : \A w \in Way : ~meta[i][w].valid
  BY <1>1 DEF Init, CacheInit, DeviceInit, IdleTx
<1>5. SideInv
  BY <1>4 DEF PortInit, SideInv, BurstInv
<1>6. LinesInv /\ LinesAreCached
  BY <1>2, <1>4 DEF IInv, LinesInv, LinesAreCached
<1>7. ProgramView
  BY <1>3 DEF PortInit, NoAnswer, ProgramView
<1>8. QED BY <1>5, <1>6, <1>7 DEF PortInv

\* Every cycle of the data side keeps the two sides apart and the two memories together.
LEMMA PortNextInv == PortInv /\ [PortNext]_portVars => PortInv'
<1> SUFFICES ASSUME PortInv, [PortNext]_portVars PROVE PortInv'
  OBVIOUS
<1>1. CASE UNCHANGED portVars
  <2>1. UNCHANGED <<cacheVars, mem>> /\ tx' = tx /\ port' = port /\ flat' = flat /\ answer' = answer
    BY <1>1 DEF portVars, devVars
  <2>2. LinesInv' /\ LinesAreCached' /\ View' = View
    BY <2>1, LinesKept DEF PortInv, LinesInv, TypeOK, DeviceTypeOK
  <2>3. ProgramView'
    BY <2>1, <2>2 DEF PortInv, ProgramView
  <2>4. state' = state /\ req' = req /\ dcreq' = dcreq /\ cur' = cur /\ UncachedReq' = UncachedReq
    BY <2>1 DEF cacheVars, dcreq, Position, UncachedReq
  <2>5. BurstInv' = BurstInv
    BY <2>1, <2>4 DEF BurstInv
  <2>6. NewTx(UncachedReq)' = NewTx(UncachedReq)
    BY <2>4 DEF NewTx
  <2>7. SideInv'
    BY <2>1, <2>4, <2>5, <2>6 DEF PortInv, SideInv
  <2>8. QED BY <2>2, <2>3, <2>7 DEF PortInv
<1>2. ASSUME NEW resp \in CBusResp, PortCycle(resp)
      PROVE  PortInv'
  BY <1>2, PortFacts, CachedStep, DirectStep, UnusedStep
<1>3. QED BY <1>1, <1>2 DEF PortNext

\* The invariant says what the program is promised.
LEMMA PortInvShows == PortInv => LoadsInProgramOrder
<1>1. PortInv /\ port.kseg1 => DeviceAsserts(PortReq)
  BY DEF PortInv, SideInv, DeviceAsserts, PortReq, NewTx, UncachedReq
<1>2. PortInv /\ ~port.kseg1 => DeviceAsserts(PortReq)
  BY DEF PortInv, SideInv, BurstInv, DeviceAsserts, PortReq, dcreq
<1>3. QED BY <1>1, <1>2, PortFacts DEF LoadsInProgramOrder, PortInv, ProgramView

\* Cached and uncached loads return the words last stored in program order, and neither
\* side cuts the other off: the selection by address in VTop.sv is safe.
THEOREM DataSideInOrder == PortSpec => []LoadsInProgramOrder
BY PortInitInv, PortNextInv, PortInvShows, PTL DEF PortSpec

\* The same, of the target as the Makefile builds it among the others.
THEOREM PortTargetInOrder == TargetsSpec => []PortLoadsInOrder
<1>1. TargetsInit => (target = "port" => PortInv)
  BY PortInitInv DEF TargetsInit
<1>2. (target = "port" => PortInv) /\ [TargetsNext]_targetVars => (target = "port" => PortInv)'
  <2> SUFFICES ASSUME target = "port" => PortInv, [TargetsNext]_targetVars, target' = "port"
               PROVE  PortInv'
    OBVIOUS
  <2>1. target' = target
    BY DEF TargetsNext, RunnerTarget, PipeTarget, RAMTarget, BufferTarget, PortTarget,
           ConfregTarget, targetVars
  <2>2. [PortNext]_portVars
    BY <2>1 DEF TargetsNext, RunnerTarget, PipeTarget, RAMTarget, BufferTarget, PortTarget,
                ConfregTarget, targetVars, portVars
  <2>3. QED BY <2>1, <2>2, PortNextInv
<1>3. (target = "port" => PortInv) => PortLoadsInOrder
  BY PortInvShows DEF PortLoadsInOrder
<1>4. QED BY <1>1, <1>2, <1>3, PTL DEF TargetsSpec

-------------------------------------------------------------------------------
(***************************************************************************)
(* StupidBuffer under the pipelined driver.  A burst begins at the         *)
(* requested word and goes round; Distance counts its words.               *)
(***************************************************************************)
Task == [req: DBusReq, data: Word]

Memory == [Tag -> [Index -> [Offset -> Word]]]

Distance(o) == IF o >= held.offset THEN o - held.offset ELSE o - held.offset + LineLen

BufferTypeOK ==
  /\ phase \in {"IDLE", "FETCH", "READY", "FLUSH"}
  /\ held \in DBusReq /\ cursor \in Offset /\ line \in [Offset -> Word]
  /\ mem \in Memory /\ tx \in Transaction
  /\ bus \in [valid: BOOLEAN, req: DBusReq]
  /\ pending \in Seq(Task) /\ ongoing \in Seq(Task)
  /\ expected \in Memory

\* The buffer's burst and the device's transaction are the same transfer.
OneBurst ==
  /\ tx.busy =>
       /\ phase \in {"FETCH", "FLUSH"}
       /\ tx.is_write = (phase = "FLUSH")
       /\ tx.tag = held.tag /\ tx.index = held.index /\ tx.start = held.offset
       /\ tx.addr = cursor /\ tx.n = Distance(cursor) + 1 /\ tx.len = LineLen
  /\ ~tx.busy /\ phase # "IDLE" => cursor = held.offset

\* What of the line and the memory agrees: in FETCH the words that have arrived, in FLUSH
\* those and all but the word of the store.
LineAgrees ==
  \A o \in Offset :
    \/ phase = "IDLE"
    \/ phase = "FETCH" /\ Distance(o) >= Distance(cursor)
    \/ phase = "FLUSH" /\ o = held.offset /\ Distance(o) >= Distance(cursor)
    \/ line[o] = mem[held.tag][held.index][o]

\* The driver's queues follow the buffer: at most one task is accepted and not answered.
QueuesFollow ==
  /\ bus.valid <=> pending # <<>>
  /\ bus.valid => bus.req = Head(pending).req
  /\ IF phase \in {"FETCH", "READY"}
     THEN Len(ongoing) = 1 /\ ongoing[1].req = held
     ELSE ongoing = <<>>

\* Memory as the buffer and the device hold it between them.
Stored == [t \in Tag |-> [i \in Index |-> [o \in Offset |->
            IF phase = "FLUSH" /\ t = held.tag /\ i = held.index THEN line[o] ELSE mem[t][i][o]]]]

Writes(r, t, i, o, l) == r.tag = t /\ r.index = i /\ r.offset = o /\ l \in r.strobe

\* Memory m once request r is done.
AfterStore(m, r) == [m EXCEPT ![r.tag][r.index][r.offset] = Merge(@, r.data, r.strobe)]

\* Byte b is what lane l of a word holds once the first n tasks of q are done on memory m:
\* the last of them that writes the lane has left it, or none does.
LeftBy(q, m, n, t, i, o, l, b) ==
  /\ \A j \in 1 .. n :
       Writes(q[j].req, t, i, o, l) /\ (\A k \in j + 1 .. n : ~Writes(q[k].req, t, i, o, l))
         => b = q[j].req.data[l]
  /\ (\A j \in 1 .. n : ~Writes(q[j].req, t, i, o, l)) => b = m[t][i][o][l]

\* Every task of q carries the word that memory m holds when its turn comes, and e is what
\* m becomes when all are done.
Foreseen(q, m, e) ==
  /\ \A k \in 1 .. Len(q) : \A l \in Lane :
       LeftBy(q, m, k - 1, q[k].req.tag, q[k].req.index, q[k].req.offset, l, q[k].data[l])
  /\ \A t \in Tag, i \in Index, o \in Offset, l \in Lane :
       LeftBy(q, m, Len(q), t, i, o, l, e[t][i][o][l])

BufferInv ==
  /\ BufferTypeOK
  /\ OneBurst
  /\ LineAgrees
  /\ QueuesFollow
  /\ Foreseen(ongoing \o pending, Stored, expected)
-------------------------------------------------------------------------------
\* The words of a burst are counted without a gap, and the last is the one before the first.
LEMMA DistanceLemma ==
  ASSUME BufferTypeOK, NEW o \in Offset
  PROVE  /\ Distance(o) \in 0 .. LineLen - 1
         /\ Distance(o) = 0 <=> o = held.offset
         /\ NextOffset(o) \in Offset
         /\ IF Distance(o) = LineLen - 1 THEN NextOffset(o) = held.offset
                                         ELSE Distance(NextOffset(o)) = Distance(o) + 1
         /\ \A p \in Offset : Distance(p) = Distance(o) => p = o
<1>1. held.offset \in Offset
  BY DEF BufferTypeOK, DBusReq
<1>2. QED BY <1>1, CBusAssumption DEF Distance, NextOffset, Offset

\* What a task leaves depends on the tasks before it alone.
LEMMA LeftByPrefix ==
  ASSUME NEW q, NEW p, NEW m, NEW n \in Nat, NEW t, NEW i, NEW o, NEW l, NEW b,
         \A j \in 1 .. n : p[j] = q[j], LeftBy(q, m, n, t, i, o, l, b)
  PROVE  LeftBy(p, m, n, t, i, o, l, b)
BY DEF LeftBy

\* The first task done, the others leave what they would have left.
LEMMA LeftByTail ==
  ASSUME NEW q, NEW p, NEW m, NEW m2, NEW n \in Nat \ {0}, NEW t, NEW i, NEW o, NEW l, NEW b,
         \A j \in 1 .. n - 1 : p[j] = q[j + 1],
         m2[t][i][o][l] = IF Writes(q[1].req, t, i, o, l) THEN q[1].req.data[l] ELSE m[t][i][o][l],
         LeftBy(q, m, n, t, i, o, l, b)
  PROVE  LeftBy(p, m2, n - 1, t, i, o, l, b)
<1> DEFINE W(j) == Writes(q[j].req, t, i, o, l)
<1>1. /\ \A j \in 1 .. n : W(j) /\ (\A k \in j + 1 .. n : ~W(k)) => b = q[j].req.data[l]
      /\ (\A j \in 1 .. n : ~W(j)) => b = m[t][i][o][l]
  BY DEF LeftBy
<1>2. \A j \in 1 .. n - 1 : Writes(p[j].req, t, i, o, l) = W(j + 1)
  OBVIOUS
<1>3. m2[t][i][o][l] = IF W(1) THEN q[1].req.data[l] ELSE m[t][i][o][l]
  OBVIOUS
<1> HIDE DEF W
<1>4. ASSUME NEW j \in 1 .. n - 1, Writes(p[j].req, t, i, o, l),
             \A k \in j + 1 .. n - 1 : ~Writes(p[k].req, t, i, o, l)
      PROVE  b = p[j].req.data[l]
  <2>1. j + 1 \in 1 .. n /\ W(j + 1) /\ p[j] = q[j + 1]
    BY <1>2, <1>4
  <2>2. ASSUME NEW k \in (j + 1) + 1 .. n PROVE ~W(k)
    <3>1. k - 1 \in j + 1 .. n - 1 /\ k - 1 \in 1 .. n - 1 /\ (k - 1) + 1 = k
      OBVIOUS
    <3>2. QED BY <1>2, <1>4, <3>1
  <2>3. QED BY <1>1, <2>1, <2>2
<1>5. ASSUME \A j \in 1 .. n - 1 : ~Writes(p[j].req, t, i, o, l)
      PROVE  b = m2[t][i][o][l]
  <2>1. ASSUME NEW k \in 2 .. n PROVE ~W(k)
    <3>1. k - 1 \in 1 .. n - 1 /\ (k - 1) + 1 = k
      OBVIOUS
    <3>2. QED BY <1>2, <1>5, <3>1
  <2>2. CASE W(1)
    <3>1. 1 \in 1 .. n /\ \A k \in 1 + 1 .. n : ~W(k)
      BY <2>1
    <3>2. b = q[1].req.data[l]
      BY <1>1, <2>2, <3>1
    <3>3. QED BY <1>3, <2>2, <3>2
  <2>3. CASE ~W(1)
    <3>1. \A j \in 1 .. n : ~W(j)
      BY <2>1, <2>3
    <3>2. QED BY <1>1, <1>3, <2>3, <3>1
  <2>4. QED BY <2>2, <2>3
<1>6. QED BY <1>4, <1>5 DEF LeftBy

\* One lane of a word after a store.
LEMMA LaneAfterStore ==
  ASSUME NEW m \in Memory, NEW r \in DBusReq
  PROVE  /\ AfterStore(m, r) \in Memory
         /\ \A t \in Tag, i \in Index, o \in Offset, l \in Lane :
              AfterStore(m, r)[t][i][o][l] =
                IF Writes(r, t, i, o, l) THEN r.data[l] ELSE m[t][i][o][l]
<1> DEFINE w == Merge(m[r.tag][r.index][r.offset], r.data, r.strobe)
           n == AfterStore(m, r)
<1>1. /\ r.tag \in Tag /\ r.index \in Index /\ r.offset \in Offset
      /\ r.data \in Word /\ r.strobe \in SUBSET Lane
  BY DEF DBusReq
<1>2. m[r.tag][r.index][r.offset] \in Word
  BY <1>1 DEF Memory
<1>3. w \in Word
  BY <1>1, <1>2, MergeLemma
<1>4. \A l \in Lane : w[l] = IF l \in r.strobe THEN r.data[l] ELSE m[r.tag][r.index][r.offset][l]
  BY DEF Merge
<1>5. n = [m EXCEPT ![r.tag][r.index][r.offset] = w]
  BY DEF AfterStore
<1> HIDE DEF w, n
<1>6. m \in [Tag -> [Index -> [Offset -> Word]]]
  BY DEF Memory
<1>7. /\ n \in [Tag -> [Index -> [Offset -> Word]]]
      /\ n[r.tag][r.index][r.offset] = w
      /\ \A x \in Tag, y \in Index, z \in Offset :
           (x # r.tag \/ y # r.index \/ z # r.offset) => n[x][y][z] = m[x][y][z]
  BY <1>1, <1>3, <1>5, <1>6, WordUpdate
<1>8. ASSUME NEW t \in Tag, NEW i \in Index, NEW o \in Offset, NEW l \in Lane
      PROVE  n[t][i][o][l] = IF Writes(r, t, i, o, l) THEN r.data[l] ELSE m[t][i][o][l]
  <2>1. CASE t = r.tag /\ i = r.index /\ o = r.offset
    <3>1. n[t][i][o] = w
      BY <1>7, <2>1
    <3>2. QED BY <1>4, <2>1, <3>1 DEF Writes
  <2>2. CASE ~(t = r.tag /\ i = r.index /\ o = r.offset)
    <3>1. n[t][i][o] = m[t][i][o]
      BY <1>7, <2>2
    <3>2. QED BY <2>2, <3>1 DEF Writes
  <2>3. QED BY <2>1, <2>2
<1>9. QED BY <1>7, <1>8 DEF Memory, n

\* A call of the test: the new task is to be given the word the test expects.
LEMMA ForeseenAppend ==
  ASSUME NEW q \in Seq(Task), NEW m \in Memory, NEW e \in Memory, Foreseen(q, m, e),
         NEW r \in DBusReq
  PROVE  Foreseen(Append(q, [req |-> r, data |-> e[r.tag][r.index][r.offset]]), m,
                  AfterStore(e, r))
<1> DEFINE x == [req |-> r, data |-> e[r.tag][r.index][r.offset]]
           p == Append(q, x)
           n == Len(q)
           f == AfterStore(e, r)
<1>1. r.tag \in Tag /\ r.index \in Index /\ r.offset \in Offset
  BY DEF DBusReq
<1>2. x \in Task /\ x.req = r /\ x.data = e[r.tag][r.index][r.offset]
  BY <1>1 DEF Task, Memory
<1> HIDE DEF x
<1>3. n \in Nat /\ Len(p) = n + 1 /\ p[n + 1] = x /\ \A j \in 1 .. n : p[j] = q[j]
  BY <1>2, AppendProperties, LenProperties
<1>4. \A t \in Tag, i \in Index, o \in Offset, l \in Lane :
        f[t][i][o][l] = IF Writes(r, t, i, o, l) THEN r.data[l] ELSE e[t][i][o][l]
  BY LaneAfterStore
<1> HIDE DEF f
<1>5. \A t \in Tag, i \in Index, o \in Offset, l \in Lane :
        LeftBy(q, m, n, t, i, o, l, e[t][i][o][l])
  BY DEF Foreseen
<1>6. ASSUME NEW k \in 1 .. Len(p), NEW l \in Lane
      PROVE  LeftBy(p, m, k - 1, p[k].req.tag, p[k].req.index, p[k].req.offset, l, p[k].data[l])
  <2>1. CASE k \in 1 .. n
    <3>1. LeftBy(q, m, k - 1, q[k].req.tag, q[k].req.index, q[k].req.offset, l, q[k].data[l])
      BY <2>1 DEF Foreseen
    <3>2. k - 1 \in Nat /\ p[k] = q[k] /\ \A j \in 1 .. k - 1 : p[j] = q[j]
      BY <1>3, <2>1
    <3> HIDE DEF p
    <3>3. QED BY <3>1, <3>2, LeftByPrefix
  <2>2. CASE k = n + 1
    <3>1. LeftBy(q, m, n, r.tag, r.index, r.offset, l, e[r.tag][r.index][r.offset][l])
      BY <1>1, <1>5
    <3>2. p[k] = x /\ k - 1 = n
      BY <1>3, <2>2
    <3> HIDE DEF p, n
    <3>3. LeftBy(p, m, n, r.tag, r.index, r.offset, l, e[r.tag][r.index][r.offset][l])
      BY <1>3, <3>1, LeftByPrefix
    <3>4. QED BY <1>2, <3>2, <3>3
  <2>3. QED BY <1>3, <2>1, <2>2
<1>7. ASSUME NEW t \in Tag, NEW i \in Index, NEW o \in Offset, NEW l \in Lane
      PROVE  LeftBy(p, m, Len(p), t, i, o, l, f[t][i][o][l])
  <2> HIDE DEF p, n
  <2>1. CASE Writes(r, t, i, o, l)
    <3>1. f[t][i][o][l] = r.data[l]
      BY <1>4, <2>1
    <3>2. n + 1 \in 1 .. n + 1 /\ Writes(p[n + 1].req, t, i, o, l)
      BY <1>2, <1>3, <2>1
    <3>3. ASSUME NEW j \in 1 .. n + 1, \A k \in j + 1 .. n + 1 : ~Writes(p[k].req, t, i, o, l)
          PROVE  j = n + 1
      BY <1>3, <3>2, <3>3
    <3>4. QED BY <1>2, <1>3, <3>1, <3>2, <3>3 DEF LeftBy
  <2>2. CASE ~Writes(r, t, i, o, l)
    <3>1. f[t][i][o][l] = e[t][i][o][l]
      BY <1>4, <2>2
    <3>2. LeftBy(p, m, n, t, i, o, l, e[t][i][o][l])
      BY <1>3, <1>5, LeftByPrefix
    <3>3. ~Writes(p[n + 1].req, t, i, o, l)
      BY <1>2, <1>3, <2>2
    <3>4. \A j \in 1 .. n + 1 :
            j = n + 1 \/ (j \in 1 .. n /\ \A k \in j + 1 .. n : k \in j + 1 .. n + 1)
      BY <1>3
    <3>5. \A j \in 1 .. n : j \in 1 .. n + 1
      BY <1>3
    <3>6. QED BY <1>3, <3>1, <3>2, <3>3, <3>4, <3>5 DEF LeftBy
  <2>3. QED BY <2>1, <2>2
<1>8. QED BY <1>6, <1>7 DEF Foreseen, x, f

\* READY: the first task is done, and memory holds what it leaves.
LEMMA ForeseenTail ==
  ASSUME NEW q \in Seq(Task), q # <<>>, NEW m \in Memory, NEW e \in Memory, Foreseen(q, m, e),
         NEW r, r = q[1].req
  PROVE  Foreseen(Tail(q), AfterStore(m, r), e)
<1> DEFINE p == Tail(q)
           n == AfterStore(m, r)
<1>1. /\ Len(q) \in Nat \ {0} /\ Len(p) = Len(q) - 1 /\ \A j \in 1 .. Len(p) : p[j] = q[j + 1]
      /\ q[1] \in Task
  BY HeadTailProperties, LenProperties, EmptySeq, ElementOfSeq
<1> HIDE DEF p
<1>2. r \in DBusReq
  BY <1>1 DEF Task
<1>3. \A t \in Tag, i \in Index, o \in Offset, l \in Lane :
        n[t][i][o][l] = IF Writes(q[1].req, t, i, o, l) THEN q[1].req.data[l] ELSE m[t][i][o][l]
  BY <1>2, LaneAfterStore
<1> HIDE DEF n
<1>4. ASSUME NEW k \in 1 .. Len(p), NEW l \in Lane
      PROVE  LeftBy(p, n, k - 1, p[k].req.tag, p[k].req.index, p[k].req.offset, l, p[k].data[l])
  <2>1. k + 1 \in 1 .. Len(q) /\ p[k] = q[k + 1] /\ k \in Nat \ {0} /\ (k + 1) - 1 = k
    BY <1>1
  <2>2. LeftBy(q, m, k, p[k].req.tag, p[k].req.index, p[k].req.offset, l, p[k].data[l])
    BY <2>1 DEF Foreseen
  <2>3. p[k].req.tag \in Tag /\ p[k].req.index \in Index /\ p[k].req.offset \in Offset
    <3>1. q[k + 1] \in Task
      BY <2>1, ElementOfSeq
    <3>2. QED BY <2>1, <3>1 DEF Task, DBusReq
  <2>4. \A j \in 1 .. k - 1 : p[j] = q[j + 1]
    BY <1>1
  <2> DEFINE t == p[k].req.tag
             i == p[k].req.index
             o == p[k].req.offset
  <2>5. n[t][i][o][l] = IF Writes(q[1].req, t, i, o, l) THEN q[1].req.data[l] ELSE m[t][i][o][l]
    BY <1>3, <2>3
  <2> HIDE DEF t, i, o
  <2>6. LeftBy(q, m, k, t, i, o, l, p[k].data[l])
    BY <2>2 DEF t, i, o
  <2>7. LeftBy(p, n, k - 1, t, i, o, l, p[k].data[l])
    BY <2>1, <2>4, <2>5, <2>6, LeftByTail
  <2>8. QED BY <2>7 DEF t, i, o
<1>5. ASSUME NEW t \in Tag, NEW i \in Index, NEW o \in Offset, NEW l \in Lane
      PROVE  LeftBy(p, n, Len(p), t, i, o, l, e[t][i][o][l])
  <2>1. LeftBy(q, m, Len(q), t, i, o, l, e[t][i][o][l])
    BY DEF Foreseen
  <2>2. \A j \in 1 .. Len(q) - 1 : p[j] = q[j + 1]
    BY <1>1
  <2>3. n[t][i][o][l] = IF Writes(q[1].req, t, i, o, l) THEN q[1].req.data[l] ELSE m[t][i][o][l]
    BY <1>3
  <2>4. LeftBy(p, n, Len(q) - 1, t, i, o, l, e[t][i][o][l])
    BY <1>1, <2>1, <2>2, <2>3, LeftByTail
  <2>5. QED BY <1>1, <2>4
<1>6. QED BY <1>4, <1>5 DEF Foreseen, p, n

-------------------------------------------------------------------------------
\* What buffer and device hold between them is a memory, and its words are these.
LEMMA StoredLemma ==
  BufferTypeOK =>
    /\ Stored \in Memory
    /\ \A t \in Tag, i \in Index, o \in Offset :
         Stored[t][i][o] = IF phase = "FLUSH" /\ t = held.tag /\ i = held.index
                           THEN line[o] ELSE mem[t][i][o]
BY DEF BufferTypeOK, Stored, Memory

\* The same, of the next state.
LEMMA StoredLemmaNext ==
  BufferTypeOK' =>
    /\ Stored' \in Memory
    /\ \A t \in Tag, i \in Index, o \in Offset :
         Stored'[t][i][o] = IF phase' = "FLUSH" /\ t = held'.tag /\ i = held'.index
                            THEN line'[o] ELSE mem'[t][i][o]
BY DEF BufferTypeOK, Stored, Memory

\* Two memories are equal if their words are.
LEMMA SameMemories ==
  ASSUME NEW m \in Memory, NEW n \in Memory,
         \A t \in Tag, i \in Index, o \in Offset : m[t][i][o] = n[t][i][o]
  PROVE  m = n
BY Extensional DEF Memory

\* A cycle without a handshake leaves the driver's queues and wires as they are.
LEMMA QueuesStill ==
  ASSUME BufferTypeOK, QueuesFollow, Queues, ~(AddrOk /\ bus.valid), ~DataOk
  PROVE  pending' = pending /\ ongoing' = ongoing /\ bus' = bus
<1>1. pending' = pending /\ ongoing' = ongoing
  BY DEF Queues
<1>2. bus.valid \in BOOLEAN /\ bus = [valid |-> bus.valid, req |-> bus.req]
  BY DEF BufferTypeOK
<1>3. CASE pending = <<>>
  <2>1. bus' = [bus EXCEPT !.valid = FALSE] /\ ~bus.valid
    BY <1>3 DEF Queues, QueuesFollow
  <2>2. QED BY <1>1, <1>2, <2>1
<1>4. CASE pending # <<>>
  <2>1. bus' = Issue(Head(pending)) /\ bus.valid /\ bus.req = Head(pending).req
    BY <1>4 DEF Queues, QueuesFollow
  <2>2. bus.valid = TRUE
    BY <1>2, <2>1
  <2>3. QED BY <1>1, <1>2, <2>1, <2>2 DEF Issue
<1>5. QED BY <1>3, <1>4

\* A cycle of FETCH or FLUSH: the buffer and the device move on together, and the burst
\* that began at the requested word ends when it would come back to it.
LEMMA BurstStep ==
  ASSUME BufferTypeOK, OneBurst, phase \in {"FETCH", "FLUSH"}, NEW resp \in CBusResp,
         DeviceCycle(BufferReq, resp), held' = held,
         cursor' = IF resp.ready THEN NextOffset(cursor) ELSE cursor,
         phase' = IF resp.ready /\ resp.last THEN (IF phase = "FETCH" THEN "READY" ELSE "IDLE")
                                             ELSE phase
  PROVE  /\ tx' \in Transaction /\ cursor' \in Offset
         /\ OneBurst'
         /\ resp.ready => (resp.last <=> Distance(cursor) = LineLen - 1)
         /\ ~(resp.ready /\ phase = "FLUSH") => mem' = mem
         /\ resp.ready /\ phase = "FLUSH" =>
              mem' = [mem EXCEPT ![held.tag][held.index][cursor] = line[cursor]]
         /\ resp.ready /\ phase = "FETCH" => resp.data = mem[held.tag][held.index][cursor]
<1>1. /\ cursor \in Offset /\ held.tag \in Tag /\ held.index \in Index /\ held.offset \in Offset
      /\ tx \in Transaction /\ LineLen \in Nat \ {0} /\ 0 \in Offset
  BY CBusAssumption DEF BufferTypeOK, DBusReq, Offset
<1>2. /\ Distance(cursor) \in 0 .. LineLen - 1
      /\ Distance(cursor) = 0 <=> cursor = held.offset
      /\ NextOffset(cursor) \in Offset
      /\ IF Distance(cursor) = LineLen - 1 THEN NextOffset(cursor) = held.offset
         ELSE Distance(NextOffset(cursor)) = Distance(cursor) + 1
  BY <1>1, DistanceLemma
<1>3. \A o \in Offset : Distance(o)' = Distance(o)
  BY DEF Distance
<1>4. CASE ~resp.ready
  <2>1. /\ phase' = phase /\ cursor' = cursor /\ mem' = mem
        /\ tx' = tx \/ (~tx.busy /\ tx' = NewTx(BufferReq))
    BY <1>4 DEF DeviceCycle, DeviceStall, DeviceEnabled, DeviceStart, DeviceBeat, devVars
  <2>2. Distance(cursor)' = Distance(cursor)
    BY <2>1 DEF Distance
  <2>3. CASE tx' = tx
    BY <1>1, <1>4, <2>1, <2>2, <2>3 DEF OneBurst
  <2>4. CASE ~tx.busy /\ tx' = NewTx(BufferReq)
    <3>1. cursor = held.offset /\ Distance(cursor) = 0
      BY <1>2, <2>4 DEF OneBurst
    <3>2. /\ tx' = [busy |-> TRUE, is_write |-> phase = "FLUSH", tag |-> held.tag,
                    index |-> held.index, start |-> held.offset, addr |-> held.offset, n |-> 1,
                    len |-> LineLen]
      BY <2>4 DEF NewTx, BufferReq
    <3>3. tx' \in Transaction
      BY <1>1, <3>2 DEF Transaction
    <3>4. OneBurst'
      BY <1>1, <2>1, <2>2, <3>1, <3>2 DEF OneBurst
    <3>5. QED BY <1>1, <1>4, <2>1, <3>3, <3>4
  <2>5. QED BY <2>1, <2>3, <2>4
<1>5. CASE resp.ready
  <2>1. DeviceBeat(BufferReq, resp)
    BY <1>5 DEF DeviceCycle, DeviceStall, DeviceEnabled, DeviceStart
  <2>2. /\ tx.busy /\ tx.is_write = (phase = "FLUSH")
        /\ tx.tag = held.tag /\ tx.index = held.index /\ tx.start = held.offset
        /\ tx.addr = cursor /\ tx.n = Distance(cursor) + 1 /\ tx.len = LineLen
    BY <2>1 DEF DeviceBeat, OneBurst
  <2>3. TxLast <=> Distance(cursor) = LineLen - 1
    BY <1>1, <1>2, <2>2 DEF TxLast
  <2>4. resp.last \in BOOLEAN /\ resp.last = TxLast
    BY <2>1 DEF DeviceBeat, CBusResp
  <2>5. /\ phase = "FETCH" => mem' = mem /\ resp.data = mem[held.tag][held.index][cursor]
        /\ phase = "FLUSH" => mem' = [mem EXCEPT ![held.tag][held.index][cursor] = line[cursor]]
    <3>1. phase = "FETCH" => mem' = mem /\ resp.data = mem[held.tag][held.index][cursor]
      BY <2>1, <2>2 DEF DeviceBeat
    <3>2. Merge(mem[held.tag][held.index][cursor], line[cursor], Lane) = line[cursor]
      <4>1. mem[held.tag][held.index][cursor] \in Word /\ line[cursor] \in Word
        BY <1>1 DEF BufferTypeOK, Memory
      <4>2. QED BY <4>1, MergeLemma
    <3>3. BufferReq.data = line[cursor] /\ BufferReq.strobe = Lane
      BY DEF BufferReq, RData
    <3>4. phase = "FLUSH" =>
            mem' = [mem EXCEPT ![held.tag][held.index][cursor] =
                      Merge(mem[held.tag][held.index][cursor], line[cursor], Lane)]
      BY <2>1, <2>2, <3>3 DEF DeviceBeat
    <3>5. QED BY <3>1, <3>2, <3>4
  <2>6. CASE Distance(cursor) = LineLen - 1
    <3>1. /\ tx' = IdleTx /\ cursor' = held.offset
          /\ phase' = IF phase = "FETCH" THEN "READY" ELSE "IDLE"
      BY <1>2, <1>5, <2>1, <2>3, <2>4, <2>6 DEF DeviceBeat
    <3>2. tx' \in Transaction /\ ~tx'.busy
      BY <1>1, <3>1, CBusAssumption DEF IdleTx, Transaction
    <3>3. OneBurst'
      BY <3>1, <3>2 DEF OneBurst
    <3>4. QED BY <1>1, <1>5, <2>3, <2>4, <2>5, <2>6, <3>1, <3>2, <3>3
  <2>7. CASE Distance(cursor) # LineLen - 1
    <3>1. tx' = NextTx /\ cursor' = NextOffset(cursor) /\ phase' = phase
      BY <1>5, <2>1, <2>3, <2>4, <2>7 DEF DeviceBeat
    <3>2. /\ tx' = [tx EXCEPT !.n = Distance(cursor) + 2, !.addr = NextOffset(cursor)]
          /\ Distance(cursor) + 2 \in 1 .. LineLen
      <4>1. tx' = [tx EXCEPT !.n = tx.n + 1, !.addr = NextOffset(cursor)]
        BY <2>2, <3>1 DEF NextTx
      <4>2. tx.n + 1 = Distance(cursor) + 2 /\ Distance(cursor) + 2 \in 1 .. LineLen
        BY <1>1, <1>2, <2>2, <2>7
      <4>3. QED BY <4>1, <4>2
    <3>3. /\ tx' \in Transaction /\ tx'.n = Distance(cursor) + 2 /\ tx'.addr = NextOffset(cursor)
          /\ tx'.busy = tx.busy /\ tx'.is_write = tx.is_write /\ tx'.tag = tx.tag
          /\ tx'.index = tx.index /\ tx'.start = tx.start /\ tx'.len = tx.len
      BY <1>1, <1>2, <3>2 DEF Transaction
    <3>4. Distance(cursor)' = Distance(cursor) + 1
      <4>1. Distance(cursor)' = Distance(NextOffset(cursor))
        BY <3>1 DEF Distance
      <4>2. QED BY <1>2, <2>7, <4>1
    <3>5. OneBurst'
      BY <1>2, <2>2, <3>1, <3>3, <3>4 DEF OneBurst
    <3>6. QED BY <1>2, <1>5, <2>3, <2>4, <2>5, <2>7, <3>1, <3>3, <3>5
  <2>8. QED BY <2>6, <2>7
<1>6. QED BY <1>4, <1>5 DEF CBusResp

\* FETCH and FLUSH move words between line and memory: the word driven agrees after its
\* beat, the words before it still do, and what the two hold between them is the same.
LEMMA TransferStep ==
  ASSUME BufferInv, phase \in {"FETCH", "FLUSH"}, NEW resp \in CBusResp, Tick(resp)
  PROVE  BufferInv'
<1>1. BufferTypeOK /\ OneBurst /\ LineAgrees /\ QueuesFollow
  BY DEF BufferInv
<1>2. DeviceCycle(BufferReq, resp) /\ Queues /\ expected' = expected
  BY DEF Tick
<1>3. /\ held' = held
      /\ cursor' = IF resp.ready THEN NextOffset(cursor) ELSE cursor
      /\ phase' = IF resp.ready /\ resp.last THEN (IF phase = "FETCH" THEN "READY" ELSE "IDLE")
                                             ELSE phase
      /\ phase = "FETCH" => line' = [line EXCEPT ![cursor] = resp.data]
      /\ phase = "FLUSH" => line' = line
  BY DEF Tick, BufferCycle, BufferIdle, BufferFetch, BufferReady, BufferFlush
<1>4. /\ tx' \in Transaction /\ cursor' \in Offset
      /\ OneBurst'
      /\ resp.ready => (resp.last <=> Distance(cursor) = LineLen - 1)
      /\ ~(resp.ready /\ phase = "FLUSH") => mem' = mem
      /\ resp.ready /\ phase = "FLUSH" =>
           mem' = [mem EXCEPT ![held.tag][held.index][cursor] = line[cursor]]
      /\ resp.ready /\ phase = "FETCH" => resp.data = mem[held.tag][held.index][cursor]
  BY <1>1, <1>2, <1>3, BurstStep
<1>5. pending' = pending /\ ongoing' = ongoing /\ bus' = bus
  BY <1>1, <1>2, QueuesStill DEF AddrOk, DataOk
<1>6. /\ cursor \in Offset /\ held.tag \in Tag /\ held.index \in Index /\ held.offset \in Offset
      /\ line \in [Offset -> Word] /\ mem \in [Tag -> [Index -> [Offset -> Word]]]
      /\ resp.data \in Word
  BY <1>1 DEF BufferTypeOK, DBusReq, CBusResp, Memory
<1>7. /\ mem' \in Memory
      /\ \A t \in Tag, i \in Index, o \in Offset :
           mem'[t][i][o] = IF /\ resp.ready /\ phase = "FLUSH"
                              /\ t = held.tag /\ i = held.index /\ o = cursor
                           THEN line[cursor] ELSE mem[t][i][o]
  <2>1. CASE resp.ready /\ phase = "FLUSH"
    <3>1. line[cursor] \in Word
      BY <1>6
    <3>2. PICK w : w = line[cursor]
      OBVIOUS
    <3>3. PICK g : g = [mem EXCEPT ![held.tag][held.index][cursor] = w]
      OBVIOUS
    <3>4. /\ g \in [Tag -> [Index -> [Offset -> Word]]]
          /\ g[held.tag][held.index][cursor] = w
          /\ \A x \in Tag, y \in Index, z \in Offset :
               (x # held.tag \/ y # held.index \/ z # cursor) => g[x][y][z] = mem[x][y][z]
      BY <1>6, <3>1, <3>2, <3>3, WordUpdate
    <3>5. mem' = g
      BY <1>4, <2>1, <3>2, <3>3
    <3>6. QED BY <2>1, <3>2, <3>4, <3>5 DEF Memory
  <2>2. CASE ~(resp.ready /\ phase = "FLUSH")
    BY <1>4, <1>6, <2>2 DEF Memory
  <2>3. QED BY <2>1, <2>2
<1>8. /\ line' \in [Offset -> Word]
      /\ \A o \in Offset : line'[o] = IF phase = "FETCH" /\ o = cursor THEN resp.data ELSE line[o]
  BY <1>3, <1>6
<1>9. BufferTypeOK'
  BY <1>1, <1>2, <1>3, <1>4, <1>5, <1>7, <1>8 DEF BufferTypeOK
<1>10. /\ Distance(held.offset) = 0
       /\ \A o \in Offset :
            /\ Distance(o)' = Distance(o)
            /\ Distance(o) \in 0 .. LineLen - 1
            /\ Distance(o) = 0 => o = held.offset
            /\ Distance(o) = Distance(cursor) => o = cursor
  <2>1. \A o \in Offset :
            /\ Distance(o) \in 0 .. LineLen - 1
            /\ Distance(o) = 0 <=> o = held.offset
            /\ \A x \in Offset : Distance(x) = Distance(o) => x = o
    BY <1>1, DistanceLemma
  <2>2. QED BY <1>3, <1>6, <2>1 DEF Distance
<1>11. /\ ~resp.ready => Distance(cursor)' = Distance(cursor)
       /\ resp.ready /\ ~resp.last => Distance(cursor)' = Distance(cursor) + 1
  <2>1. IF Distance(cursor) = LineLen - 1 THEN TRUE
        ELSE Distance(NextOffset(cursor)) = Distance(cursor) + 1
    BY <1>1, <1>6, DistanceLemma
  <2>2. Distance(cursor)' = IF resp.ready THEN Distance(NextOffset(cursor)) ELSE Distance(cursor)
    BY <1>3 DEF Distance
  <2>3. QED BY <1>4, <2>1, <2>2
<1>12. \A o \in Offset :
         /\ phase = "FETCH" /\ Distance(o) < Distance(cursor)
              => line[o] = mem[held.tag][held.index][o]
         /\ phase = "FLUSH" /\ (o # held.offset \/ Distance(o) < Distance(cursor))
              => line[o] = mem[held.tag][held.index][o]
  <2> SUFFICES ASSUME NEW o \in Offset
               PROVE  /\ phase = "FETCH" /\ Distance(o) < Distance(cursor)
                           => line[o] = mem[held.tag][held.index][o]
                      /\ phase = "FLUSH" /\ (o # held.offset \/ Distance(o) < Distance(cursor))
                           => line[o] = mem[held.tag][held.index][o]
    OBVIOUS
  <2>1. Distance(o) \in Int /\ Distance(cursor) \in Int
    BY <1>6, <1>10
  <2>2. QED BY <1>1, <2>1 DEF LineAgrees
<1>13. phase = "FLUSH" /\ resp.ready => \A o \in Offset : line[o] = mem'[held.tag][held.index][o]
  <2> SUFFICES ASSUME phase = "FLUSH", resp.ready, NEW o \in Offset
               PROVE  line[o] = mem'[held.tag][held.index][o]
    OBVIOUS
  <2>1. CASE o = cursor
    BY <1>6, <1>7, <2>1
  <2>2. CASE o # cursor
    <3>1. mem'[held.tag][held.index][o] = mem[held.tag][held.index][o]
      BY <1>6, <1>7, <2>2
    <3>2. o # held.offset \/ Distance(o) < Distance(cursor)
      BY <1>6, <1>10, <2>2
    <3>3. QED BY <1>12, <3>1, <3>2
  <2>3. QED BY <2>1, <2>2
<1>14. phase = "FETCH" /\ resp.ready =>
         \A o \in Offset : Distance(o) <= Distance(cursor) =>
           line'[o] = mem'[held.tag][held.index][o]
  <2> SUFFICES ASSUME phase = "FETCH", resp.ready, NEW o \in Offset, Distance(o) <= Distance(cursor)
               PROVE  line'[o] = mem'[held.tag][held.index][o]
    OBVIOUS
  <2>1. mem' = mem
    BY <1>4
  <2>2. CASE o = cursor
    BY <1>4, <1>8, <2>1, <2>2
  <2>3. CASE o # cursor
    <3>1. Distance(o) # Distance(cursor) /\ Distance(o) \in Int /\ Distance(cursor) \in Int
      BY <1>6, <1>10, <2>3
    <3>2. Distance(o) < Distance(cursor)
      BY <3>1
    <3>3. QED BY <1>8, <1>12, <2>1, <2>3, <3>2
  <2>4. QED BY <2>2, <2>3
<1>15. LineAgrees'
  <2> SUFFICES ASSUME NEW o \in Offset
               PROVE  \/ phase' = "IDLE"
                      \/ phase' = "FETCH" /\ Distance(o)' >= Distance(cursor)'
                      \/ phase' = "FLUSH" /\ o = held'.offset /\ Distance(o)' >= Distance(cursor)'
                      \/ line'[o] = mem'[held'.tag][held'.index][o]
    BY DEF LineAgrees
  <2>1. Distance(o) \in 0 .. LineLen - 1 /\ Distance(cursor) \in 0 .. LineLen - 1
        /\ Distance(o)' = Distance(o) /\ LineLen \in Nat
    BY <1>6, <1>10, CBusAssumption
  <2>2. CASE phase = "FETCH" /\ ~resp.ready
    <3>1. phase' = "FETCH" /\ Distance(cursor)' = Distance(cursor) /\ mem' = mem
      BY <1>3, <1>4, <1>11, <2>2
    <3>2. Distance(o) < Distance(cursor) => line'[o] = line[o]
      BY <1>8, <2>1
    <3>3. QED BY <1>3, <1>12, <2>1, <2>2, <3>1, <3>2
  <2>3. CASE phase = "FETCH" /\ resp.ready /\ ~resp.last
    <3>1. phase' = "FETCH" /\ Distance(cursor)' = Distance(cursor) + 1
      BY <1>3, <1>11, <2>3
    <3>2. Distance(o) >= Distance(cursor) + 1 \/ Distance(o) <= Distance(cursor)
      BY <2>1
    <3>3. QED BY <1>3, <1>14, <2>1, <2>3, <3>1, <3>2
  <2>4. CASE phase = "FETCH" /\ resp.ready /\ resp.last
    <3>1. Distance(o) <= Distance(cursor)
      BY <1>4, <2>1, <2>4
    <3>2. QED BY <1>3, <1>14, <2>4, <3>1
  <2>5. CASE phase = "FLUSH" /\ ~resp.ready
    <3>1. phase' = "FLUSH" /\ Distance(cursor)' = Distance(cursor) /\ mem' = mem /\ line' = line
      BY <1>3, <1>4, <1>11, <2>5
    <3>2. (o # held.offset \/ Distance(o) < Distance(cursor))
            => line[o] = mem[held.tag][held.index][o]
      BY <1>12, <2>5
    <3>3. QED BY <1>3, <2>1, <3>1, <3>2
  <2>6. CASE phase = "FLUSH" /\ resp.ready
    BY <1>3, <1>13, <2>6
  <2>7. QED BY <2>2, <2>3, <2>4, <2>5, <2>6
<1>16. QueuesFollow'
  BY <1>1, <1>3, <1>5 DEF QueuesFollow
<1>17. Stored' = Stored
  <2>1. /\ Stored \in Memory
        /\ \A t \in Tag, i \in Index, o \in Offset :
             Stored[t][i][o] = IF phase = "FLUSH" /\ t = held.tag /\ i = held.index
                               THEN line[o] ELSE mem[t][i][o]
    BY <1>1, StoredLemma
  <2>2. /\ Stored' \in Memory
        /\ \A t \in Tag, i \in Index, o \in Offset :
             Stored'[t][i][o] = IF phase' = "FLUSH" /\ t = held'.tag /\ i = held'.index
                                THEN line'[o] ELSE mem'[t][i][o]
    BY <1>9, StoredLemmaNext
  <2>3. ASSUME NEW t \in Tag, NEW i \in Index, NEW o \in Offset
        PROVE  Stored'[t][i][o] = Stored[t][i][o]
    <3>1. CASE phase = "FETCH"
      BY <1>3, <1>4, <2>1, <2>2, <3>1
    <3>2. CASE phase = "FLUSH" /\ phase' = "FLUSH"
      BY <1>3, <1>7, <2>1, <2>2, <3>2
    <3>3. CASE phase = "FLUSH" /\ phase' # "FLUSH"
      <4>1. resp.ready
        BY <1>3, <3>3
      <4>2. QED BY <1>7, <1>13, <2>1, <2>2, <3>3, <4>1
    <3>4. QED BY <3>1, <3>2, <3>3
  <2> HIDE DEF Stored
  <2>4. QED BY <2>1, <2>2, <2>3, SameMemories
<1>18. QED BY <1>2, <1>4, <1>5, <1>9, <1>15, <1>16, <1>17 DEF BufferInv

\* READY: the answered task leaves the queues, and its store is part of what is held.
LEMMA ReadyStep ==
  ASSUME BufferInv, phase = "READY", NEW resp \in CBusResp, Tick(resp)
  PROVE  BufferInv'
<1>1. BufferTypeOK /\ OneBurst /\ LineAgrees /\ QueuesFollow
  BY DEF BufferInv
<1>2. /\ held' = held /\ cursor' = cursor
      /\ line' = [line EXCEPT ![cursor] = Merge(@, held.data, held.strobe)]
      /\ phase' = IF held.strobe # {} THEN "FLUSH" ELSE "IDLE"
  BY DEF Tick, BufferCycle, BufferIdle, BufferFetch, BufferReady, BufferFlush
<1>3. UNCHANGED devVars /\ ~tx.busy
  <2>1. ~tx.busy /\ ~BufferReq.valid
    BY <1>1 DEF OneBurst, BufferReq
  <2>2. QED BY <2>1, DeviceIdle DEF Tick
<1>4. cursor = held.offset
  BY <1>1, <1>3 DEF OneBurst
<1>5. /\ held.tag \in Tag /\ held.index \in Index /\ held.offset \in Offset
      /\ held.data \in Word /\ held.strobe \in SUBSET Lane
      /\ line \in [Offset -> Word] /\ held \in DBusReq
      /\ \A o \in Offset : line[o] = mem[held.tag][held.index][o]
  BY <1>1 DEF BufferTypeOK, LineAgrees, DBusReq
<1>6. /\ line' \in [Offset -> Word]
      /\ \A o \in Offset : line'[o] = IF o = held.offset
                                      THEN Merge(line[o], held.data, held.strobe) ELSE line[o]
  <2>1. Merge(line[cursor], held.data, held.strobe) \in Word
    BY <1>4, <1>5, MergeLemma
  <2>2. QED BY <1>2, <1>4, <1>5, <2>1
<1>7. /\ Len(ongoing) = 1 /\ ongoing[1].req = held /\ ongoing \in Seq(Task)
      /\ pending \in Seq(Task)
  BY <1>1 DEF QueuesFollow, BufferTypeOK
<1>8. /\ pending' = pending /\ ongoing' = Tail(ongoing)
      /\ bus' = IF pending = <<>> THEN [bus EXCEPT !.valid = FALSE] ELSE Issue(Head(pending))
  BY DEF Tick, Queues, AddrOk, DataOk
<1>9. ongoing' = <<>>
  <2>1. ongoing # <<>>
    BY <1>7
  <2>2. Tail(ongoing) \in Seq(Task) /\ Len(Tail(ongoing)) = 0
    BY <1>7, <2>1, HeadTailProperties
  <2>3. Tail(ongoing) = <<>>
    BY <2>2, EmptySeq
  <2>4. QED BY <1>8, <2>3
<1>10. bus' \in [valid: BOOLEAN, req: DBusReq] /\ QueuesFollow'
  <2>1. CASE pending = <<>>
    <3>1. bus' = [bus EXCEPT !.valid = FALSE]
      BY <1>8, <2>1
    <3>2. bus' \in [valid: BOOLEAN, req: DBusReq] /\ bus'.valid = FALSE
      BY <1>1, <3>1 DEF BufferTypeOK
    <3>3. phase' \notin {"FETCH", "READY"}
      BY <1>2
    <3>4. bus'.valid <=> pending' # <<>>
      BY <1>8, <2>1, <3>2
    <3>5. QED BY <1>9, <3>2, <3>3, <3>4 DEF QueuesFollow
  <2>2. CASE pending # <<>>
    <3>1. bus' = [valid |-> TRUE, req |-> Head(pending).req]
      BY <1>8, <2>2 DEF Issue
    <3>2. Head(pending) \in Task
      BY <1>7, <2>2, HeadTailProperties
    <3>3. phase' \notin {"FETCH", "READY"}
      BY <1>2
    <3>4. Head(pending).req \in DBusReq
      BY <3>2 DEF Task
    <3>5. /\ bus' \in [valid: BOOLEAN, req: DBusReq]
          /\ bus'.valid = TRUE /\ bus'.req = Head(pending).req
      BY <3>1, <3>4
    <3>6. bus'.valid <=> pending' # <<>>
      BY <1>8, <2>2, <3>5
    <3>7. bus'.req = Head(pending').req
      BY <1>8, <3>5
    <3>8. QED BY <1>9, <3>3, <3>5, <3>6, <3>7 DEF QueuesFollow
  <2>3. QED BY <2>1, <2>2
<1>11. BufferTypeOK'
  <2>1. <<>> \in Seq(Task)
    OBVIOUS
  <2>2. phase' \in {"IDLE", "FLUSH"} /\ expected' = expected
    BY <1>2 DEF Tick
  <2>3. QED BY <1>1, <1>2, <1>3, <1>6, <1>8, <1>9, <1>10, <2>1, <2>2 DEF BufferTypeOK, devVars
<1>12. OneBurst'
  BY <1>2, <1>3, <1>4 DEF OneBurst, devVars
<1>13. LineAgrees'
  <2> SUFFICES ASSUME NEW o \in Offset, phase' = "FLUSH"
               PROVE  \/ o = held'.offset /\ Distance(o)' >= Distance(cursor)'
                      \/ line'[o] = mem'[held'.tag][held'.index][o]
    BY <1>2 DEF LineAgrees
  <2>1. CASE o = held.offset
    <3>1. Distance(o)' = Distance(o) /\ Distance(cursor)' = Distance(o)
      BY <1>2, <1>4, <2>1 DEF Distance
    <3>2. Distance(o) \in 0 .. LineLen - 1
      BY <1>1, DistanceLemma
    <3>3. QED BY <1>2, <2>1, <3>1, <3>2, CBusAssumption
  <2>2. CASE o # held.offset
    BY <1>2, <1>3, <1>5, <1>6, <2>2 DEF devVars
  <2>3. QED BY <2>1, <2>2
<1>14. Stored' = AfterStore(Stored, held)
  <2>1. /\ Stored \in Memory
        /\ \A t \in Tag, i \in Index, o \in Offset : Stored[t][i][o] = mem[t][i][o]
    BY <1>1, StoredLemma
  <2>2. /\ Stored' \in Memory
        /\ \A t \in Tag, i \in Index, o \in Offset :
             Stored'[t][i][o] = IF phase' = "FLUSH" /\ t = held'.tag /\ i = held'.index
                                THEN line'[o] ELSE mem'[t][i][o]
    BY <1>11, StoredLemmaNext
  <2>3. PICK m : m = Stored
    OBVIOUS
  <2>4. PICK n : n = Stored'
    OBVIOUS
  <2>5. /\ AfterStore(m, held) \in Memory
        /\ \A t \in Tag, i \in Index, o \in Offset, l \in Lane :
             AfterStore(m, held)[t][i][o][l] =
               IF Writes(held, t, i, o, l) THEN held.data[l] ELSE m[t][i][o][l]
    BY <1>5, <2>1, <2>3, LaneAfterStore
  <2>6. ASSUME NEW t \in Tag, NEW i \in Index, NEW o \in Offset
        PROVE  n[t][i][o] = AfterStore(m, held)[t][i][o]
    <3>1. n[t][i][o] \in Word /\ AfterStore(m, held)[t][i][o] \in Word
      BY <2>2, <2>4, <2>5 DEF Memory
    <3>2. m[t][i][o] = mem[t][i][o]
      BY <2>1, <2>3
    <3>3. n[t][i][o] = IF phase' = "FLUSH" /\ t = held.tag /\ i = held.index
                       THEN line'[o] ELSE mem[t][i][o]
      BY <1>2, <1>3, <2>2, <2>4 DEF devVars
    <3>4. ASSUME NEW l \in Lane
          PROVE  n[t][i][o][l] = AfterStore(m, held)[t][i][o][l]
      <4>1. AfterStore(m, held)[t][i][o][l] =
              IF Writes(held, t, i, o, l) THEN held.data[l] ELSE mem[t][i][o][l]
        BY <2>5, <3>2
      <4>2. CASE t = held.tag /\ i = held.index /\ o = held.offset
        <5>1. Writes(held, t, i, o, l) <=> l \in held.strobe
          BY <4>2 DEF Writes
        <5>2. CASE held.strobe = {}
          BY <1>2, <3>3, <4>1, <5>1, <5>2
        <5>3. CASE held.strobe # {}
          <6>1. n[t][i][o] = Merge(mem[t][i][o], held.data, held.strobe)
            BY <1>2, <1>5, <1>6, <3>3, <4>2, <5>3
          <6>2. n[t][i][o][l] = IF l \in held.strobe THEN held.data[l] ELSE mem[t][i][o][l]
            BY <6>1 DEF Merge
          <6>3. QED BY <4>1, <5>1, <6>2
        <5>4. QED BY <5>2, <5>3
      <4>3. CASE ~(t = held.tag /\ i = held.index /\ o = held.offset)
        <5>1. ~Writes(held, t, i, o, l)
          BY <4>3 DEF Writes
        <5>2. n[t][i][o] = mem[t][i][o]
          BY <1>5, <1>6, <3>3, <4>3
        <5>3. QED BY <4>1, <5>1, <5>2
      <4>4. QED BY <4>2, <4>3
    <3> HIDE DEF AfterStore
    <3>5. QED BY <3>1, <3>4 DEF Word
  <2>7. n \in Memory
    BY <2>2, <2>4
  <2>8. n = AfterStore(m, held)
    BY <2>5, <2>6, <2>7, SameMemories
  <2>9. QED BY <2>3, <2>4, <2>8
<1>15. Foreseen(ongoing \o pending, Stored, expected)'
  <2>1. PICK q : q = ongoing \o pending
    OBVIOUS
  <2>2. /\ q \in Seq(Task) /\ Len(q) = 1 + Len(pending) /\ Len(pending) \in Nat
        /\ \A k \in 1 .. 1 + Len(pending) :
             q[k] = IF k <= 1 THEN ongoing[k] ELSE pending[k - 1]
    <3>1. /\ q \in Seq(Task) /\ Len(q) = Len(ongoing) + Len(pending)
          /\ \A k \in 1 .. Len(ongoing) + Len(pending) :
               q[k] = IF k <= Len(ongoing) THEN ongoing[k] ELSE pending[k - Len(ongoing)]
      BY <1>7, <2>1, ConcatProperties
    <3>2. Len(pending) \in Nat
      BY <1>7, LenProperties
    <3>3. QED BY <1>7, <3>1, <3>2
  <2>3. q # <<>> /\ q[1] = ongoing[1]
    BY <2>2, EmptySeq
  <2>4. Tail(q) = pending
    <3>1. /\ Tail(q) \in Seq(Task) /\ Len(Tail(q)) = Len(pending)
          /\ \A k \in 1 .. Len(Tail(q)) : Tail(q)[k] = q[k + 1]
      BY <2>2, <2>3, HeadTailProperties
    <3>2. \A k \in 1 .. Len(Tail(q)) : Tail(q)[k] = pending[k]
      BY <2>2, <3>1
    <3>3. QED BY <1>7, <3>1, <3>2, SeqEqual
  <2>5. Stored \in Memory /\ expected \in Memory /\ Foreseen(q, Stored, expected)
    BY <1>1, <2>1, StoredLemma DEF BufferInv, BufferTypeOK
  <2>6. Foreseen(Tail(q), AfterStore(Stored, held), expected)
    <3> HIDE DEF Stored
    <3>1. held = q[1].req
      BY <1>7, <2>3
    <3>2. QED BY <2>2, <2>3, <2>5, <3>1, ForeseenTail
  <2>7. ongoing' \o pending' = pending /\ expected' = expected
    BY <1>7, <1>8, <1>9, ConcatEmptySeq DEF Tick
  <2>8. Foreseen(ongoing' \o pending', Stored', expected')
    BY <1>14, <2>4, <2>6, <2>7
  <2>9. QED BY <2>8 DEF Foreseen, LeftBy
<1>16. QED BY <1>10, <1>11, <1>12, <1>13, <1>15 DEF BufferInv

\* IDLE: the buffer takes the request on the bus, and its task moves to the accepted ones.
LEMMA IdleStep ==
  ASSUME BufferInv, phase = "IDLE", NEW resp \in CBusResp, Tick(resp)
  PROVE  BufferInv'
<1>1. BufferTypeOK /\ OneBurst /\ LineAgrees /\ QueuesFollow
  BY DEF BufferInv
<1>2. UNCHANGED devVars /\ ~tx.busy
  <2>1. ~tx.busy /\ ~BufferReq.valid
    BY <1>1 DEF OneBurst, BufferReq
  <2>2. QED BY <2>1, DeviceIdle DEF Tick
<1>3. Queues /\ line' = line /\ expected' = expected /\ ongoing = <<>> /\ pending \in Seq(Task)
  BY <1>1 DEF Tick, BufferCycle, BufferIdle, BufferFetch, BufferReady, BufferFlush, QueuesFollow,
              BufferTypeOK
<1>4. IF bus.valid THEN phase' = "FETCH" /\ held' = bus.req /\ cursor' = bus.req.offset
                   ELSE UNCHANGED <<phase, held, cursor>>
  BY DEF Tick, BufferCycle, BufferIdle, BufferFetch, BufferReady, BufferFlush
<1>5. CASE ~bus.valid
  <2>1. pending' = pending /\ ongoing' = ongoing /\ bus' = bus
    BY <1>1, <1>3, <1>5, QueuesStill DEF DataOk
  <2>2. /\ phase' = phase /\ held' = held /\ cursor' = cursor /\ line' = line /\ mem' = mem
        /\ tx' = tx /\ expected' = expected
    BY <1>2, <1>3, <1>4, <1>5 DEF devVars
  <2>3. BufferTypeOK' /\ OneBurst' /\ LineAgrees' /\ QueuesFollow'
    <3>1. BufferTypeOK'
      BY <1>1, <2>1, <2>2 DEF BufferTypeOK
    <3>2. OneBurst' /\ LineAgrees'
      BY <1>2, <2>2 DEF OneBurst, LineAgrees
    <3>3. QueuesFollow'
      BY <1>1, <2>1, <2>2 DEF QueuesFollow
    <3>4. QED BY <3>1, <3>2, <3>3
  <2>4. Stored' = Stored
    BY <2>2 DEF Stored
  <2>5. Foreseen(ongoing \o pending, Stored, expected)'
    BY <2>1, <2>2, <2>4 DEF BufferInv
  <2>6. QED BY <2>3, <2>5 DEF BufferInv
<1>6. CASE bus.valid
  <2>1. pending # <<>> /\ bus.req = Head(pending).req
    BY <1>1, <1>6 DEF QueuesFollow
  <2>2. /\ pending' = Tail(pending)
        /\ ongoing' = Append(<<>>, Head(pending))
        /\ bus' = IF Tail(pending) = <<>> THEN [bus EXCEPT !.valid = FALSE]
                                          ELSE Issue(Head(Tail(pending)))
    BY <1>3, <1>6 DEF Queues, AddrOk, DataOk
  <2>3. /\ Head(pending) \in Task /\ Tail(pending) \in Seq(Task)
        /\ Len(Tail(pending)) = Len(pending) - 1
        /\ \A k \in 1 .. Len(Tail(pending)) : Tail(pending)[k] = pending[k + 1]
    BY <1>3, <2>1, HeadTailProperties
  <2>4. Head(pending) = pending[1] /\ Len(pending) \in Nat
    BY <1>3, <2>1, LenProperties
  <2>5. ongoing' = <<Head(pending)>> /\ ongoing' \in Seq(Task) /\ Len(ongoing') = 1
        /\ ongoing'[1] = Head(pending)
    BY <2>2, <2>3
  <2>6. /\ bus' \in [valid: BOOLEAN, req: DBusReq]
        /\ bus'.valid <=> pending' # <<>>
        /\ bus'.valid => bus'.req = Head(pending').req
    <3>1. CASE Tail(pending) = <<>>
      <4>1. bus' = [bus EXCEPT !.valid = FALSE]
        BY <2>2, <3>1
      <4>2. bus' \in [valid: BOOLEAN, req: DBusReq] /\ bus'.valid = FALSE
        BY <1>1, <4>1 DEF BufferTypeOK
      <4>3. QED BY <2>2, <3>1, <4>2
    <3>2. CASE Tail(pending) # <<>>
      <4>1. bus' = [valid |-> TRUE, req |-> Head(Tail(pending)).req]
        BY <2>2, <3>2 DEF Issue
      <4>2. Head(Tail(pending)) \in Task
        BY <2>3, <3>2, HeadTailProperties
      <4>3. Head(Tail(pending)).req \in DBusReq
        BY <4>2 DEF Task
      <4>4. /\ bus' \in [valid: BOOLEAN, req: DBusReq]
            /\ bus'.valid = TRUE /\ bus'.req = Head(Tail(pending)).req
        BY <4>1, <4>3
      <4>5. QED BY <2>2, <3>2, <4>4
    <3>3. QED BY <3>1, <3>2
  <2>7. phase' = "FETCH" /\ held' = Head(pending).req /\ cursor' = held'.offset
    BY <1>4, <1>6, <2>1
  <2>8. held' \in DBusReq /\ cursor' \in Offset
    BY <2>3, <2>7 DEF Task, DBusReq
  <2>9. BufferTypeOK'
    BY <1>1, <1>2, <1>3, <2>2, <2>3, <2>5, <2>6, <2>7, <2>8 DEF BufferTypeOK, devVars
  <2>10. OneBurst'
    BY <1>2, <2>7 DEF OneBurst, devVars
  <2>11. LineAgrees'
    <3> SUFFICES ASSUME NEW o \in Offset PROVE Distance(o)' >= Distance(cursor)'
      BY <2>7 DEF LineAgrees
    <3>1. Distance(cursor)' = 0
      BY <2>7, <2>8 DEF Distance, Offset
    <3>2. held'.offset \in Offset
      BY <2>8 DEF DBusReq
    <3>3. Distance(o)' \in 0 .. LineLen - 1
      BY <3>2, CBusAssumption DEF Distance, Offset
    <3>4. QED BY <3>1, <3>3, CBusAssumption
  <2>12. QueuesFollow'
    BY <2>5, <2>6, <2>7 DEF QueuesFollow
  <2>13. Stored' = Stored
    BY <1>2, <2>7 DEF Stored, devVars
  <2>14. ongoing' \o pending' = ongoing \o pending
    <3>1. ongoing \o pending = pending
      BY <1>3, ConcatEmptySeq
    <3>2. PICK a : a = ongoing'
      OBVIOUS
    <3>3. PICK b : b = Tail(pending)
      OBVIOUS
    <3>4. /\ a \o b \in Seq(Task) /\ Len(a \o b) = Len(a) + Len(b)
          /\ \A k \in 1 .. Len(a) + Len(b) :
               (a \o b)[k] = IF k <= Len(a) THEN a[k] ELSE b[k - Len(a)]
      BY <2>3, <2>5, <3>2, <3>3, ConcatProperties
    <3>5. Len(a) = 1 /\ a[1] = pending[1] /\ Len(b) = Len(pending) - 1
          /\ \A k \in 1 .. Len(pending) - 1 : b[k] = pending[k + 1]
      BY <2>3, <2>4, <2>5, <3>2, <3>3
    <3>6. Len(a \o b) = Len(pending)
      BY <2>4, <3>4, <3>5
    <3>7. \A k \in 1 .. Len(a \o b) : (a \o b)[k] = pending[k]
      BY <2>4, <3>4, <3>5
    <3>8. a \o b = pending
      BY <1>3, <3>4, <3>6, <3>7, SeqEqual
    <3>9. QED BY <2>2, <3>1, <3>2, <3>3, <3>8
  <2>15. Foreseen(ongoing \o pending, Stored, expected)'
    BY <1>3, <2>13, <2>14 DEF BufferInv
  <2>16. QED BY <2>9, <2>10, <2>11, <2>12, <2>15 DEF BufferInv
<1>7. QED BY <1>5, <1>6

\* The test calls store or expect: the task goes to the end of the queue, with the word
\* that the tasks before it will have left.
LEMMA SubmitStep ==
  ASSUME BufferInv, NEW r \in TestRequests, Submit(r)
  PROVE  BufferInv'
<1> DEFINE x == [req |-> r, data |-> expected[r.tag][r.index][r.offset]]
<1>1. BufferTypeOK /\ OneBurst /\ LineAgrees /\ QueuesFollow
  BY DEF BufferInv
<1>2. /\ phase' = phase /\ held' = held /\ cursor' = cursor /\ line' = line /\ mem' = mem
      /\ tx' = tx /\ ongoing' = ongoing
      /\ pending' = Append(pending, x)
      /\ bus' = IF bus.valid THEN bus ELSE Issue(x)
      /\ expected' = AfterStore(expected, r)
  BY DEF Submit, bufferVars, devVars, AfterStore
<1>3. r \in DBusReq /\ pending \in Seq(Task) /\ ongoing \in Seq(Task) /\ expected \in Memory
  BY <1>1, DriverAssumption DEF BufferTypeOK
<1>4. x \in Task /\ x.req = r
  BY <1>3 DEF Task, DBusReq, Memory
<1>5. Foreseen(ongoing \o pending, Stored, expected)'
  <2>1. PICK q : q = ongoing \o pending
    OBVIOUS
  <2>2. q \in Seq(Task) /\ Stored \in Memory /\ Foreseen(q, Stored, expected)
    BY <1>1, <1>3, <2>1, ConcatProperties, StoredLemma DEF BufferInv
  <2>3. Foreseen(Append(q, x), Stored, AfterStore(expected, r))
    <3> HIDE DEF Stored
    <3>1. QED BY <1>3, <2>2, ForeseenAppend
  <2> HIDE DEF x
  <2>4. ongoing \o Append(pending, x) = Append(q, x)
    <3>1. <<x>> \in Seq(Task)
      BY <1>4
    <3>2. Append(pending, x) = pending \o <<x>> /\ Append(q, x) = q \o <<x>>
      BY <1>3, <1>4, <2>2, AppendIsConcat
    <3>3. (ongoing \o pending) \o <<x>> = ongoing \o (pending \o <<x>>)
      BY <1>3, <3>1, ConcatAssociative
    <3>4. QED BY <2>1, <3>2, <3>3
  <2>5. Stored' = Stored
    BY <1>2 DEF Stored
  <2>6. QED BY <1>2, <2>3, <2>4, <2>5
<1>6. pending' \in Seq(Task) /\ pending' # <<>>
      /\ Head(pending') = IF pending = <<>> THEN x ELSE Head(pending)
  <2> HIDE DEF x
  <2>1. QED BY <1>2, <1>3, <1>4, AppendProperties, HeadTailAppend
<1>7. /\ bus' \in [valid: BOOLEAN, req: DBusReq]
      /\ bus'.valid = TRUE /\ bus'.req = Head(pending').req
  <2> HIDE DEF x
  <2>1. bus \in [valid: BOOLEAN, req: DBusReq]
    BY <1>1 DEF BufferTypeOK
  <2>2. CASE bus.valid
    <3>1. pending # <<>> /\ bus.req = Head(pending).req /\ bus' = bus /\ bus.valid = TRUE
      BY <1>1, <1>2, <2>1, <2>2 DEF QueuesFollow
    <3>2. QED BY <1>6, <2>1, <3>1
  <2>3. CASE ~bus.valid
    <3>1. pending = <<>> /\ bus' = [valid |-> TRUE, req |-> x.req]
      BY <1>1, <1>2, <2>3 DEF QueuesFollow, Issue
    <3>2. QED BY <1>3, <1>4, <1>6, <3>1
  <2>4. QED BY <2>2, <2>3
<1>8. expected' \in Memory
  BY <1>2, <1>3, LaneAfterStore
<1>9. BufferTypeOK'
  BY <1>1, <1>2, <1>6, <1>7, <1>8 DEF BufferTypeOK
<1>10. OneBurst' /\ LineAgrees'
  <2>1. \A o \in Offset : Distance(o)' = Distance(o)
    BY <1>2 DEF Distance
  <2>2. Distance(cursor)' = Distance(cursor)
    BY <1>2 DEF Distance
  <2>3. OneBurst'
    BY <1>1, <1>2, <2>2 DEF OneBurst
  <2>4. LineAgrees'
    BY <1>1, <1>2, <2>1, <2>2 DEF LineAgrees
  <2>5. QED BY <2>3, <2>4
<1>11. QueuesFollow'
  BY <1>1, <1>2, <1>6, <1>7 DEF QueuesFollow
<1>12. QED BY <1>5, <1>9, <1>10, <1>11 DEF BufferInv

\* The test calls fence, or returns from it, or the unit does nothing.
LEMMA BufferUnchanged ==
  ASSUME BufferInv, UNCHANGED <<bufferVars, devVars, bus, pending, ongoing, expected>>
  PROVE  BufferInv'
<1>1. BufferTypeOK /\ OneBurst /\ LineAgrees /\ QueuesFollow
  BY DEF BufferInv
<1>2. /\ phase' = phase /\ held' = held /\ cursor' = cursor /\ line' = line /\ mem' = mem
      /\ tx' = tx /\ ongoing' = ongoing /\ pending' = pending /\ bus' = bus
      /\ expected' = expected
  BY DEF bufferVars, devVars
<1>3. BufferTypeOK' /\ QueuesFollow'
  BY <1>1, <1>2 DEF BufferTypeOK, QueuesFollow
<1>4. OneBurst' /\ LineAgrees'
  <2>1. \A o \in Offset : Distance(o)' = Distance(o)
    BY <1>2 DEF Distance
  <2>2. Distance(cursor)' = Distance(cursor)
    BY <1>2 DEF Distance
  <2>3. OneBurst'
    BY <1>1, <1>2, <2>2 DEF OneBurst
  <2>4. LineAgrees'
    BY <1>1, <1>2, <2>1, <2>2 DEF LineAgrees
  <2>5. QED BY <2>3, <2>4
<1>5. Stored' = Stored
  BY <1>2 DEF Stored
<1>6. Foreseen(ongoing \o pending, Stored, expected)'
  BY <1>2, <1>5 DEF BufferInv
<1>7. QED BY <1>3, <1>4, <1>6 DEF BufferInv

\* Before the first call the queues are empty, and the test knows the memory.
LEMMA BufferInitInv == PipelineInit => BufferInv
<1> SUFFICES ASSUME PipelineInit PROVE BufferInv
  OBVIOUS
<1> USE CBusAssumption DEF PipelineInit, BufferInit, DeviceInit
<1>1. ZeroWord \in Word /\ 0 \in Offset /\ (CHOOSE i \in Index : TRUE) \in Index
  BY DEF ZeroWord, Word, Offset
<1>2. held \in DBusReq
  BY <1>1 DEF DBusReq
<1>3. mem \in Memory /\ tx \in Transaction /\ ~tx.busy
  BY <1>1 DEF Memory, IdleTx, Transaction
<1>4. BufferTypeOK
  BY <1>1, <1>2, <1>3 DEF BufferTypeOK
<1>5. OneBurst /\ LineAgrees /\ QueuesFollow
  BY <1>3 DEF OneBurst, LineAgrees, QueuesFollow
<1>6. Foreseen(ongoing \o pending, Stored, expected)
  <2>1. ongoing \o pending = <<>>
    OBVIOUS
  <2>2. \A t \in Tag, i \in Index, o \in Offset : Stored[t][i][o] = expected[t][i][o]
    BY <1>4, StoredLemma
  <2> HIDE DEF Stored
  <2>3. QED BY <2>1, <2>2 DEF Foreseen, LeftBy
<1>7. QED BY <1>4, <1>5, <1>6 DEF BufferInv

\* One step of the unit.
LEMMA BufferNextInv == BufferInv /\ [PipelineNext]_pipelineVars => BufferInv'
<1> SUFFICES ASSUME BufferInv, [PipelineNext]_pipelineVars PROVE BufferInv'
  OBVIOUS
<1>1. CASE UNCHANGED pipelineVars
  BY <1>1, BufferUnchanged DEF pipelineVars, driverVars
<1>2. CASE Fence \/ FenceEnd
  BY <1>2, BufferUnchanged DEF Fence, FenceEnd
<1>3. ASSUME NEW r \in TestRequests, Submit(r) PROVE BufferInv'
  BY <1>3, SubmitStep
<1>4. ASSUME NEW resp \in CBusResp, Tick(resp) PROVE BufferInv'
  <2>1. phase \in {"IDLE", "FETCH", "READY", "FLUSH"}
    BY DEF BufferInv, BufferTypeOK
  <2>2. QED BY <1>4, <2>1, IdleStep, TransferStep, ReadyStep
<1>5. QED BY <1>1, <1>2, <1>3, <1>4 DEF PipelineNext

\* The invariant says that no assertion of the driver, the device or the test fails.
LEMMA BufferInvShows == BufferInv => AnswersInOrder
<1> SUFFICES ASSUME BufferInv PROVE AnswersInOrder
  OBVIOUS
<1>1. BufferTypeOK /\ OneBurst /\ LineAgrees /\ QueuesFollow
  BY DEF BufferInv
<1>2. DeviceAsserts(BufferReq)
  BY <1>1 DEF OneBurst, DeviceAsserts, BufferReq
<1>3. ASSUME DataOk
      PROVE  /\ ongoing # <<>>
             /\ Head(ongoing).req.strobe = {} => RData = Head(ongoing).data
  <2>1. /\ phase = "READY" /\ ongoing \in Seq(Task) /\ pending \in Seq(Task)
        /\ Len(ongoing) = 1 /\ ongoing[1].req = held
    BY <1>1, <1>3 DEF DataOk, QueuesFollow, BufferTypeOK
  <2>2. ongoing # <<>> /\ Head(ongoing) = ongoing[1] /\ ongoing[1] \in Task
    <3>1. ongoing # <<>>
      BY <2>1
    <3>2. ongoing[1] \in Task
      <4>1. 1 \in 1 .. Len(ongoing)
        BY <2>1
      <4>2. QED BY <2>1, <4>1, ElementOfSeq
    <3>3. Head(ongoing) = ongoing[1]
      BY <2>1, <3>1
    <3>4. QED BY <3>1, <3>2, <3>3
  <2>3. PICK q : q = ongoing \o pending
    OBVIOUS
  <2>4. q \in Seq(Task) /\ Len(q) \in Nat /\ Len(q) >= 1 /\ q[1] = ongoing[1]
    <3>1. /\ q \in Seq(Task) /\ Len(q) = Len(ongoing) + Len(pending)
          /\ \A k \in 1 .. Len(ongoing) + Len(pending) :
               q[k] = IF k <= Len(ongoing) THEN ongoing[k] ELSE pending[k - Len(ongoing)]
      BY <2>1, <2>3, ConcatProperties
    <3>2. Len(pending) \in Nat
      BY <2>1, LenProperties
    <3>3. QED BY <2>1, <3>1, <3>2
  <2>5. Foreseen(q, Stored, expected)
    BY <2>3 DEF BufferInv
  <2>6. /\ held.tag \in Tag /\ held.index \in Index /\ held.offset \in Offset
        /\ cursor = held.offset
        /\ line[cursor] = mem[held.tag][held.index][cursor] /\ line[cursor] \in Word
    BY <1>1, <2>1 DEF BufferTypeOK, DBusReq, OneBurst, LineAgrees
  <2>7. Stored[held.tag][held.index][held.offset] = line[cursor]
    BY <1>1, <2>1, <2>6, StoredLemma
  <2>8. ASSUME NEW l \in Lane PROVE q[1].data[l] = line[cursor][l]
    <3> HIDE DEF Stored
    <3>1. 1 \in 1 .. Len(q) /\ q[1].req = held
      BY <2>1, <2>4
    <3>2. LeftBy(q, Stored, 1 - 1, held.tag, held.index, held.offset, l, q[1].data[l])
      BY <2>5, <3>1 DEF Foreseen
    <3>3. q[1].data[l] = Stored[held.tag][held.index][held.offset][l]
      BY <3>2 DEF LeftBy
    <3>4. QED BY <2>7, <3>3
  <2>9. ongoing[1].data = line[cursor]
    <3>1. ongoing[1].data \in Word
      BY <2>2 DEF Task
    <3>2. QED BY <2>4, <2>6, <2>8, <3>1 DEF Word
  <2>10. QED BY <2>2, <2>9 DEF RData
<1>4. QED BY <1>1, <1>2, <1>3 DEF AnswersInOrder, QueuesFollow

\* The one-line buffer answers the pipelined driver in order: for every test, every length
\* of a line and every length of the driver's queues.
THEOREM PipelineInOrder == PipelineSpec => []AnswersInOrder
BY BufferInitInv, BufferNextInv, BufferInvShows, PTL DEF PipelineSpec

\* The same, of the target as the Makefile builds it among the others.
THEOREM BufferTargetInOrder == TargetsSpec => []BufferAnswersInOrder
<1>1. TargetsInit => (target = "buffer" => BufferInv)
  BY BufferInitInv DEF TargetsInit
<1>2. (target = "buffer" => BufferInv) /\ [TargetsNext]_targetVars =>
        (target = "buffer" => BufferInv)'
  <2> SUFFICES ASSUME target = "buffer" => BufferInv, [TargetsNext]_targetVars, target' = "buffer"
               PROVE  BufferInv'
    OBVIOUS
  <2>1. target' = target
    BY DEF TargetsNext, RunnerTarget, PipeTarget, RAMTarget, BufferTarget, PortTarget,
           ConfregTarget, targetVars
  <2>2. [PipelineNext]_pipelineVars
    BY <2>1 DEF TargetsNext, RunnerTarget, PipeTarget, RAMTarget, BufferTarget, PortTarget,
                ConfregTarget, targetVars, pipelineVars
  <2>3. QED BY <2>1, <2>2, BufferNextInv
<1>3. (target = "buffer" => BufferInv) => BufferAnswersInOrder
  BY BufferInvShows DEF BufferAnswersInOrder
<1>4. QED BY <1>1, <1>2, <1>3, PTL DEF TargetsSpec
===============================================================================
