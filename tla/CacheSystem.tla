----------------------------- MODULE CacheSystem ------------------------------
(***************************************************************************)
(* VCacheTop with its test bench: the cache, the memory device it drives,  *)
(* and a DBus client that may issue any request of Requests whenever the   *)
(* cache is IDLE.  Both ways of using the handshake are such clients: the  *)
(* test bench drops valid after addr_ok, the core holds the request until  *)
(* data_ok, and the cache looks at dreq in IDLE only.                      *)
(*                                                                         *)
(* One step is one clock edge: the device and the cache move together, on  *)
(* the same response.                                                      *)
(***************************************************************************)
EXTENDS DCache, CBusDevice

CONSTANTS Requests, NoData

ASSUME RequestsAssumption ==
  /\ Requests \subseteq DBusReq
  /\ NoData \notin Word

vars == <<cacheVars, devVars>>

Init == CacheInit /\ DeviceInit

CacheCycle(resp) ==
  \/ \E rq \in Requests : Accept(rq)
  \/ Flush(resp)
  \/ Fetch(resp)
  \/ Serve

Cycle(resp) == DeviceCycle(dcreq, resp) /\ CacheCycle(resp)

Next == \E resp \in CBusResp : Cycle(resp)

Spec == Init /\ [][Next]_vars

\* The cycles of a request in progress that do not wait for the memory.
ServeCycle  == \E resp \in CBusResp : DeviceCycle(dcreq, resp) /\ Serve
MemoryCycle == \E resp \in CBusResp :
                 DeviceEnabled(dcreq, resp) /\ (Flush(resp) \/ Fetch(resp))

\* The clock does not stop, and the device is enabled infinitely often (p_disable < 1).
Fairness == WF_vars(ServeCycle) /\ WF_vars(MemoryCycle)

FairSpec == Spec /\ Fairness

-------------------------------------------------------------------------------
TypeOK == CacheTypeOK /\ DeviceTypeOK

\* The way that FETCH is overwriting: its meta data is the victim's, its words are not.
Refilling(i, w) == state = "FETCH" /\ i = req.index /\ w = Position

Live(i, w) == meta[i][w].valid /\ ~Refilling(i, w)

\* The recency order of every set stays a permutation of its ways, so that a victim is
\* always found and never the line just used (the concatenations of ooo_nxt).
OrderIsPermutation ==
  \A i \in Index :
    /\ \A j, k \in Way : order[i][j] = order[i][k] => j = k
    /\ \A w \in Way : \E k \in Way : order[i][k] = w

\* No two ways of a set hold the same line: the first-match search of IDLE would hide
\* one of them, and stores to it would be lost.
NoDuplicateLines ==
  \A i \in Index : \A v, w \in Way :
    meta[i][v].valid /\ meta[i][w].valid /\ meta[i][v].tag = meta[i][w].tag => v = w

\* FLUSH is decided by the dirty bit alone, with no look at valid.
DirtyIsValid == \A i \in Index : \A w \in Way : meta[i][w].dirty => meta[i][w].valid

\* A clean line equals memory, so dropping it without FLUSH loses nothing.
CleanLinesMatchMemory ==
  \A i \in Index : \A w \in Way :
    Live(i, w) /\ ~meta[i][w].dirty =>
      \A o \in Offset : ram[i][w][o] = mem[meta[i][w].tag][i][o]

\* The cache counts the beats of a burst with `cur`, the memory with its own counter:
\* they agree in every cycle, and both start a burst at its first word.
BeatsInLockstep ==
  /\ tx.busy => tx.addr = cur /\ tx.n = cur + 1 /\ dcreq.valid
  /\ ~tx.busy /\ dcreq.valid => cur = 0

\* The memory device's assertions hold: nothing of the request changes during a burst,
\* although the address of FLUSH is computed from the victim's tag in every cycle.
RequestHeldDuringBurst == DeviceAsserts(dcreq)

-------------------------------------------------------------------------------
\* The memory the client sees: a live line if there is one, else the memory's word.
View == [t \in Tag |-> [i \in Index |-> [o \in Offset |->
          IF \E w \in Hits(i, t) : ~Refilling(i, w)
          THEN ram[i][CHOOSE w \in Hits(i, t) : ~Refilling(i, w)][o]
          ELSE mem[t][i][o]]]]

Phase == IF state = "IDLE" THEN "free" ELSE IF state = "READY" THEN "answered" ELSE "accepted"

Abs == INSTANCE AtomicMemory WITH
         flat <- View, phase <- Phase, asked <- req,
         answer <- IF dresp.data_ok THEN dresp.data ELSE NoData

\* The client cannot tell the cache from a flat memory: every answer is the last word
\* stored, no store is lost by an eviction, no refill changes another word.
Transparent == Abs!AbsSpec

\* Every accepted request is answered and retired.
AnswersEveryRequest == Abs!AbsFairSpec
===============================================================================
