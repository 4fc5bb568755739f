------------------------------ MODULE CacheDiff -------------------------------
(***************************************************************************)
(* The comparison of src/verilate/include/testbench.h: every operation is  *)
(* run on the cache to its end and then on the reference model.            *)
(*                                                                         *)
(* The two cut the same address differently.  DCache.sv, with the          *)
(* parameters VCacheTop.sv leaves at their defaults, has lines of 16 words *)
(* and takes its index from addr[7:6]; cache_ref.cpp has lines of 4 words  *)
(* and takes it from addr[5:4].  They hold different lines, evict at       *)
(* different times and write back different words.                         *)
(***************************************************************************)
EXTENDS CacheSystem, CacheRefModel

CONSTANTS NumSets  \* sets of the cache, 2^INDEX_BITS

\* The address the cache cuts into tag, index and offset.
WordAddress(t, i, o) == (t * NumSets + i) * LineLen + o

\* The memory of both holds every word the cache can address.
ASSUME AddressAssumption ==
  /\ NumSets \in Nat
  /\ Index = 0 .. NumSets - 1
  /\ Tag \subseteq Nat
  /\ \A t \in Tag, i \in Index, o \in Offset : WordAddress(t, i, o) \in Address

diffVars == <<vars, refVars>>

\* The arguments of the operation in progress, as the reference model gets them.
RefArgs == [addr |-> WordAddress(req.tag, req.index, req.offset),
            strobe |-> req.strobe, data |-> req.data]

DiffInit == Init /\ RefReset

\* The reference model runs an operation when the cache has finished it.
DiffNext ==
  /\ Next
  /\ IF state = "READY" THEN RefOperation(RefArgs) ELSE UNCHANGED refVars

DiffSpec == DiffInit /\ [][DiffNext]_diffVars

-------------------------------------------------------------------------------
\* "different outputs from RTL model and reference model": the word on the bus with
\* data_ok is the word the reference model is about to return, although the two have
\* fetched and evicted different lines.
SameOutputs == state = "READY" => dresp.data = RefLoaded(RefArgs.addr)

\* The two memories differ in no word but those that one of the two caches holds in a
\* dirty line: what either has evicted is in its memory, and nothing else has changed.
MemoriesDifferInDirtyLines ==
  \A t \in Tag, i \in Index, o \in Offset :
    LET a == WordAddress(t, i, o) IN
    mem[t][i][o] # back[a] =>
      \/ \E w \in Hits(i, t) : meta[i][w].dirty
      \/ \E p \in RefHits(a) : lines[IndexOf(a)][p].dirty

\* check_memory, "reference model's memory content is different from RTL model": between
\* operations the memories are equal.  They are not, once either side alone has evicted a
\* line that was stored to: no invariant, and no run has it.  It is here for TLC to show how.
SameMemory ==
  state = "IDLE" =>
    \A t \in Tag, i \in Index, o \in Offset : mem[t][i][o] = back[WordAddress(t, i, o)]
===============================================================================
