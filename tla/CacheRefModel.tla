---------------------------- MODULE CacheRefModel -----------------------------
(***************************************************************************)
(* The reference model the test bench compares the cache with: class       *)
(* CacheRefModel of src/verilate/source/mycpu/VCacheTop/cache_ref.cpp.     *)
(*                                                                         *)
(* It works on whole operations, and cuts a word's address for itself: its *)
(* 4 lines of a set, its 4 sets and its 4 words of a line are constants    *)
(* that DCache.sv does not share.  A set is an array of lines that are     *)
(* physically moved: the last position holds the line used last, position  *)
(* 0 the victim.  load and store differ in the last assignment only.       *)
(***************************************************************************)
EXTENDS CBus

CONSTANTS
  RefWays,     \* lines of a set
  RefSets,     \* sets
  RefLineLen,  \* words of a line
  MemWords     \* words of the memory

ASSUME RefAssumption ==
  /\ RefWays \in Nat \ {0}
  /\ RefSets \in Nat \ {0}
  /\ RefLineLen \in Nat \ {0}
  /\ MemWords \in Nat
  /\ MemWords % RefLineLen = 0

VARIABLES
  lines,  \* cache_data and meta
  back    \* the reference model's own memory

refVars == <<lines, back>>

Place     == 0 .. RefWays - 1
Last      == RefWays - 1
RefIndex  == 0 .. RefSets - 1
RefOffset == 0 .. RefLineLen - 1
Address   == 0 .. MemWords - 1  \* of words
Line      == [tag: Nat, valid: BOOLEAN, dirty: BOOLEAN, data: [RefOffset -> Word]]

\* tag, index, offset and start of a word's address.
TagOf(a)    == a \div (RefSets * RefLineLen)
IndexOf(a)  == (a \div RefLineLen) % RefSets
OffsetOf(a) == a % RefLineLen
Start(a)    == (a \div RefLineLen) * RefLineLen

RefReq == [addr: Address, strobe: SUBSET Lane, data: Word]

RefTypeOK ==
  /\ lines \in [RefIndex -> [Place -> Line]]
  /\ back \in [Address -> Word]

RefReset ==
  /\ lines = [i \in RefIndex |-> [p \in Place |->
                [tag |-> 0, valid |-> FALSE, dirty |-> FALSE,
                 data |-> [o \in RefOffset |-> ZeroWord]]]]
  /\ back = [a \in Address |-> ZeroWord]

-------------------------------------------------------------------------------
\* Place p of the address's set holds the address's line.
Holds(a, p) == lines[IndexOf(a)][p].valid /\ lines[IndexOf(a)][p].tag = TagOf(a)

RefHits(a) == {p \in Place : Holds(a, p)}

\* position: the first hit, else 0.
RefPosition(a) ==
  IF RefHits(a) = {} THEN 0
  ELSE CHOOSE p \in RefHits(a) : \A q \in RefHits(a) : p <= q

\* The loop of swaps from position to the last place but one.
Rotate(set, p) ==
  [q \in Place |-> IF q < p THEN set[q] ELSE IF q = Last THEN set[p] ELSE set[q + 1]]

\* The memory after the flush: a miss stores the words of a dirty victim, which are those
\* of its tag and index.
Flushed(a) ==
  LET victim == lines[IndexOf(a)][RefPosition(a)] IN
  IF RefHits(a) = {} /\ victim.dirty
  THEN [b \in Address |-> IF IndexOf(b) = IndexOf(a) /\ TagOf(b) = victim.tag
                          THEN victim.data[OffsetOf(b)] ELSE back[b]]
  ELSE back

\* The line that ends in the last place: the one found, or fetched after the flush.
Served(a) ==
  IF RefHits(a) # {} THEN lines[IndexOf(a)][RefPosition(a)]
  ELSE [tag |-> TagOf(a), valid |-> TRUE, dirty |-> FALSE,
        data |-> [o \in RefOffset |-> Flushed(a)[Start(a) + o]]]

\* What load returns.
RefLoaded(a) == Served(a).data[OffsetOf(a)]

\* The served line, once a store has put its word into it.
Written(r) ==
  IF r.strobe = {} THEN Served(r.addr)
  ELSE [Served(r.addr) EXCEPT !.dirty = TRUE,
                              !.data[OffsetOf(r.addr)] = Merge(@, r.data, r.strobe)]

RefOperation(r) ==
  LET set == lines[IndexOf(r.addr)] IN
  /\ back' = Flushed(r.addr)
  /\ lines' = [lines EXCEPT ![IndexOf(r.addr)] =
                 [Rotate(set, RefPosition(r.addr)) EXCEPT ![Last] = Written(r)]]
===============================================================================
