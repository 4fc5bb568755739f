--------------------------------- MODULE CBus ---------------------------------
(***************************************************************************)
(* The buses of src/source/include/common.svh.                             *)
(*                                                                         *)
(* A 32-bit address is kept as the three fields the caches cut it into,    *)
(* {tag, index, offset}: the two byte-select bits and the field "size" are *)
(* ignored by every component modelled here.  A word is a function from    *)
(* byte lanes to bytes, because the strobe selects lanes.                  *)
(***************************************************************************)
EXTENDS Integers

CONSTANTS
  Tag,      \* values of the tag field; 0 is the value after reset
  Index,    \* values of the index field: the cache sets
  LineLen,  \* words in a cache line, 2^OFFSET_BITS
  Lane,     \* byte lanes of a word, the bits of a strobe
  Byte      \* what one lane holds; 0 is the value after reset

ASSUME CBusAssumption ==
  /\ 0 \in Tag
  /\ Index # {}
  /\ LineLen \in Nat \ {0}
  /\ 0 \in Byte

Offset == 0 .. LineLen - 1
Word   == [Lane -> Byte]

ZeroWord == [l \in Lane |-> 0]

\* A requested DBus access: strobe = {} is a load.
DBusReq == [tag: Tag, index: Index, offset: Offset, strobe: SUBSET Lane, data: Word]

\* A driven CBus request and the response of one clock cycle.  len counts words.
CBusReq  == [valid: BOOLEAN, is_write: BOOLEAN, tag: Tag, index: Index, offset: Offset,
             strobe: SUBSET Lane, data: Word, len: {1, LineLen}]
CBusResp == [ready: BOOLEAN, last: BOOLEAN, data: Word]

\* The lanes the strobe enables are written, the others keep their bytes.
Merge(old, new, strobe) == [l \in Lane |-> IF l \in strobe THEN new[l] ELSE old[l]]

\* The next word of a burst; the offset field wraps inside its line.
NextOffset(o) == IF o = LineLen - 1 THEN 0 ELSE o + 1
===============================================================================
