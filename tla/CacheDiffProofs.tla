--------------------------- MODULE CacheDiffProofs ----------------------------
(***************************************************************************)
(* Proofs about CacheDiff: the cache and the reference model of its test   *)
(* bench give the same answers, for every number of tags, sets, ways and   *)
(* words per line of the one and of the other, whatever the client asks    *)
(* for.                                                                    *)
(*                                                                         *)
(* Neither side's lines say anything of the other's.  Both show a flat     *)
(* memory: View of CacheSystem, and what load of cache_ref.cpp would       *)
(* return.  The two are kept equal, word address by word address.          *)
(***************************************************************************)
EXTENDS CacheDiff, CacheSystemProofs

\* The words that load of cache_ref.cpp would return are the words the cache's client sees.
ViewsAgree ==
  \A t \in Tag, i \in Index, o \in Offset :
    View[t][i][o] = RefLoaded(WordAddress(t, i, o))

\* The reference model's own invariant: it holds a line once, no dirty line is invalid, and
\* its clean lines equal its memory.
RefInv ==
  /\ RefTypeOK
  /\ \A a \in Address : \A p, q \in Place : Holds(a, p) /\ Holds(a, q) => p = q
  /\ \A i \in RefIndex, p \in Place : lines[i][p].dirty => lines[i][p].valid
  /\ \A a \in Address, p \in Place :
       Holds(a, p) /\ ~lines[IndexOf(a)][p].dirty =>
         lines[IndexOf(a)][p].data[OffsetOf(a)] = back[a]

DiffInv == RefInv /\ ViewsAgree

-------------------------------------------------------------------------------
\* Division with remainder.
LEMMA DivMod ==
  ASSUME NEW n \in Int, NEW d \in Nat \ {0}
  PROVE  n \div d \in Int /\ n % d \in 0 .. d - 1 /\ n = (n \div d) * d + (n % d)
OBVIOUS

\* Quotient and remainder are determined.
LEMMA DivModUnique ==
  ASSUME NEW d \in Nat \ {0}, NEW q \in Int, NEW r \in 0 .. d - 1
  PROVE  (q * d + r) \div d = q /\ (q * d + r) % d = r
OBVIOUS

\* Products with a line length keep the order.
LEMMA ProductOrder ==
  ASSUME NEW d \in Nat \ {0}, NEW x \in Int, NEW y \in Int
  PROVE  /\ x * d < y * d => x < y
         /\ x < y => (x + 1) * d <= y * d
OBVIOUS

\* Dividing by a line and then by the sets is dividing by all sets at once.
LEMMA DivTwice ==
  ASSUME NEW n \in Nat, NEW s \in Nat \ {0}, NEW l \in Nat \ {0}
  PROVE  n \div (s * l) = (n \div l) \div s
<1> DEFINE q == n \div l
           r == n % l
           t == q \div s
           i == q % s
<1>1. q \in Int /\ r \in 0 .. l - 1 /\ n = q * l + r
  BY DivMod
<1>2. t \in Int /\ i \in 0 .. s - 1 /\ q = t * s + i
  BY <1>1, DivMod
<1> HIDE DEF q, r, t, i
<1>3. (t * s + i) * l = t * (s * l) + i * l
  BY <1>1, <1>2
<1>4. n = t * (s * l) + (i * l + r)
  BY <1>1, <1>2, <1>3
<1>5. s * l \in Nat \ {0}
  OBVIOUS
<1>6. i * l + r \in 0 .. s * l - 1
  <2>1. i * l \in Nat /\ i * l <= (s - 1) * l
    BY <1>2
  <2>2. (s - 1) * l = s * l - l
    OBVIOUS
  <2>3. r \in Nat /\ r <= l - 1
    BY <1>1
  <2>4. QED BY <1>5, <2>1, <2>2, <2>3
<1>7. n \div (s * l) = t
  BY <1>2, <1>4, <1>5, <1>6, DivModUnique
<1>8. QED BY <1>7 DEF t, q

\* A word's address is put together again from its tag, index and offset, and the words
\* of its line follow the start of the line.
LEMMA AddressFacts ==
  ASSUME NEW a \in Address
  PROVE  /\ TagOf(a) \in Nat /\ IndexOf(a) \in RefIndex /\ OffsetOf(a) \in RefOffset
         /\ \A o \in RefOffset : Start(a) + o \in Address
         /\ \A b \in Address : TagOf(b) = TagOf(a) /\ IndexOf(b) = IndexOf(a) =>
              b = Start(a) + OffsetOf(b)
<1>0. RefLineLen \in Nat \ {0} /\ RefSets \in Nat \ {0} /\ MemWords \in Nat
  BY RefAssumption
<1> USE <1>0
<1>1. \A b \in Address :
        /\ b \in Nat
        /\ b \div RefLineLen \in Nat /\ b % RefLineLen \in 0 .. RefLineLen - 1
        /\ b = (b \div RefLineLen) * RefLineLen + (b % RefLineLen)
        /\ TagOf(b) = (b \div RefLineLen) \div RefSets
  <2> SUFFICES ASSUME NEW b \in Address
               PROVE  /\ b \in Nat
                      /\ b \div RefLineLen \in Nat /\ b % RefLineLen \in 0 .. RefLineLen - 1
                      /\ b = (b \div RefLineLen) * RefLineLen + (b % RefLineLen)
                      /\ TagOf(b) = (b \div RefLineLen) \div RefSets
    OBVIOUS
  <2>1. b \in Nat
    BY DEF Address
  <2>2. /\ b \div RefLineLen \in Int /\ b % RefLineLen \in 0 .. RefLineLen - 1
        /\ b = (b \div RefLineLen) * RefLineLen + (b % RefLineLen)
    BY <2>1, DivMod
  <2>3. b \div RefLineLen \in Nat
    BY <2>1
  <2>4. TagOf(b) = (b \div RefLineLen) \div RefSets
    BY <2>1, DivTwice DEF TagOf
  <2>5. QED BY <2>1, <2>2, <2>3, <2>4
<1>2. \A q \in Nat : /\ q \div RefSets \in Nat /\ q % RefSets \in 0 .. RefSets - 1
                     /\ q = (q \div RefSets) * RefSets + (q % RefSets)
  <2> SUFFICES ASSUME NEW q \in Nat
               PROVE  /\ q \div RefSets \in Nat /\ q % RefSets \in 0 .. RefSets - 1
                      /\ q = (q \div RefSets) * RefSets + (q % RefSets)
    OBVIOUS
  <2>1. q \div RefSets \in Nat
    OBVIOUS
  <2>2. QED BY <2>1, DivMod
<1>3. TagOf(a) \in Nat /\ IndexOf(a) \in RefIndex /\ OffsetOf(a) \in RefOffset
  BY <1>1, <1>2 DEF IndexOf, OffsetOf, RefIndex, RefOffset
<1>4. ASSUME NEW o \in RefOffset PROVE Start(a) + o \in Address
  <2> DEFINE q == a \div RefLineLen
             m == MemWords \div RefLineLen
  <2>1. m \in Int /\ MemWords = m * RefLineLen
    <3>1. MemWords \in Int
      BY <1>0
    <3>2. /\ MemWords \div RefLineLen \in Int
          /\ MemWords = (MemWords \div RefLineLen) * RefLineLen + (MemWords % RefLineLen)
      BY <3>1, DivMod
    <3>3. MemWords % RefLineLen = 0
      BY RefAssumption
    <3>4. QED BY <3>2, <3>3
  <2>2. q \in Nat /\ q * RefLineLen <= a /\ a < MemWords
    BY <1>1 DEF Address
  <2>3. o \in Nat /\ o < RefLineLen
    BY DEF RefOffset
  <2> HIDE DEF q, m
  <2>4. q * RefLineLen < m * RefLineLen
    <3>1. q * RefLineLen \in Int /\ a \in Int
      BY <2>2 DEF Address
    <3>2. q * RefLineLen < MemWords
      BY <2>2, <3>1
    <3>3. QED BY <2>1, <3>2
  <2>5. q < m
    BY <2>1, <2>2, <2>4, ProductOrder
  <2>6. (q + 1) * RefLineLen <= m * RefLineLen
    BY <2>1, <2>2, <2>5, ProductOrder
  <2>7. q * RefLineLen + o \in Nat /\ q * RefLineLen + o < MemWords
    BY <2>1, <2>2, <2>3, <2>6
  <2>8. QED BY <2>7 DEF Start, q, Address
<1>5. ASSUME NEW b \in Address, TagOf(b) = TagOf(a), IndexOf(b) = IndexOf(a)
      PROVE  b = Start(a) + OffsetOf(b)
  <2> DEFINE q == a \div RefLineLen
             s == b \div RefLineLen
  <2>1. s = q
    <3>1. q \in Nat /\ s \in Nat /\ TagOf(a) = q \div RefSets /\ TagOf(b) = s \div RefSets
      BY <1>1
    <3>2. IndexOf(a) = q % RefSets /\ IndexOf(b) = s % RefSets
      BY DEF IndexOf
    <3> HIDE DEF q, s
    <3>3. /\ q = (q \div RefSets) * RefSets + (q % RefSets)
          /\ s = (s \div RefSets) * RefSets + (s % RefSets)
      BY <1>2, <3>1, Zenon
    <3>4. q \div RefSets = s \div RefSets /\ q % RefSets = s % RefSets
      BY <1>5, <3>1, <3>2
    <3>5. QED BY <3>3, <3>4, Zenon
  <2>2. QED BY <1>1, <2>1 DEF Start, OffsetOf
<1>6. QED BY <1>3, <1>4, <1>5

\* The cache's fields of a word are determined by its address.
LEMMA WordAddressUnique ==
  ASSUME NEW t \in Tag, NEW i \in Index, NEW o \in Offset,
         NEW u \in Tag, NEW j \in Index, NEW n \in Offset,
         WordAddress(t, i, o) = WordAddress(u, j, n)
  PROVE  t = u /\ i = j /\ o = n
<1> USE CBusAssumption, AddressAssumption
<1>1. /\ t \in Int /\ u \in Int /\ NumSets \in Nat \ {0}
      /\ i \in 0 .. NumSets - 1 /\ j \in 0 .. NumSets - 1
      /\ o \in 0 .. LineLen - 1 /\ n \in 0 .. LineLen - 1
  BY DEF Offset
<1>2. t * NumSets + i \in Int /\ u * NumSets + j \in Int
  BY <1>1
<1>3. o = n /\ t * NumSets + i = u * NumSets + j
  <2>1. /\ ((t * NumSets + i) * LineLen + o) \div LineLen = t * NumSets + i
        /\ ((t * NumSets + i) * LineLen + o) % LineLen = o
    BY <1>1, <1>2, DivModUnique, Zenon
  <2>2. /\ ((u * NumSets + j) * LineLen + n) \div LineLen = u * NumSets + j
        /\ ((u * NumSets + j) * LineLen + n) % LineLen = n
    BY <1>1, <1>2, DivModUnique, Zenon
  <2>3. QED BY <2>1, <2>2 DEF WordAddress
<1>4. t = u /\ i = j
  <2>1. (t * NumSets + i) \div NumSets = t /\ (t * NumSets + i) % NumSets = i
    BY <1>1, DivModUnique, Zenon
  <2>2. (u * NumSets + j) \div NumSets = u /\ (u * NumSets + j) % NumSets = j
    BY <1>1, DivModUnique, Zenon
  <2>3. QED BY <1>3, <2>1, <2>2
<1>5. QED BY <1>3, <1>4

-------------------------------------------------------------------------------
\* The search finds the one place that holds the line, if there is one.
LEMMA SearchFacts ==
  ASSUME RefInv, NEW a \in Address
  PROVE  /\ RefPosition(a) \in Place /\ Last \in Place /\ 0 \in Place
         /\ RefHits(a) # {} => Holds(a, RefPosition(a))
         /\ \A p \in Place : Holds(a, p) => RefHits(a) # {} /\ p = RefPosition(a)
<1>0. Last \in Place /\ 0 \in Place
  BY RefAssumption DEF Last, Place
<1>1. CASE RefHits(a) = {}
  BY <1>0, <1>1 DEF RefPosition, RefHits
<1>2. CASE RefHits(a) # {}
  <2>1. PICK h \in Place : Holds(a, h)
    BY <1>2 DEF RefHits
  <2>2. \A q \in RefHits(a) : q = h
    BY <2>1 DEF RefInv, RefHits
  <2>3. h <= h
    BY <2>1 DEF Place
  <2>4. (CHOOSE p \in RefHits(a) : \A q \in RefHits(a) : p <= q) = h
    BY <2>1, <2>2, <2>3 DEF RefHits
  <2>5. RefPosition(a) = h
    BY <1>2, <2>4 DEF RefPosition
  <2>6. QED BY <1>0, <1>2, <2>1, <2>2, <2>5 DEF RefHits
<1>3. QED BY <1>1, <1>2

\* The place from which the line that ends in place q has come.
Origin(p, q) == IF q < p THEN q ELSE q + 1

\* The swaps lose no line but the one they take to the last place.
LEMMA OriginFacts ==
  ASSUME NEW p \in Place
  PROVE  /\ \A q \in Place \ {Last} : Origin(p, q) \in Place \ {p}
         /\ \A q, s \in Place : Origin(p, q) = Origin(p, s) => q = s
         /\ \A s \in Place \ {p} : \E q \in Place \ {Last} : Origin(p, q) = s
         /\ \A set : \A q \in Place \ {Last} : Rotate(set, p)[q] = set[Origin(p, q)]
<1> USE RefAssumption
<1>1. \A q \in Place \ {Last} : Origin(p, q) \in Place \ {p}
  BY DEF Place, Last, Origin
<1>2. \A q, s \in Place : Origin(p, q) = Origin(p, s) => q = s
  BY DEF Place, Origin
<1>3. ASSUME NEW s \in Place \ {p} PROVE \E q \in Place \ {Last} : Origin(p, q) = s
  <2>1. CASE s < p
    BY <2>1 DEF Place, Last, Origin
  <2>2. CASE ~(s < p)
    <3>1. s - 1 \in Place \ {Last} /\ Origin(p, s - 1) = s
      BY <2>2 DEF Place, Last, Origin
    <3>2. QED BY <3>1
  <2>3. QED BY <2>1, <2>2
<1>4. \A set : \A q \in Place \ {Last} : Rotate(set, p)[q] = set[Origin(p, q)]
  BY DEF Rotate, Origin
<1>5. QED BY <1>1, <1>2, <1>3, <1>4

\* load returns the word of the line that holds it, else the memory's word: the flush of
\* the victim does not touch it, and the fetch puts it at its offset.
LEMMA LoadedFacts ==
  ASSUME RefInv, NEW a \in Address
  PROVE  /\ \A p \in Place : Holds(a, p) =>
              RefLoaded(a) = lines[IndexOf(a)][p].data[OffsetOf(a)]
         /\ (\A p \in Place : ~Holds(a, p)) => RefLoaded(a) = back[a]
<1>1. ASSUME NEW p \in Place, Holds(a, p)
      PROVE  RefLoaded(a) = lines[IndexOf(a)][p].data[OffsetOf(a)]
  BY <1>1, SearchFacts DEF RefLoaded, Served
<1>2. ASSUME \A p \in Place : ~Holds(a, p) PROVE RefLoaded(a) = back[a]
  <2> DEFINE victim == lines[IndexOf(a)][RefPosition(a)]
  <2>1. RefHits(a) = {}
    BY <1>2 DEF RefHits
  <2>2. OffsetOf(a) \in RefOffset /\ Start(a) + OffsetOf(a) = a /\ IndexOf(a) \in RefIndex
    BY AddressFacts
  <2>3. Served(a).data[OffsetOf(a)] = Flushed(a)[a]
    BY <2>1, <2>2 DEF Served
  <2>4. Flushed(a)[a] = back[a]
    <3>1. CASE victim.dirty
      <4>1. RefPosition(a) \in Place
        BY SearchFacts
      <4>2. victim.valid
        BY <2>2, <3>1, <4>1 DEF RefInv
      <4>3. TagOf(a) # victim.tag
        BY <1>2, <4>1, <4>2 DEF Holds
      <4>4. QED BY <2>1, <3>1, <4>3 DEF Flushed
    <3>2. CASE ~victim.dirty
      BY <3>2 DEF Flushed
    <3>3. QED BY <3>1, <3>2
  <2>5. QED BY <2>3, <2>4 DEF RefLoaded
<1>3. QED BY <1>1, <1>2

\* The memory after the flush: changed at most where the victim was held, which it now equals.
LEMMA FlushedFacts ==
  ASSUME RefInv, NEW a \in Address
  PROVE  LET victim == lines[IndexOf(a)][RefPosition(a)] IN
         /\ Flushed(a) \in [Address -> Word]
         /\ RefHits(a) # {} => Flushed(a) = back
         /\ \A b \in Address :
              IF RefHits(a) = {} /\ IndexOf(b) = IndexOf(a) /\ Holds(b, RefPosition(a))
              THEN Flushed(a)[b] = victim.data[OffsetOf(b)]
              ELSE Flushed(a)[b] = back[b]
<1> DEFINE victim == lines[IndexOf(a)][RefPosition(a)]
<1>1. /\ RefPosition(a) \in Place /\ IndexOf(a) \in RefIndex
      /\ victim \in Line /\ back \in [Address -> Word]
      /\ \A b \in Address : OffsetOf(b) \in RefOffset
  BY SearchFacts, AddressFacts DEF RefInv, RefTypeOK
<1>2. victim.dirty => victim.valid
  BY <1>1 DEF RefInv
<1>3. \A b \in Address : IndexOf(b) = IndexOf(a) =>
        (Holds(b, RefPosition(a)) <=> victim.valid /\ TagOf(b) = victim.tag)
  BY DEF Holds
<1>4. \A b \in Address :
        IndexOf(b) = IndexOf(a) /\ Holds(b, RefPosition(a)) /\ ~victim.dirty =>
          victim.data[OffsetOf(b)] = back[b]
  BY <1>1 DEF RefInv
<1>5. victim.data \in [RefOffset -> Word]
  BY <1>1 DEF Line
<1> HIDE DEF victim
<1>6. CASE RefHits(a) = {} /\ victim.dirty
  <2>1. Flushed(a) = [b \in Address |->
                        IF IndexOf(b) = IndexOf(a) /\ TagOf(b) = victim.tag
                        THEN victim.data[OffsetOf(b)] ELSE back[b]]
    BY <1>6 DEF Flushed, victim
  <2>2. \A b \in Address : victim.data[OffsetOf(b)] \in Word
    BY <1>1, <1>5
  <2>3. Flushed(a) \in [Address -> Word]
    BY <1>1, <2>1, <2>2
  <2>4. QED BY <1>2, <1>3, <1>6, <2>1, <2>3 DEF victim
<1>7. CASE ~(RefHits(a) = {} /\ victim.dirty)
  <2>1. Flushed(a) = back
    BY <1>7 DEF Flushed, victim
  <2>2. QED BY <1>1, <1>4, <1>7, <2>1 DEF victim
<1>8. QED BY <1>6, <1>7

\* The line that an operation leaves in the last place.
LEMMA WrittenFacts ==
  ASSUME RefInv, NEW r \in RefReq
  PROVE  LET a == r.addr
             w == Written(r) IN
         /\ w \in Line /\ w.valid /\ w.tag = TagOf(a)
         /\ \A b \in Address : TagOf(b) = TagOf(a) /\ IndexOf(b) = IndexOf(a) =>
              /\ w.data[OffsetOf(b)] = IF b = a THEN Merge(RefLoaded(b), r.data, r.strobe)
                                       ELSE RefLoaded(b)
              /\ ~w.dirty => w.data[OffsetOf(b)] = Flushed(a)[b]
<1> DEFINE a == r.addr
           s == Served(a)
           w == Written(r)
<1>1. /\ a \in Address /\ r.strobe \in SUBSET Lane /\ r.data \in Word
      /\ a \in Address => TagOf(a) \in Nat /\ IndexOf(a) \in RefIndex /\ OffsetOf(a) \in RefOffset
  BY AddressFacts DEF RefReq
<1>2. RefPosition(a) \in Place /\ (RefHits(a) # {} => Holds(a, RefPosition(a)))
  BY <1>1, SearchFacts
<1>3. Flushed(a) \in [Address -> Word] /\ (RefHits(a) # {} => Flushed(a) = back)
  BY <1>1, FlushedFacts
<1>4. s \in Line /\ s.valid /\ s.tag = TagOf(a)
  <2>1. CASE RefHits(a) # {}
    <3>1. s = lines[IndexOf(a)][RefPosition(a)]
      BY <2>1 DEF Served
    <3>2. s \in Line
      BY <1>1, <1>2, <3>1 DEF RefInv, RefTypeOK
    <3>3. QED BY <1>2, <2>1, <3>1, <3>2 DEF Holds
  <2>2. CASE RefHits(a) = {}
    <3>1. s = [tag |-> TagOf(a), valid |-> TRUE, dirty |-> FALSE,
               data |-> [o \in RefOffset |-> Flushed(a)[Start(a) + o]]]
      BY <2>2 DEF Served
    <3>2. \A o \in RefOffset : Start(a) + o \in Address
      BY <1>1, AddressFacts
    <3>3. [o \in RefOffset |-> Flushed(a)[Start(a) + o]] \in [RefOffset -> Word]
      BY <1>3, <3>2
    <3>4. QED BY <1>1, <3>1, <3>3 DEF Line
  <2>3. QED BY <2>1, <2>2
\* What is served is what load would return, of every word of the line.
<1>5. ASSUME NEW b \in Address, TagOf(b) = TagOf(a), IndexOf(b) = IndexOf(a)
      PROVE  /\ s.data[OffsetOf(b)] = RefLoaded(b)
             /\ ~s.dirty => s.data[OffsetOf(b)] = Flushed(a)[b]
             /\ OffsetOf(b) \in RefOffset
             /\ OffsetOf(b) = OffsetOf(a) => b = a
  <2>1. /\ b = Start(a) + OffsetOf(b) /\ a = Start(a) + OffsetOf(a)
        /\ OffsetOf(b) \in RefOffset
    BY <1>1, <1>5, AddressFacts
  <2>2. CASE RefHits(a) # {}
    <3>1. Holds(b, RefPosition(a))
      BY <1>2, <1>5, <2>2 DEF Holds
    <3>2. s = lines[IndexOf(b)][RefPosition(a)]
      BY <1>5, <2>2 DEF Served
    <3>3. RefLoaded(b) = s.data[OffsetOf(b)]
      BY <1>2, <3>1, <3>2, LoadedFacts
    <3>4. ~s.dirty => s.data[OffsetOf(b)] = back[b]
      BY <1>2, <3>1, <3>2 DEF RefInv
    <3>5. QED BY <1>3, <2>1, <2>2, <3>3, <3>4
  <2>3. CASE RefHits(a) = {}
    <3>1. \A p \in Place : ~Holds(b, p)
      BY <1>1, <1>5, <2>3 DEF Holds, RefHits
    <3>2. RefLoaded(b) = back[b]
      BY <3>1, LoadedFacts
    <3>3. Flushed(a)[b] = back[b]
      BY <1>1, <1>2, <3>1, FlushedFacts
    <3>4. s.data[OffsetOf(b)] = Flushed(a)[b]
      BY <2>1, <2>3 DEF Served
    <3>5. QED BY <2>1, <3>2, <3>3, <3>4
  <2>4. QED BY <2>2, <2>3
<1>6. RefLoaded(a) = s.data[OffsetOf(a)] /\ s.data[OffsetOf(a)] \in Word
  BY <1>1, <1>4 DEF RefLoaded, Line
<1> HIDE DEF s, a
<1>7. CASE r.strobe = {}
  <2>1. w = s
    BY <1>7 DEF Written, s, a
  <2>2. Merge(RefLoaded(a), r.data, r.strobe) = RefLoaded(a)
    BY <1>1, <1>6, <1>7, MergeLemma
  <2>3. QED BY <1>4, <1>5, <2>1, <2>2 DEF a
<1>8. CASE r.strobe # {}
  <2> DEFINE m == Merge(s.data[OffsetOf(a)], r.data, r.strobe)
  <2>1. m \in Word
    BY <1>1, <1>6, MergeLemma
  <2>2. w = [s EXCEPT !.dirty = TRUE, !.data = [s.data EXCEPT ![OffsetOf(a)] = m]]
    BY <1>4, <1>8 DEF Written, Line, s, a
  <2> HIDE DEF m
  <2>3. s.data \in [RefOffset -> Word] /\ s.tag \in Nat
    BY <1>4 DEF Line
  <2>4. [s.data EXCEPT ![OffsetOf(a)] = m] \in [RefOffset -> Word]
    BY <1>1, <2>1, <2>3
  <2>5. /\ w \in Line /\ w.valid = s.valid /\ w.tag = s.tag /\ w.dirty = TRUE
        /\ w.data = [s.data EXCEPT ![OffsetOf(a)] = m]
    BY <1>4, <2>2, <2>4 DEF Line
  <2>6. ASSUME NEW b \in Address, TagOf(b) = TagOf(a), IndexOf(b) = IndexOf(a)
        PROVE  w.data[OffsetOf(b)] = IF b = a THEN Merge(RefLoaded(b), r.data, r.strobe)
                                     ELSE RefLoaded(b)
    <3>1. CASE b = a
      BY <1>1, <1>6, <2>3, <2>5, <3>1 DEF m
    <3>2. CASE b # a
      BY <1>5, <2>3, <2>5, <2>6, <3>2
    <3>3. QED BY <3>1, <3>2
  <2>7. QED BY <1>4, <2>5, <2>6 DEF a
<1>9. QED BY <1>7, <1>8

\* What load would return, read through its two facts, in this state and in the next.
LoadedOK ==
  \A b \in Address :
    /\ \A q \in Place : Holds(b, q) =>
         RefLoaded(b) = lines[IndexOf(b)][q].data[OffsetOf(b)]
    /\ (\A q \in Place : ~Holds(b, q)) => RefLoaded(b) = back[b]

LEMMA LoadedLemma == RefInv => LoadedOK
BY LoadedFacts DEF LoadedOK

LEMMA LoadedNext == RefInv' => LoadedOK'
BY LoadedLemma, PTL

\* An operation keeps the invariant, and changes what load would return at its own word only.
LEMMA RefStep ==
  ASSUME RefInv, NEW r \in RefReq, RefOperation(r)
  PROVE  /\ RefInv'
         /\ \A b \in Address :
              RefLoaded(b)' = IF b = r.addr THEN Merge(RefLoaded(b), r.data, r.strobe)
                              ELSE RefLoaded(b)
<1> DEFINE a == r.addr
           i == IndexOf(a)
           p == RefPosition(a)
           w == Written(r)
           at(q) == Origin(p, q)
<1>1. /\ a \in Address /\ i \in RefIndex /\ p \in Place /\ Last \in Place
      /\ \A q \in Place : Holds(a, q) => q = p
      /\ RefHits(a) # {} => Holds(a, p)
      /\ \A b \in Address : IndexOf(b) \in RefIndex /\ OffsetOf(b) \in RefOffset
  <2>1. a \in Address
    BY DEF RefReq
  <2>2. QED BY <2>1, SearchFacts, AddressFacts
<1>2. /\ w \in Line /\ w.valid /\ w.tag = TagOf(a)
      /\ \A b \in Address : TagOf(b) = TagOf(a) /\ IndexOf(b) = i =>
           /\ w.data[OffsetOf(b)] = IF b = a THEN Merge(RefLoaded(b), r.data, r.strobe)
                                    ELSE RefLoaded(b)
           /\ ~w.dirty => w.data[OffsetOf(b)] = Flushed(a)[b]
  BY WrittenFacts
<1>3. /\ back' = Flushed(a)
      /\ lines' = [lines EXCEPT ![i] = [Rotate(lines[i], p) EXCEPT ![Last] = w]]
  BY DEF RefOperation
<1>4. /\ lines \in [RefIndex -> [Place -> Line]]
      /\ \A b \in Address : IndexOf(b) = i => (Holds(b, p) =>
           \A q \in Place : Holds(b, q) => q = p)
  BY <1>1 DEF RefInv, RefTypeOK
<1>5. /\ \A q \in Place \ {Last} : at(q) \in Place \ {p}
      /\ \A q, s \in Place : at(q) = at(s) => q = s
      /\ \A s \in Place \ {p} : \E q \in Place \ {Last} : at(q) = s
      /\ \A q \in Place \ {Last} : Rotate(lines[i], p)[q] = lines[i][at(q)]
  BY <1>1, OriginFacts
<1>6. /\ Flushed(a) \in [Address -> Word]
      /\ \A b \in Address :
           IF RefHits(a) = {} /\ IndexOf(b) = i /\ Holds(b, p)
           THEN back'[b] = lines[i][p].data[OffsetOf(b)]
           ELSE back'[b] = back[b]
  BY <1>1, <1>3, FlushedFacts
<1> HIDE DEF w, p, i, a, at
<1>7. /\ \A j \in RefIndex : j # i => lines'[j] = lines[j]
      /\ lines'[i][Last] = w
      /\ \A q \in Place \ {Last} : lines'[i][q] = lines[i][at(q)]
  <2>1. lines'[i] = [Rotate(lines[i], p) EXCEPT ![Last] = w]
    BY <1>1, <1>3, <1>4
  <2>2. DOMAIN Rotate(lines[i], p) = Place
    BY DEF Rotate
  <2>3. QED BY <1>1, <1>3, <1>4, <1>5, <2>1, <2>2
\* The lines after the operation, as words see them.
<1>8. \A b \in Address :
        /\ IndexOf(b) # i => \A q \in Place : Holds(b, q)' = Holds(b, q)
        /\ IndexOf(b) = i =>
             /\ Holds(b, Last)' <=> TagOf(b) = TagOf(a)
             /\ \A q \in Place \ {Last} : Holds(b, q)' = Holds(b, at(q))
  BY <1>1, <1>2, <1>7 DEF Holds
\* A word of the line asked for is in no place but the last.
<1>9. \A b \in Address : IndexOf(b) = i /\ TagOf(b) = TagOf(a) =>
        /\ \A s \in Place \ {p} : ~Holds(b, s)
        /\ Holds(b, p) => RefHits(a) # {}
  BY <1>1 DEF Holds, RefHits, i
<1>10. RefTypeOK'
  <2>1. \A j \in RefIndex, q \in Place : lines'[j][q] \in Line
    <3>1. ASSUME NEW j \in RefIndex, NEW q \in Place PROVE lines'[j][q] \in Line
      <4>1. CASE j # i
        BY <1>4, <1>7, <4>1
      <4>2. CASE j = i /\ q = Last
        BY <1>2, <1>7, <4>2
      <4>3. CASE j = i /\ q # Last
        BY <1>1, <1>4, <1>5, <1>7, <4>3
      <4>4. QED BY <4>1, <4>2, <4>3
    <3>2. QED BY <3>1
  <2>2. lines' \in [RefIndex -> [Place -> Line]]
    <3>1. [Rotate(lines[i], p) EXCEPT ![Last] = w] = [q \in Place |-> lines'[i][q]]
      <4>1. lines'[i] = [Rotate(lines[i], p) EXCEPT ![Last] = w]
        BY <1>1, <1>3, <1>4
      <4>2. QED BY <4>1 DEF Rotate
    <3>2. [Rotate(lines[i], p) EXCEPT ![Last] = w] \in [Place -> Line]
      BY <1>1, <2>1, <3>1
    <3>3. QED BY <1>1, <1>3, <1>4, <3>2
  <2>3. QED BY <1>3, <1>6, <2>2 DEF RefTypeOK
<1>11. ASSUME NEW b \in Address, NEW q \in Place, NEW s \in Place, Holds(b, q)', Holds(b, s)'
       PROVE  q = s
  <2>1. CASE IndexOf(b) # i
    BY <1>8, <1>11, <2>1 DEF RefInv
  <2>2. CASE IndexOf(b) = i /\ TagOf(b) = TagOf(a)
    <3>1. \A u \in Place \ {Last} : ~Holds(b, u)'
      BY <1>5, <1>8, <1>9, <2>2
    <3>2. QED BY <1>11, <3>1
  <2>3. CASE IndexOf(b) = i /\ TagOf(b) # TagOf(a)
    <3>1. q # Last /\ s # Last
      BY <1>8, <1>11, <2>3
    <3>2. /\ Holds(b, at(q)) /\ Holds(b, at(s)) /\ at(q) \in Place /\ at(s) \in Place
      BY <1>5, <1>8, <1>11, <2>3, <3>1
    <3>3. at(q) = at(s)
      BY <3>2 DEF RefInv
    <3>4. QED BY <1>5, <3>3
  <2>4. QED BY <2>1, <2>2, <2>3
<1>12. ASSUME NEW j \in RefIndex, NEW q \in Place, lines'[j][q].dirty
       PROVE  lines'[j][q].valid
  <2>1. CASE j # i
    BY <1>7, <1>12, <2>1 DEF RefInv
  <2>2. CASE j = i /\ q = Last
    BY <1>2, <1>7, <2>2
  <2>3. CASE j = i /\ q # Last
    <3>1. at(q) \in Place /\ lines'[j][q] = lines[i][at(q)]
      BY <1>5, <1>7, <2>3
    <3>2. QED BY <1>1, <1>12, <3>1 DEF RefInv
  <2>4. QED BY <2>1, <2>2, <2>3
\* The flush leaves the words of the lines that stay alone.
<1>13. ASSUME NEW b \in Address, NEW s \in Place, Holds(b, s), IndexOf(b) # i \/ s # p
       PROVE  back'[b] = back[b]
  <2>1. IndexOf(b) # i \/ ~Holds(b, p)
    BY <1>1, <1>13 DEF RefInv
  <2>2. QED BY <1>6, <2>1
<1>14. ASSUME NEW b \in Address, NEW q \in Place, Holds(b, q)',
              ~lines'[IndexOf(b)][q].dirty
       PROVE  lines'[IndexOf(b)][q].data[OffsetOf(b)] = back'[b]
  <2>1. CASE IndexOf(b) # i
    <3>1. Holds(b, q) /\ lines'[IndexOf(b)] = lines[IndexOf(b)]
      BY <1>1, <1>7, <1>8, <1>14, <2>1
    <3>2. lines[IndexOf(b)][q].data[OffsetOf(b)] = back[b]
      BY <1>14, <3>1 DEF RefInv
    <3>3. QED BY <1>13, <2>1, <3>1, <3>2
  <2>2. CASE IndexOf(b) = i /\ q = Last
    BY <1>2, <1>3, <1>7, <1>8, <1>14, <2>2
  <2>3. CASE IndexOf(b) = i /\ q # Last
    <3>1. /\ Holds(b, at(q)) /\ at(q) \in Place \ {p}
          /\ lines'[IndexOf(b)][q] = lines[IndexOf(b)][at(q)]
      BY <1>5, <1>7, <1>8, <1>14, <2>3
    <3>2. lines[IndexOf(b)][at(q)].data[OffsetOf(b)] = back[b]
      BY <1>14, <3>1 DEF RefInv
    <3>3. back'[b] = back[b]
      BY <1>13, <3>1
    <3>4. QED BY <3>1, <3>2, <3>3
  <2>4. QED BY <2>1, <2>2, <2>3
<1>15. RefInv'
  BY <1>10, <1>11, <1>12, <1>14 DEF RefInv
\* load of the next state.
<1>16. \A b \in Address :
         /\ \A q \in Place : Holds(b, q)' =>
              RefLoaded(b)' = lines'[IndexOf(b)][q].data[OffsetOf(b)]
         /\ (\A q \in Place : ~Holds(b, q)') => RefLoaded(b)' = back'[b]
  BY <1>15, LoadedNext DEF LoadedOK
<1>17. ASSUME NEW b \in Address
       PROVE  RefLoaded(b)' = IF b = a THEN Merge(RefLoaded(b), r.data, r.strobe)
                              ELSE RefLoaded(b)
  <2>1. CASE IndexOf(b) = i /\ TagOf(b) = TagOf(a)
    <3>1. RefLoaded(b)' = w.data[OffsetOf(b)]
      BY <1>1, <1>7, <1>8, <1>16, <2>1
    <3>2. QED BY <1>2, <2>1, <3>1
  <2>2. CASE IndexOf(b) # i
    <3>1. b # a /\ lines'[IndexOf(b)] = lines[IndexOf(b)] /\ back'[b] = back[b]
      BY <1>1, <1>6, <1>7, <2>2 DEF i
    <3>2. \A q \in Place : Holds(b, q)' = Holds(b, q)
      BY <1>8, <2>2
    <3>3. QED BY <1>16, <3>1, <3>2, LoadedFacts
  <2>3. CASE IndexOf(b) = i /\ TagOf(b) # TagOf(a)
    <3>1. b # a /\ ~Holds(b, Last)'
      BY <1>8, <2>3
    <3>2. CASE \E s \in Place \ {p} : Holds(b, s)
      <4>1. PICK s \in Place \ {p} : Holds(b, s)
        BY <3>2
      <4>2. PICK q \in Place \ {Last} : at(q) = s
        BY <1>5, <4>1
      <4>3. Holds(b, q)' /\ lines'[IndexOf(b)][q] = lines[IndexOf(b)][s]
        BY <1>7, <1>8, <2>3, <4>1, <4>2
      <4>4. RefLoaded(b)' = lines[IndexOf(b)][s].data[OffsetOf(b)]
        BY <1>16, <4>2, <4>3
      <4>5. RefLoaded(b) = lines[IndexOf(b)][s].data[OffsetOf(b)]
        BY <4>1, LoadedFacts
      <4>6. QED BY <3>1, <4>4, <4>5
    <3>3. CASE \A s \in Place \ {p} : ~Holds(b, s)
      <4>1. \A q \in Place : ~Holds(b, q)'
        BY <1>5, <1>8, <2>3, <3>1, <3>3
      <4>2. RefLoaded(b)' = back'[b]
        BY <1>16, <4>1
      <4>3. CASE Holds(b, p)
        <5>1. RefLoaded(b) = lines[i][p].data[OffsetOf(b)]
          BY <1>1, <2>3, <4>3, LoadedFacts
        <5>2. RefHits(a) = {}
          BY <1>1, <2>3, <4>3 DEF Holds, i
        <5>3. QED BY <1>6, <2>3, <3>1, <4>2, <4>3, <5>1, <5>2
      <4>4. CASE ~Holds(b, p)
        <5>1. \A q \in Place : ~Holds(b, q)
          BY <3>3, <4>4
        <5>2. RefLoaded(b) = back[b] /\ back'[b] = back[b]
          BY <1>6, <4>4, <5>1, LoadedFacts
        <5>3. QED BY <3>1, <4>2, <5>2
      <4>5. QED BY <4>3, <4>4
    <3>4. QED BY <3>2, <3>3
  <2>4. QED BY <2>1, <2>2, <2>3
<1>18. QED BY <1>15, <1>17 DEF a

-------------------------------------------------------------------------------
\* The operation that the reference model is given.
LEMMA ArgsType ==
  ASSUME IInv
  PROVE  /\ RefArgs \in RefReq
         /\ req.tag \in Tag /\ req.index \in Index /\ req.offset \in Offset
         /\ RefArgs.addr = WordAddress(req.tag, req.index, req.offset)
<1>1. /\ req.tag \in Tag /\ req.index \in Index /\ req.offset \in Offset
      /\ req.strobe \in SUBSET Lane /\ req.data \in Word
  BY DEF IInv, TypeOK, CacheTypeOK, DBusReq
<1>2. WordAddress(req.tag, req.index, req.offset) \in Address
  BY <1>1, AddressAssumption
<1>3. QED BY <1>1, <1>2 DEF RefArgs, RefReq

\* Both memories are zero after reset, and no line is valid.
LEMMA DiffInitAgrees == DiffInit => DiffInv
<1> SUFFICES ASSUME DiffInit PROVE DiffInv
  OBVIOUS
<1>1. RefReset /\ Init
  BY DEF DiffInit
<1>2. ZeroWord \in Word
  BY CBusAssumption DEF ZeroWord, Word
<1>3. \A a \in Address : IndexOf(a) \in RefIndex
  BY AddressFacts
<1>4. \A i \in RefIndex, p \in Place : ~lines[i][p].valid /\ ~lines[i][p].dirty
  BY <1>1 DEF RefReset
<1>5. \A a \in Address, p \in Place : ~Holds(a, p)
  BY <1>3, <1>4 DEF Holds
<1>6. RefTypeOK
  <2>1. [tag |-> 0, valid |-> FALSE, dirty |-> FALSE,
         data |-> [o \in RefOffset |-> ZeroWord]] \in Line
    BY <1>2 DEF Line
  <2>2. QED BY <1>1, <1>2, <2>1 DEF RefReset, RefTypeOK
<1>7. RefInv
  BY <1>4, <1>5, <1>6 DEF RefInv
<1>8. ASSUME NEW t \in Tag, NEW i \in Index, NEW o \in Offset
      PROVE  View[t][i][o] = RefLoaded(WordAddress(t, i, o))
  <2>1. WordAddress(t, i, o) \in Address
    BY AddressAssumption
  <2>2. RefLoaded(WordAddress(t, i, o)) = ZeroWord
    BY <1>1, <1>5, <1>7, <2>1, LoadedFacts DEF RefReset
  <2>3. Hits(i, t) = {}
    BY <1>1 DEF Init, CacheInit, Hits
  <2>4. View[t][i][o] = mem[t][i][o]
    BY <2>3 DEF View
  <2>5. QED BY <1>1, <2>2, <2>4 DEF Init, DeviceInit
<1>9. QED BY <1>7, <1>8 DEF DiffInv, ViewsAgree

\* A cycle before the answer shows the client nothing, and the reference model waits.
LEMMA WaitAgrees ==
  ASSUME DiffInv, View' = View, UNCHANGED refVars
  PROVE  DiffInv'
<1>1. lines' = lines /\ back' = back
  BY DEF refVars
<1>2. RefInv'
  BY <1>1 DEF DiffInv, RefInv, RefTypeOK, Holds
<1>3. \A a \in Address : RefLoaded(a)' = RefLoaded(a)
  BY <1>1 DEF RefLoaded, Served, Flushed, RefHits, RefPosition, Holds
<1>4. \A t \in Tag, i \in Index, o \in Offset : WordAddress(t, i, o) \in Address
  BY AddressAssumption
<1> HIDE DEF View
<1>5. ViewsAgree'
  BY <1>3, <1>4 DEF DiffInv, ViewsAgree
<1>6. QED BY <1>2, <1>5 DEF DiffInv

\* The answer: one word changes, at the same address on both sides.
LEMMA ServeAgrees ==
  ASSUME IInv, IInv', DiffInv, Serve, UNCHANGED devVars, RefOperation(RefArgs)
  PROVE  DiffInv'
<1> DEFINE a == RefArgs.addr
<1>1. /\ RefArgs \in RefReq
      /\ req.tag \in Tag /\ req.index \in Index /\ req.offset \in Offset
      /\ a = WordAddress(req.tag, req.index, req.offset)
      /\ RefArgs.data = req.data /\ RefArgs.strobe = req.strobe
  BY ArgsType DEF RefArgs
<1>2. /\ RefInv'
      /\ \A b \in Address :
           RefLoaded(b)' = IF b = a THEN Merge(RefLoaded(b), req.data, req.strobe)
                           ELSE RefLoaded(b)
  BY <1>1, RefStep DEF DiffInv
<1>3. View' = [View EXCEPT ![req.tag][req.index][req.offset] =
                             Merge(@, req.data, req.strobe)]
  BY ServeRefines DEF Abs!Retire, Abs!Merge, Merge
<1>4. View \in [Tag -> [Index -> [Offset -> Word]]]
  BY ViewLemma DEF ViewFacts
<1> DEFINE v == View[req.tag][req.index][req.offset]
           m == Merge(v, req.data, req.strobe)
<1> HIDE DEF View
<1>5. m \in Word
  <2>1. v \in Word /\ req.data \in Word /\ req.strobe \in SUBSET Lane
    BY <1>1, <1>4 DEF IInv, TypeOK, CacheTypeOK, DBusReq
  <2>2. QED BY <2>1, MergeLemma
<1>6. View' = [View EXCEPT ![req.tag][req.index][req.offset] = m]
  BY <1>3
<1> HIDE DEF m, v
<1>7. /\ View'[req.tag][req.index][req.offset] = m
      /\ \A t \in Tag, i \in Index, o \in Offset :
           (t # req.tag \/ i # req.index \/ o # req.offset) => View'[t][i][o] = View[t][i][o]
  BY <1>1, <1>4, <1>5, <1>6, WordUpdate
<1> HIDE DEF a
<1>8. ASSUME NEW t \in Tag, NEW i \in Index, NEW o \in Offset
      PROVE  View'[t][i][o] = RefLoaded(WordAddress(t, i, o))'
  <2> DEFINE b == WordAddress(t, i, o)
  <2>1. b \in Address /\ View[t][i][o] = RefLoaded(b) /\ b' = b
    BY AddressAssumption DEF DiffInv, ViewsAgree, WordAddress
  <2>2. CASE t = req.tag /\ i = req.index /\ o = req.offset
    BY <1>1, <1>2, <1>7, <2>1, <2>2 DEF m, v
  <2>3. CASE t # req.tag \/ i # req.index \/ o # req.offset
    <3>1. b # a
      BY <1>1, <2>3, WordAddressUnique
    <3>2. RefLoaded(b)' = RefLoaded(b)
      BY <1>2, <2>1, <3>1
    <3>3. QED BY <1>7, <2>1, <2>3, <3>2
  <2>4. QED BY <2>2, <2>3
<1>9. QED BY <1>2, <1>8 DEF DiffInv, ViewsAgree

\* The agreement is inductive, given the cache's own invariant.
LEMMA DiffNextAgrees == IInv /\ IInv' /\ DiffInv /\ [DiffNext]_diffVars => DiffInv'
<1> SUFFICES ASSUME IInv, IInv', DiffInv, [DiffNext]_diffVars PROVE DiffInv'
  OBVIOUS
<1>1. [Abs!AbsNext]_(Abs!absVars)
  BY NextRefines DEF DiffNext, diffVars
<1>2. CASE UNCHANGED diffVars
  <2>1. UNCHANGED refVars /\ UNCHANGED vars
    BY <1>2 DEF diffVars
  <2>2. View' = View
    BY <2>1 DEF vars, cacheVars, devVars, View, Hits, Refilling, Position
  <2>3. QED BY <2>1, <2>2, WaitAgrees
<1>3. CASE DiffNext /\ state # "READY"
  <2>1. UNCHANGED refVars
    BY <1>3 DEF DiffNext
  <2>2. ~Abs!Retire
    BY <1>3 DEF Abs!Retire, Phase
  <2>3. View' = View
    BY <1>1, <2>2 DEF Abs!AbsNext, Abs!Take, Abs!Answer, Abs!absVars
  <2>4. QED BY <2>1, <2>3, WaitAgrees
<1>4. CASE DiffNext /\ state = "READY"
  <2>1. RefOperation(RefArgs)
    BY <1>4 DEF DiffNext
  <2>2. PICK resp \in CBusResp : Cycle(resp)
    BY <1>4 DEF DiffNext, Next
  <2>3. Serve /\ UNCHANGED devVars
    BY <1>4, <2>2, CycleCases DEF Accept, Flush, Fetch
  <2>4. QED BY <2>1, <2>3, ServeAgrees
<1>5. QED BY <1>2, <1>3, <1>4

\* The comparison runs the cache unchanged, so all that is proved of the cache holds in it.
LEMMA Agreement == DiffSpec => [](IInv /\ DiffInv)
<1>1. DiffInit => IInv /\ DiffInv
  BY InitInv, DiffInitAgrees DEF DiffInit
<1>2. IInv /\ DiffInv /\ [DiffNext]_diffVars => (IInv /\ DiffInv)'
  <2>1. [DiffNext]_diffVars => [Next]_vars
    BY DEF DiffNext, diffVars
  <2>2. QED BY <2>1, NextInv, DiffNextAgrees
<1>3. QED BY <1>1, <1>2, PTL DEF DiffSpec

\* run of testbench.h never reports "different outputs from RTL model and reference
\* model": the word DCache.sv puts on the bus is the word cache_ref.cpp returns, however
\* long the lines of the one and of the other are and however many they hold.
THEOREM OutputsAgree == DiffSpec => []SameOutputs
<1>1. IInv /\ DiffInv => SameOutputs
  <2> SUFFICES ASSUME IInv, DiffInv, state = "READY"
               PROVE  dresp.data = RefLoaded(RefArgs.addr)
    BY DEF SameOutputs
  <2>1. /\ req.tag \in Tag /\ req.index \in Index /\ req.offset \in Offset
        /\ RefArgs.addr = WordAddress(req.tag, req.index, req.offset)
    BY ArgsType
  <2>2. RefLoaded(RefArgs.addr) = View[req.tag][req.index][req.offset]
    BY <2>1 DEF DiffInv, ViewsAgree
  <2>3. Position \in Way /\ LiveHit(req.tag, req.index, Position) /\ cur = req.offset
    BY PositionLemma DEF IInv, ReadyInv, LiveHit, Live, Refilling
  <2>4. ViewFacts
    BY ViewLemma
  <2>5. View[req.tag][req.index][req.offset] = ram[req.index][Position][req.offset]
    BY <2>1, <2>3, <2>4 DEF ViewFacts
  <2>6. QED BY <2>2, <2>3, <2>5 DEF dresp
<1>2. QED BY <1>1, Agreement, PTL

\* A word that differs between the memory of the RTL and that of the reference model is in
\* a dirty line of one of the two: all else of check_memory holds at any time.
THEOREM OnlyDirtyWordsDiffer == DiffSpec => []MemoriesDifferInDirtyLines
<1>1. IInv /\ DiffInv => MemoriesDifferInDirtyLines
  <2> SUFFICES ASSUME IInv, DiffInv, NEW t \in Tag, NEW i \in Index, NEW o \in Offset,
                      \A w \in Hits(i, t) : ~meta[i][w].dirty,
                      \A p \in RefHits(WordAddress(t, i, o)) :
                        ~lines[IndexOf(WordAddress(t, i, o))][p].dirty
               PROVE  mem[t][i][o] = back[WordAddress(t, i, o)]
    BY DEF MemoriesDifferInDirtyLines
  <2> DEFINE a == WordAddress(t, i, o)
  <2>1. a \in Address /\ View[t][i][o] = RefLoaded(a)
    BY AddressAssumption DEF DiffInv, ViewsAgree
  <2>2. ViewFacts
    BY ViewLemma
  <2>3. View[t][i][o] = mem[t][i][o]
    <3>1. CASE \E w \in Way : LiveHit(t, i, w)
      <4>1. PICK w \in Way : LiveHit(t, i, w)
        BY <3>1
      <4>2. Live(i, w) /\ meta[i][w].tag = t /\ ~meta[i][w].dirty
        BY <4>1 DEF LiveHit, Live, Hits
      <4>3. ram[i][w][o] = mem[t][i][o]
        BY <4>2 DEF IInv, CleanLinesMatchMemory
      <4>4. QED BY <2>2, <4>1, <4>3 DEF ViewFacts
    <3>2. CASE \A w \in Way : ~LiveHit(t, i, w)
      BY <2>2, <3>2 DEF ViewFacts
    <3>3. QED BY <3>1, <3>2
  <2>4. RefLoaded(a) = back[a]
    <3>1. CASE \E p \in Place : Holds(a, p)
      <4>1. PICK p \in Place : Holds(a, p)
        BY <3>1
      <4>2. ~lines[IndexOf(a)][p].dirty
        BY <4>1 DEF RefHits
      <4>3. lines[IndexOf(a)][p].data[OffsetOf(a)] = back[a]
        BY <2>1, <4>1, <4>2 DEF DiffInv, RefInv
      <4>4. QED BY <2>1, <4>1, <4>3, LoadedFacts DEF DiffInv
    <3>2. CASE \A p \in Place : ~Holds(a, p)
      BY <2>1, <3>2, LoadedFacts DEF DiffInv
    <3>3. QED BY <3>1, <3>2
  <2>5. QED BY <2>1, <2>3, <2>4
<1>2. QED BY <1>1, Agreement, PTL

\* The test bench's cache is transparent as well: the client of the comparison gets what
\* a flat memory would answer.
THEOREM DiffRefinement == DiffSpec => Transparent
<1>1. DiffInit => Abs!AbsInit
  BY InitRefines DEF DiffInit
<1>2. [DiffNext]_diffVars => [Next]_vars
  BY DEF DiffNext, diffVars
<1>3. IInv /\ IInv' /\ [Next]_vars => [Abs!AbsNext]_(Abs!absVars)
  BY NextRefines
<1>4. QED BY <1>1, <1>2, <1>3, Agreement, PTL DEF DiffSpec, Transparent, Abs!AbsSpec
===============================================================================
