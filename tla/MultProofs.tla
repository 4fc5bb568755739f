------------------------------ MODULE MultProofs ------------------------------
(***************************************************************************)
(* The multiplier and the divider are right for words of every even width. *)
(* Their steps are counted by powers of two, and what those are takes an   *)
(* induction: it is made on a set of numbers, since the least number of a  *)
(* set needs no operator as a parameter.                                   *)
(***************************************************************************)
EXTENDS Mult, WellFoundedInduction, TLAPS

Less == {ss \in Nat \X Nat : ss[1] < ss[2]}

\* The numbers are well-founded.
LEMMA LessWellFounded == IsWellFoundedOn(Less, Nat)
BY NatLessThanWellFounded, Zenon DEF OpToRel, Less

\* A set that has 0 and with every number the next has them all.
LEMMA SetInduction ==
  ASSUME NEW S, 0 \in S, \A n \in Nat : n \in S => n + 1 \in S
  PROVE  Nat \subseteq S
<1> DEFINE T == {n \in Nat : n \notin S}
<1>1. SUFFICES ASSUME T # {} PROVE FALSE
  OBVIOUS
<1>2. PICK x \in T : \A y \in T : ~(<<y, x>> \in Less)
  <2>1. T \subseteq Nat
    OBVIOUS
  <2> HIDE DEF T
  <2> QED BY <2>1, <1>1, LessWellFounded, WFMin, Zenon
<1>3. x \in Nat /\ x # 0 /\ x - 1 \in Nat
  OBVIOUS
<1>4. <<x - 1, x>> \in Less
  BY <1>3 DEF Less
<1>5. x - 1 \in S
  BY <1>2, <1>3, <1>4
<1> QED BY <1>3, <1>5

-------------------------------------------------------------------------------
\* The powers of two up to the n-th.
Doubles(g, n) == g \in [Nat -> Nat] /\ g[0] = 1 /\ \A k \in 1 .. n : g[k] = 2 * g[k - 1]

\* There are such, for every n.
LEMMA DoublesExist == \A n \in Nat : \E g : Doubles(g, n)
<1> DEFINE S == {n \in Nat : \E g : Doubles(g, n)}
<1>1. 0 \in S
  <2>1. Doubles([k \in Nat |-> 1], 0)
    BY DEF Doubles
  <2> QED BY <2>1
<1>2. ASSUME NEW n \in Nat, n \in S PROVE n + 1 \in S
  <2>1. PICK g : Doubles(g, n)
    BY <1>2
  <2>2. Doubles([k \in Nat |-> IF k = n + 1 THEN 2 * g[n] ELSE g[k]], n + 1)
    BY <2>1 DEF Doubles
  <2> QED BY <2>2
<1> HIDE DEF S
<1>3. Nat \subseteq S
  BY <1>1, <1>2, SetInduction
<1> QED BY <1>3 DEF S

\* They are determined.
LEMMA DoublesUnique ==
  ASSUME NEW n \in Nat, NEW m \in Nat, NEW g, Doubles(g, n), NEW h, Doubles(h, m)
  PROVE  \A k \in Nat : k <= n /\ k <= m => g[k] = h[k]
<1> DEFINE S == {k \in Nat : k <= n /\ k <= m => g[k] = h[k]}
<1>1. 0 \in S
  BY DEF Doubles
<1>2. ASSUME NEW k \in Nat, k \in S PROVE k + 1 \in S
  <2>1. k + 1 <= n => g[k + 1] = 2 * g[k]
    BY DEF Doubles
  <2>2. k + 1 <= m => h[k + 1] = 2 * h[k]
    BY DEF Doubles
  <2> QED BY <1>2, <2>1, <2>2
<1> HIDE DEF S
<1>3. Nat \subseteq S
  BY <1>1, <1>2, SetInduction
<1> QED BY <1>3 DEF S

\* The recursion defines the powers of two.
LEMMA PowerDefined == Power = [n \in Nat |-> IF n = 0 THEN 1 ELSE 2 * Power[n - 1]]
<1> DEFINE G(n) == CHOOSE g : Doubles(g, n)
           P == [n \in Nat |-> G(n)[n]]
<1>1. \A n \in Nat : Doubles(G(n), n)
  BY DoublesExist
<1>2. P[0] = 1
  BY <1>1 DEF Doubles
<1>3. ASSUME NEW n \in Nat, n # 0 PROVE P[n] = 2 * P[n - 1]
  <2>1. n - 1 \in Nat /\ Doubles(G(n), n) /\ Doubles(G(n - 1), n - 1)
    BY <1>1, <1>3
  <2> HIDE DEF G
  <2>2. G(n)[n] = 2 * G(n)[n - 1]
    BY <2>1, <1>3 DEF Doubles
  <2>3. G(n)[n - 1] = G(n - 1)[n - 1]
    BY <2>1, DoublesUnique
  <2> QED BY <2>1, <2>2, <2>3
<1>4. P = [n \in Nat |-> IF n = 0 THEN 1 ELSE 2 * P[n - 1]]
  <2> DEFINE Q == [n \in Nat |-> IF n = 0 THEN 1 ELSE 2 * P[n - 1]]
  <2>1. \A n \in Nat : P[n] = Q[n]
    BY <1>2, <1>3
  <2> QED BY <2>1
<1> HIDE DEF P
<1> QED BY <1>4, Zenon DEF Power

\* Each power is twice the one before.
LEMMA PowerStep == Power[0] = 1 /\ \A n \in Nat : Power[n + 1] = 2 * Power[n]
<1>1. \A n \in Nat : n + 1 # 0 /\ (n + 1) - 1 = n
  OBVIOUS
<1>2. \A n \in Nat : Power[n] = IF n = 0 THEN 1 ELSE 2 * Power[n - 1]
  BY PowerDefined, Zenon
<1> HIDE DEF Power
<1> QED BY <1>1, <1>2

\* Powers are positive numbers.
LEMMA PowerType == \A n \in Nat : Power[n] \in Nat \ {0}
<1> DEFINE S == {n \in Nat : Power[n] \in Nat \ {0}}
<1>1. 0 \in S
  BY PowerStep
<1>2. ASSUME NEW n \in Nat, n \in S PROVE n + 1 \in S
  BY <1>2, PowerStep
<1> HIDE DEF S
<1>3. Nat \subseteq S
  BY <1>1, <1>2, SetInduction
<1> QED BY <1>3 DEF S

\* Exponents add up.
LEMMA PowerSum == \A m, n \in Nat : Power[m + n] = Power[m] * Power[n]
<1> SUFFICES ASSUME NEW m \in Nat PROVE \A n \in Nat : Power[m + n] = Power[m] * Power[n]
  OBVIOUS
<1> DEFINE S == {n \in Nat : Power[m + n] = Power[m] * Power[n]}
<1>1. 0 \in S
  BY PowerStep, PowerType
<1>2. ASSUME NEW n \in Nat, n \in S PROVE n + 1 \in S
  <2>1. m + n \in Nat /\ m + (n + 1) = (m + n) + 1
    OBVIOUS
  <2>2. Power[(m + n) + 1] = 2 * Power[m + n] /\ Power[n + 1] = 2 * Power[n]
    BY <2>1, PowerStep
  <2>3. Power[m] \in Nat /\ Power[n] \in Nat
    BY PowerType
  <2>4. 2 * (Power[m] * Power[n]) = Power[m] * (2 * Power[n])
    BY <2>3
  <2> QED BY <1>2, <2>1, <2>2, <2>4
<1> HIDE DEF S
<1>3. Nat \subseteq S
  BY <1>1, <1>2, SetInduction
<1> QED BY <1>3 DEF S

\* A word is two halves, of at least two values each.
LEMMA BaseFacts ==
  /\ Half \in Nat /\ Half >= 2
  /\ Base \in Nat /\ Base >= 4 /\ Base = Half * Half
  /\ Base \div 2 \in Nat /\ Base = 2 * (Base \div 2)
<1> DEFINE h == Width \div 2
<1>1. h \in Nat /\ h # 0 /\ Width = h + h /\ h - 1 \in Nat /\ Width - 1 \in Nat
  BY MultAssumption
<1>2. Power[h - 1] \in Nat \ {0} /\ Power[h] = 2 * Power[h - 1]
  BY <1>1, PowerType, PowerStep
<1>3. Power[Width - 1] \in Nat \ {0} /\ Power[Width] = 2 * Power[Width - 1]
  BY <1>1, PowerType, PowerStep
<1>4. Power[Width] = Power[h] * Power[h]
  BY <1>1, PowerSum
<1>5. Half \in Nat /\ Half >= 2
  BY <1>2 DEF Half
<1>6. Base = Half * Half
  BY <1>4 DEF Half, Base
<1>7. Base >= 4
  BY <1>5, <1>6
<1>8. Base \in Nat /\ Base \div 2 \in Nat /\ Base = 2 * (Base \div 2)
  BY <1>3 DEF Base
<1> QED BY <1>5, <1>6, <1>7, <1>8

-------------------------------------------------------------------------------
\* Division with remainder.
LEMMA DivMod ==
  ASSUME NEW n \in Int, NEW d \in Nat \ {0}
  PROVE  n \div d \in Int /\ n % d \in 0 .. d - 1 /\ n = (n \div d) * d + (n % d)
OBVIOUS

\* Quotient and remainder are determined.
LEMMA DivModUnique ==
  ASSUME NEW d \in Nat \ {0}, NEW q \in Int, NEW r \in 0 .. d - 1
  PROVE  (q * d + r) \div d = q /\ (q * d + r) % d = r
OBVIOUS

\* A number in range is its own remainder, and its negation that of the complement.
LEMMA ModNegated ==
  ASSUME NEW M \in Nat \ {0}, NEW c \in 0 .. M - 1
  PROVE  c % M = c /\ (-c) % M = (M - c) % M
<1>1. c % M = c
  <2>1. 0 * M + c = c
    OBVIOUS
  <2> QED BY <2>1, DivModUnique
<1>2. CASE c = 0
  <2>1. M - c = 1 * M + 0 /\ -c = 0 * M + 0 /\ 0 \in 0 .. M - 1
    BY <1>2
  <2>2. (1 * M + 0) % M = 0 /\ (0 * M + 0) % M = 0
    BY <2>1, DivModUnique
  <2> QED BY <1>1, <2>1, <2>2
<1>3. CASE c # 0
  <2>1. /\ M - c \in 0 .. M - 1
        /\ -c = (-1) * M + (M - c) /\ M - c = 0 * M + (M - c)
    BY <1>3
  <2>2. ((-1) * M + (M - c)) % M = M - c /\ (0 * M + (M - c)) % M = M - c
    BY <2>1, DivModUnique
  <2> QED BY <1>1, <2>1, <2>2
<1> QED BY <1>2, <1>3

\* Two's complement: sign and magnitude of a word.
LEMMA SignAndMagnitude ==
  ASSUME NEW x \in Word
  PROVE  /\ Magnitude(x) \in Word /\ (Magnitude(x) = 0 <=> x = 0)
         /\ Signed(x) = IF Negative(x) THEN -Magnitude(x) ELSE Magnitude(x)
         /\ AbsOf(Signed(x)) = Magnitude(x)
         /\ SignOf(Signed(x)) = IF Negative(x) THEN -1 ELSE 1
<1>1. x \in Nat /\ x < Base /\ Negative(x) \in BOOLEAN
  BY BaseFacts DEF Word, Negative
<1>2. CASE Negative(x)
  <2>1. x > 0 /\ Base - x \in 1 .. Base - 1
    BY <1>1, <1>2, BaseFacts DEF Negative
  <2>2. Negated(x) = Base - x
    <3>1. Base \in Nat \ {0} /\ Base - x \in 0 .. Base - 1
      BY <2>1, BaseFacts
    <3>2. (Base - x) % Base = Base - x
      BY <3>1, ModNegated
    <3> QED BY <3>2 DEF Negated
  <2>3. Magnitude(x) = Base - x /\ Signed(x) = x - Base
    BY <1>2, <2>2 DEF Magnitude, Signed
  <2>4. AbsOf(x - Base) = Base - x /\ SignOf(x - Base) = -1
    BY <1>1, <2>1, BaseFacts DEF AbsOf, SignOf
  <2>5. Base - x \in Word /\ Base - x # 0 /\ x # 0 /\ x - Base = -(Base - x)
    BY <1>1, <2>1, BaseFacts DEF Word
  <2> QED BY <1>2, <2>3, <2>4, <2>5
<1>3. CASE ~Negative(x)
  BY <1>1, <1>3, BaseFacts DEF Magnitude, Word, Signed, AbsOf, SignOf
<1> QED BY <1>2, <1>3

\* What the units are given are words.
LEMMA OperandsAreWords == MultTypeOK => OperandA \in Word /\ OperandB \in Word
<1> SUFFICES ASSUME MultTypeOK PROVE OperandA \in Word /\ OperandB \in Word
  OBVIOUS
<1>1. SrcA \in Word /\ SrcB \in Word /\ a \in Word /\ b \in Word
  BY DEF MultTypeOK
<1>2. Magnitude(SrcA) \in Word /\ Magnitude(SrcB) \in Word
  BY <1>1, SignAndMagnitude
<1>3. OperandA \in Word
  BY <1>1, <1>2 DEF OperandA, MultTypeOK
<1>4. OperandB \in Word
  BY <1>1, <1>2 DEF OperandB, MultTypeOK
<1> QED BY <1>3, <1>4

-------------------------------------------------------------------------------
\* The four partial products make the product, and none is longer than a word.
LEMMA ProductLemma ==
  ASSUME NEW x \in Word, NEW y \in Word,
         NEW xl, NEW xh, NEW yl, NEW yh,
         xl = x % Half, xh = x \div Half, yl = y % Half, yh = y \div Half
  PROVE  /\ xl * yl \in Word /\ xl * yh \in Word /\ xh * yl \in Word /\ xh * yh \in Word
         /\ (xl * yl + (xl * yh + xh * yl) * Half + (xh * yh) * Base) % (Base * Base) = x * y
<1>1. /\ x \in Nat /\ y \in Nat /\ x <= Base - 1 /\ y <= Base - 1
      /\ Half \in Nat \ {0} /\ Base \in Nat \ {0} /\ Base = Half * Half
  BY BaseFacts DEF Word
<1>2. ASSUME NEW z \in Nat, z < Base
      PROVE  z % Half \in 0 .. Half - 1 /\ z \div Half \in 0 .. Half - 1
             /\ z = (z \div Half) * Half + (z % Half)
  <2>1. z \div Half \in Int /\ z % Half \in 0 .. Half - 1 /\ z = (z \div Half) * Half + (z % Half)
    BY <1>1, DivMod
  <2> DEFINE k == z \div Half
  <2>2. ~(k >= Half)
    <3> SUFFICES ASSUME k >= Half PROVE FALSE
      OBVIOUS
    <3>1. k * Half >= Half * Half
      BY <1>1, <2>1
    <3> QED BY <1>1, <1>2, <2>1, <3>1
  <2>3. ~(k < 0)
    <3> SUFFICES ASSUME k <= -1 PROVE FALSE
      BY <2>1
    <3>1. k * Half <= (-1) * Half
      BY <1>1, <2>1
    <3> QED BY <1>1, <1>2, <2>1, <3>1
  <2> QED BY <1>1, <2>1, <2>2, <2>3
<1>3. /\ xl \in 0 .. Half - 1 /\ xh \in 0 .. Half - 1 /\ x = xh * Half + xl
      /\ yl \in 0 .. Half - 1 /\ yh \in 0 .. Half - 1 /\ y = yh * Half + yl
  BY <1>1, <1>2
<1>4. ASSUME NEW u \in 0 .. Half - 1, NEW v \in 0 .. Half - 1 PROVE u * v \in Word
  <2>1. u * v \in Nat /\ u * v <= (Half - 1) * Half
    BY <1>1
  <2>2. (Half - 1) * Half < Half * Half
    BY <1>1
  <2> QED BY <1>1, <2>1, <2>2 DEF Word
<1>5. xl * yl \in Word /\ xl * yh \in Word /\ xh * yl \in Word /\ xh * yh \in Word
  BY <1>3, <1>4
<1>6. xl * yl + (xl * yh + xh * yl) * Half + (xh * yh) * Base = x * y
  <2>1. x * y = (xh * Half + xl) * (yh * Half + yl)
    BY <1>3
  <2>2. (xh * Half + xl) * (yh * Half + yl)
          = (xh * Half) * (yh * Half) + (xh * Half) * yl + xl * (yh * Half) + xl * yl
    BY <1>1, <1>3
  <2>3. /\ (xh * Half) * (yh * Half) = (xh * yh) * (Half * Half)
        /\ (xh * Half) * yl = (xh * yl) * Half
        /\ xl * (yh * Half) = (xl * yh) * Half
        /\ (xl * yh + xh * yl) * Half = (xl * yh) * Half + (xh * yl) * Half
    <3>1. xl \in Int /\ xh \in Int /\ yl \in Int /\ yh \in Int /\ Half \in Int
      BY <1>1, <1>3
    <3>2. (xh * Half) * (yh * Half) = (xh * yh) * (Half * Half)
      BY <3>1
    <3>3. (xh * Half) * yl = (xh * yl) * Half
      BY <3>1
    <3>4. xl * (yh * Half) = (xl * yh) * Half
      BY <3>1
    <3>5. (xl * yh + xh * yl) * Half = (xl * yh) * Half + (xh * yl) * Half
      BY <3>1
    <3> QED BY <3>2, <3>3, <3>4, <3>5
  <2>4. /\ xl * yl \in Int /\ (xh * yl) * Half \in Int /\ (xl * yh) * Half \in Int
        /\ (xh * yh) * Base \in Int
    BY <1>1, <1>3
  <2> QED BY <1>1, <2>1, <2>2, <2>3, <2>4
<1>7. x * y \in 0 .. Base * Base - 1
  <2>1. x * y \in Nat /\ x * y <= (Base - 1) * Base
    BY <1>1
  <2>2. (Base - 1) * Base < Base * Base
    BY <1>1
  <2> QED BY <1>1, <2>1, <2>2
<1>8. Base * Base \in Nat \ {0}
  BY <1>1
<1>9. (x * y) % (Base * Base) = x * y
  BY <1>7, <1>8, ModNegated
<1> QED BY <1>5, <1>6, <1>9

-------------------------------------------------------------------------------
(***************************************************************************)
(* Restoring division.  While the low e values of the dividend are still   *)
(* to come, its high part has been divided: the remainder is in the high   *)
(* word, the rest of the dividend and the quotient share the low one.      *)
(***************************************************************************)
Divided(x, y, e, d, pp) ==
  \E q, r, m \in Nat :
    /\ x = (q * y + r) * e + m
    /\ m < e /\ r < y
    /\ pp = r * Base + m * d + q

\* Before the first step nothing is divided.
LEMMA DivisionStarts ==
  ASSUME NEW x \in Word, NEW y \in Word, y # 0
  PROVE  Divided(x, y, Base, 1, x)
<1>1. x \in Nat /\ y \in Nat /\ Base \in Nat /\ x < Base /\ 0 < y
  BY BaseFacts DEF Word
<1>2. x = (0 * y + 0) * Base + x /\ x = 0 * Base + x * 1 + 0
  BY <1>1
<1> QED BY <1>1, <1>2 DEF Divided

\* A step brings the next bit of the dividend down and finds one of the quotient.
LEMMA DivisionGoesOn ==
  ASSUME NEW x \in Word, NEW y \in Word, NEW e \in Nat \ {0}, NEW d \in Nat \ {0},
         (2 * e) * d = Base, NEW pp, Divided(x, y, 2 * e, d, pp),
         NEW shifted, shifted = (2 * pp) % (Base * Base)
  PROVE  Divided(x, y, e, 2 * d,
                 IF shifted \div Base >= y THEN shifted - y * Base + 1 ELSE shifted)
<1>1. x \in Nat /\ y \in Nat /\ Base \in Nat \ {0} /\ x < Base /\ y < Base
  BY BaseFacts DEF Word
<1>2. PICK q \in Nat, r \in Nat, m \in Nat :
        x = (q * y + r) * (2 * e) + m /\ m < 2 * e /\ r < y /\ pp = r * Base + m * d + q
  BY DEF Divided
<1> DEFINE h == q * y + r
           t == IF m >= e THEN 1 ELSE 0
           n == IF m >= e THEN m - e ELSE m
           X == 2 * r + t
           low == n * (2 * d) + 2 * q
<1>3. t \in {0, 1} /\ n \in Nat /\ n < e /\ m = t * e + n
  BY <1>2
<1>4. h \in Nat /\ h < d /\ q <= h /\ r <= h
  <2>1. q * y \in Nat /\ h \in Nat /\ r <= h
    BY <1>1, <1>2
  <2>2. q <= q * y
    BY <1>1, <1>2
  <2>3. ~(h >= d)
    <3> SUFFICES ASSUME h >= d PROVE FALSE
      OBVIOUS
    <3> HIDE DEF h
    <3>1. h * (2 * e) >= d * (2 * e)
      BY <2>1
    <3>2. d * (2 * e) = Base
      OBVIOUS
    <3>3. h * (2 * e) + m < Base /\ h * (2 * e) \in Nat
      BY <1>1, <1>2, <2>1 DEF h
    <3> QED BY <1>1, <1>2, <3>1, <3>2, <3>3
  <2>4. q <= h
    BY <2>1, <2>2
  <2> QED BY <2>1, <2>3, <2>4
<1>5. 2 * d <= Base
  <2>1. e * (2 * d) = Base
    OBVIOUS
  <2>2. 1 * (2 * d) <= e * (2 * d)
    OBVIOUS
  <2> QED BY <1>1, <2>1, <2>2
<1>6. X \in Nat /\ X < Base /\ X < 2 * y
  BY <1>1, <1>2, <1>3, <1>4, <1>5
<1>7. low \in Nat /\ low <= Base - 2
  <2>1. n * (2 * d) \in Nat /\ n * (2 * d) <= (e - 1) * (2 * d)
    BY <1>3
  <2>2. (e - 1) * (2 * d) = e * (2 * d) - 2 * d /\ e * (2 * d) = (2 * e) * d
    OBVIOUS
  <2>3. 2 * q <= 2 * d - 2 /\ 2 * q \in Nat
    BY <1>4
  <2> HIDE DEF n
  <2> QED BY <1>1, <2>1, <2>2, <2>3
<1>8. 2 * pp = X * Base + low
  <2>1. m * d = (t * e) * d + n * d
    BY <1>3
  <2>2. 2 * ((t * e) * d) = t * ((2 * e) * d) /\ 2 * (n * d) = n * (2 * d)
    BY <1>3
  <2>3. 2 * (r * Base) = (2 * r) * Base /\ X * Base = (2 * r) * Base + t * Base
    BY <1>1, <1>2, <1>3
  <2>4. /\ r * Base \in Int /\ (t * e) * d \in Int /\ n * d \in Int /\ t * Base \in Int
        /\ (2 * r) * Base \in Int /\ n * (2 * d) \in Int
    BY <1>1, <1>2, <1>3
  <2>5. pp = r * Base + ((t * e) * d + n * d) + q
    BY <1>2, <2>1
  <2>6. 2 * pp = 2 * (r * Base) + 2 * ((t * e) * d) + 2 * (n * d) + 2 * q
    BY <1>2, <2>4, <2>5
  <2> HIDE DEF n, t, X
  <2> QED BY <1>2, <2>2, <2>3, <2>4, <2>6
<1> HIDE DEF t, n, X, low
<1>9. shifted = X * Base + low
  <2>1. X * Base <= (Base - 1) * Base /\ X * Base \in Nat
    BY <1>1, <1>6
  <2>2. (Base - 1) * Base = Base * Base - Base /\ Base * Base \in Nat \ {0}
    BY <1>1
  <2>3. X * Base + low \in 0 .. Base * Base - 1
    BY <1>1, <1>7, <2>1, <2>2
  <2> QED BY <1>8, <2>2, <2>3, ModNegated
<1>10. shifted \div Base = X
  <2>1. low \in 0 .. Base - 1
    BY <1>1, <1>7
  <2>2. Base \in Nat \ {0} /\ X \in Int
    BY <1>1, <1>6
  <2>3. (X * Base + low) \div Base = X
    BY <2>1, <2>2, DivModUnique, Zenon
  <2> QED BY <1>9, <2>3
<1>11. x = (2 * (q * y) + X) * e + n
  <2>1. q * y \in Nat
    BY <1>1, <1>2
  <2>2. h * (2 * e) = (2 * h) * e /\ h \in Nat
    BY <1>4
  <2>3. (2 * h) * e + t * e = (2 * h + t) * e
    BY <1>3, <2>2
  <2>4. 2 * h + t = 2 * (q * y) + X
    BY <1>2, <1>3, <2>1 DEF X
  <2>5. x = h * (2 * e) + (t * e + n)
    BY <1>2, <1>3
  <2>6. t * e \in Nat /\ (2 * h) * e \in Nat
    BY <1>3, <2>2
  <2> HIDE DEF h
  <2> QED BY <1>3, <2>2, <2>3, <2>4, <2>5, <2>6
<1>12. CASE X >= y
  <2>1. X - y \in Nat /\ X - y < y
    BY <1>1, <1>6, <1>12
  <2>2. 2 * (q * y) + X = (2 * q + 1) * y + (X - y)
    BY <1>1, <1>2, <1>6
  <2>3. shifted - y * Base + 1 = (X - y) * Base + n * (2 * d) + (2 * q + 1)
    <3>1. (X - y) * Base = X * Base - y * Base
      BY <1>1, <1>6
    <3>2. X * Base \in Int /\ y * Base \in Int /\ n * (2 * d) \in Int
      BY <1>1, <1>3, <1>6
    <3> QED BY <1>2, <1>9, <3>1, <3>2 DEF low
  <2>4. x = ((2 * q + 1) * y + (X - y)) * e + n
    BY <1>11, <2>2
  <2>5. 2 * q + 1 \in Nat
    BY <1>2
  <2>6. Divided(x, y, e, 2 * d, shifted - y * Base + 1)
    BY <1>3, <2>1, <2>3, <2>4, <2>5 DEF Divided
  <2> QED BY <1>10, <1>12, <2>6
<1>13. CASE ~(X >= y)
  <2>1. X < y
    BY <1>1, <1>6, <1>13
  <2>2. 2 * (q * y) = (2 * q) * y
    BY <1>1, <1>2
  <2>3. shifted = X * Base + n * (2 * d) + 2 * q
    <3>1. X * Base \in Int /\ n * (2 * d) \in Int
      BY <1>1, <1>3, <1>6
    <3> QED BY <1>2, <1>9, <3>1 DEF low
  <2>4. x = ((2 * q) * y + X) * e + n
    BY <1>11, <2>2
  <2>5. 2 * q \in Nat
    BY <1>2
  <2>6. Divided(x, y, e, 2 * d, shifted)
    BY <1>3, <1>6, <2>1, <2>3, <2>4, <2>5 DEF Divided
  <2> QED BY <1>10, <1>13, <2>6
<1> QED BY <1>12, <1>13

\* After the last step quotient and remainder are in their words.
LEMMA DivisionEnds ==
  ASSUME NEW x \in Word, NEW y \in Word, y # 0, NEW pp, Divided(x, y, 1, Base, pp)
  PROVE  pp \div Base = x % y /\ pp % Base = x \div y /\ x % y \in Word /\ x \div y \in Word
<1>1. x \in Nat /\ y \in Nat \ {0} /\ Base \in Nat \ {0} /\ x < Base /\ y < Base
  BY BaseFacts DEF Word
<1>2. PICK q \in Nat, r \in Nat, m \in Nat :
        x = (q * y + r) * 1 + m /\ m < 1 /\ r < y /\ pp = r * Base + m * Base + q
  BY DEF Divided
<1>3. x = q * y + r /\ pp = r * Base + q /\ q * y \in Nat
  BY <1>1, <1>2
<1>4. q <= q * y
  BY <1>1, <1>2
<1>5. q \in 0 .. Base - 1 /\ r \in 0 .. y - 1 /\ r \in 0 .. Base - 1
  BY <1>1, <1>2, <1>3, <1>4
<1>6. x \div y = q /\ x % y = r
  <2>1. (q * y + r) \div y = q /\ (q * y + r) % y = r
    BY <1>1, <1>5, DivModUnique
  <2> QED BY <1>3, <2>1
<1>7. pp \div Base = r /\ pp % Base = q
  <2>1. (r * Base + q) \div Base = r /\ (r * Base + q) % Base = q
    BY <1>1, <1>5, DivModUnique
  <2> QED BY <1>3, <2>1
<1> QED BY <1>5, <1>6, <1>7 DEF Word

-------------------------------------------------------------------------------
\* A multiplication at work holds its own partial products.
Multiplying == mulState = "DOING" => mult_valid /\ products = PartialProducts

\* A division at work has k steps to go: the one-hot count says so.
Dividing ==
  divState = "DOING" =>
    /\ div_valid
    /\ \E k \in 0 .. Width :
         /\ divCount = Power[k]
         /\ OperandB # 0 => Divided(OperandA, OperandB, Power[k], Power[Width - k], p)

MultInv == MultTypeOK /\ Multiplying /\ Dividing

\* What the divider registers fits its 64 bits, whatever is divided.
LEMMA NextPType == MultTypeOK => NextP \in 0 .. Base * Base - 1
<1> SUFFICES ASSUME MultTypeOK PROVE NextP \in 0 .. Base * Base - 1
  OBVIOUS
<1> DEFINE s == (2 * p) % (Base * Base)
<1>1. /\ Base \in Nat \ {0} /\ Base * Base \in Nat \ {0} /\ Base <= Base * Base
      /\ Base * Base = 2 * ((Base \div 2) * Base) /\ (Base \div 2) * Base \in Int
  <2>1. Base \in Nat /\ Base >= 4 /\ Base = 2 * (Base \div 2) /\ Base \div 2 \in Nat
    BY BaseFacts
  <2> DEFINE h == Base \div 2
  <2>2. (2 * h) * Base = 2 * (h * Base) /\ h * Base \in Int
    BY <2>1
  <2>3. 1 * Base <= Base * Base /\ Base * Base \in Nat /\ Base * Base # 0
    BY <2>1
  <2> QED BY <2>1, <2>2, <2>3
<1>2. OperandA \in 0 .. Base - 1 /\ OperandB \in 0 .. Base - 1 /\ p \in Nat
  BY OperandsAreWords, <1>1 DEF Word, MultTypeOK
<1>3. /\ s \in 0 .. Base * Base - 1
      /\ (2 * p) \div (Base * Base) \in Int
      /\ 2 * p = ((2 * p) \div (Base * Base)) * (Base * Base) + s
  <2>1. 2 * p \in Int /\ Base * Base \in Nat \ {0}
    BY <1>1, <1>2
  <2> QED BY <2>1, DivMod, Zenon
<1>4. s # Base * Base - 1
  <2> DEFINE c == (2 * p) \div (Base * Base)
             g == (Base \div 2) * Base
  <2>1. c * (2 * g) = 2 * (c * g) /\ c * g \in Int
    BY <1>1, <1>3
  <2>2. s = 2 * (p - c * g)
    <3>1. 2 * p = c * (Base * Base) + s /\ Base * Base = 2 * g /\ s \in Int
      <4>1. Base * Base = 2 * g
        BY <1>1
      <4>2. 2 * p = c * (Base * Base) + s
        BY <1>3
      <4>3. s \in Int
        BY <1>1, <1>3
      <4> QED BY <4>1, <4>2, <4>3
    <3>2. c \in Int /\ g \in Int
      BY <1>1, <1>3
    <3> HIDE DEF s, c, g
    <3>3. 2 * p = c * (2 * g) + s
      BY <3>1
    <3> QED BY <1>2, <2>1, <3>1, <3>2, <3>3
  <2>3. p - c * g \in Int /\ Base * Base - 1 = 2 * g - 1 /\ g \in Int
    BY <1>1, <1>2, <2>1
  <2> HIDE DEF s, c, g
  <2> QED BY <2>2, <2>3
<1>5. CASE divState = "INIT"
  BY <1>1, <1>2, <1>5 DEF NextP
<1>6. CASE divState # "INIT" /\ s \div Base >= OperandB
  <2>1. s \div Base \in Int /\ s % Base \in 0 .. Base - 1 /\ s = (s \div Base) * Base + (s % Base)
    <3>1. s \in Int /\ Base \in Nat \ {0}
      BY <1>1, <1>3
    <3> HIDE DEF s
    <3> QED BY <3>1, DivMod, Zenon
  <2>2. (s \div Base) * Base >= OperandB * Base /\ OperandB * Base \in Nat
    BY <1>1, <1>2, <1>6, <2>1
  <2>3. NextP = s - OperandB * Base + 1
    BY <1>6 DEF NextP
  <2>4. s >= OperandB * Base
    BY <1>1, <2>1, <2>2
  <2> HIDE DEF s
  <2> QED BY <1>1, <1>3, <1>4, <2>2, <2>3, <2>4
<1>7. CASE divState # "INIT" /\ ~(s \div Base >= OperandB)
  BY <1>3, <1>7 DEF NextP
<1> QED BY <1>5, <1>6, <1>7

\* The registers of the two units keep their types.
LEMMA UnitsType ==
  ASSUME MultTypeOK, UnitsStep
  PROVE  /\ a' \in Word /\ b' \in Word
         /\ mulState' \in {"INIT", "DOING"} /\ products' \in [1 .. 4 -> Word]
         /\ divState' \in {"INIT", "DOING"} /\ divCount' \in 0 .. Base
         /\ p' \in 0 .. Base * Base - 1
<1>1. OperandA \in Word /\ OperandB \in Word
  BY OperandsAreWords
<1>2. PartialProducts \in [1 .. 4 -> Word]
  <2> DEFINE al == OperandA % Half  ah == OperandA \div Half
             bl == OperandB % Half  bh == OperandB \div Half
  <2>1. al * bl \in Word /\ al * bh \in Word /\ ah * bl \in Word /\ ah * bh \in Word
    BY <1>1, ProductLemma
  <2>2. PartialProducts = <<al * bl, al * bh, ah * bl, ah * bh>>
    BY DEF PartialProducts
  <2> HIDE DEF al, ah, bl, bh
  <2> QED BY <2>1, <2>2
<1>3. NextCount \in 0 .. Base
  BY BaseFacts DEF NextCount, MultTypeOK
<1>4. NextMulState \in {"INIT", "DOING"} /\ NextDivState \in {"INIT", "DOING"}
  BY DEF NextMulState, NextDivState
<1> QED BY <1>1, <1>2, <1>3, <1>4, NextPType DEF UnitsStep

\* Halving a power of two.
LEMMA HalfOfPower ==
  ASSUME NEW k \in 0 .. Width
  PROVE  /\ k = 0 => Power[k] = 1 /\ Power[k] \div 2 = 0
         /\ k # 0 => /\ k - 1 \in 0 .. Width /\ Power[k] = 2 * Power[k - 1]
                     /\ Power[k] \div 2 = Power[k - 1] /\ Power[k - 1] \in Nat \ {0}
                     /\ Power[Width - (k - 1)] = 2 * Power[Width - k]
         /\ Power[Width - k] \in Nat \ {0} /\ Power[k] * Power[Width - k] = Base
<1>1. Width \in Nat /\ k \in Nat /\ Width - k \in Nat /\ k + (Width - k) = Width
  BY MultAssumption
<1>2. Power[Width - k] \in Nat \ {0} /\ Power[k] * Power[Width - k] = Base
  BY <1>1, PowerType, PowerSum DEF Base
<1>3. k = 0 => Power[k] = 1 /\ Power[k] \div 2 = 0
  BY PowerStep
<1>4. ASSUME k # 0
      PROVE  /\ k - 1 \in 0 .. Width /\ Power[k] = 2 * Power[k - 1]
             /\ Power[k] \div 2 = Power[k - 1] /\ Power[k - 1] \in Nat \ {0}
             /\ Power[Width - (k - 1)] = 2 * Power[Width - k]
  <2>1. k - 1 \in Nat /\ k = (k - 1) + 1 /\ Width - (k - 1) = (Width - k) + 1
    BY <1>1, <1>4
  <2>2. Power[(k - 1) + 1] = 2 * Power[k - 1] /\ Power[(Width - k) + 1] = 2 * Power[Width - k]
    BY <1>1, <2>1, PowerStep
  <2>3. Power[k - 1] \in Nat \ {0}
    BY <2>1, PowerType
  <2> QED BY <1>1, <2>1, <2>2, <2>3
<1> QED BY <1>2, <1>3, <1>4

\* Both units are idle after reset.
LEMMA MultInitInv == MultInit => MultInv
<1> SUFFICES ASSUME MultInit PROVE MultInv
  OBVIOUS
<1>1. 0 \in Word /\ 0 \in 0 .. Base /\ 0 \in 0 .. Base * Base - 1
  <2>1. Base \in Nat /\ Base * Base \in Nat /\ Base * Base > 0
    BY BaseFacts
  <2> QED BY <2>1, BaseFacts DEF Word
<1> QED BY <1>1 DEF MultInit, MultInv, MultTypeOK, Multiplying, Dividing

\* An instruction at work is not done, so that it stays in E with its operands.
LEMMA WorkStays ==
  ASSUME MultInv, UnitsStep, TakesNext \/ Holds,
         mulState' = "DOING" \/ divState' = "DOING"
  PROVE  /\ UNCHANGED <<ctrl, SrcA, SrcB>> /\ ctrl # "CLR"
         /\ mulState' = "DOING" => mult_valid /\ mulState = "INIT"
         /\ divState' = "DOING" => div_valid
<1>1. mulState' = "DOING" => mult_valid /\ mulState = "INIT" /\ ~done
  <2> SUFFICES ASSUME mulState' = "DOING" PROVE mult_valid /\ mulState = "INIT" /\ ~done
    OBVIOUS
  <2>1. NextMulState = "DOING"
    BY DEF UnitsStep
  <2>2. mult_valid /\ mulState = "INIT"
    BY <2>1 DEF NextMulState, MultInv, MultTypeOK
  <2> QED BY <2>1, <2>2 DEF done, mult_valid, div_valid
<1>2. divState' = "DOING" => div_valid /\ ~done
  <2> SUFFICES ASSUME divState' = "DOING" PROVE div_valid /\ ~done
    OBVIOUS
  <2>1. NextDivState = "DOING"
    BY DEF UnitsStep
  <2>2. div_valid
    BY <2>1 DEF NextDivState, MultInv, Dividing, MultTypeOK
  <2> QED BY <2>1, <2>2 DEF done, div_valid, mult_valid
<1>3. ~done /\ ctrl # "CLR"
  BY <1>1, <1>2 DEF mult_valid, div_valid
<1> QED BY <1>1, <1>2, <1>3 DEF TakesNext, Holds

\* Every cycle keeps the invariant.
LEMMA MultNextInv == MultInv /\ [MultNext]_multVars => MultInv'
<1> SUFFICES ASSUME MultInv, [MultNext]_multVars PROVE MultInv'
  OBVIOUS
<1>1. CASE UNCHANGED multVars
  BY <1>1 DEF MultInv, multVars, MultTypeOK, Multiplying, Dividing, mult_valid, div_valid,
              PartialProducts, OperandA, OperandB, Word
<1>2. CASE UnitsStep /\ (TakesNext \/ Holds)
  <2>1. MultTypeOK'
    <3>1. 0 \in Word
      BY BaseFacts DEF Word
    <3>2. /\ ctrl' \in {"CLR", "MULT", "MULTU", "DIV", "DIVU"}
          /\ SrcA' \in Word /\ SrcB' \in Word
      BY <1>2, <3>1 DEF MultInv, MultTypeOK, TakesNext, Holds
    <3> QED BY <1>2, <3>2, UnitsType DEF MultInv, MultTypeOK, Word
  <2>2. Multiplying'
    <3> SUFFICES ASSUME mulState' = "DOING" PROVE (mult_valid /\ products = PartialProducts)'
      BY DEF Multiplying
    <3>1. UNCHANGED <<ctrl, SrcA, SrcB>> /\ ctrl # "CLR" /\ mult_valid
      BY <1>2, WorkStays
    <3>2. products' = PartialProducts
      BY <1>2 DEF UnitsStep
    <3>3. OperandA' = OperandA /\ OperandB' = OperandB
      BY <3>1 DEF OperandA, OperandB
    <3> QED BY <3>1, <3>2, <3>3 DEF mult_valid, PartialProducts
  <2>3. Dividing'
    <3> SUFFICES ASSUME divState' = "DOING"
                 PROVE  /\ div_valid'
                        /\ \E k \in 0 .. Width :
                             /\ divCount' = Power[k]
                             /\ OperandB' # 0 => Divided(OperandA', OperandB', Power[k],
                                                         Power[Width - k], p')
      BY DEF Dividing
    <3>1. UNCHANGED <<ctrl, SrcA, SrcB>> /\ ctrl # "CLR" /\ div_valid
      BY <1>2, WorkStays
    <3>2. OperandA' = OperandA /\ OperandB' = OperandB /\ div_valid'
      BY <3>1 DEF OperandA, OperandB, div_valid
    <3>3. OperandA \in Word /\ OperandB \in Word
      BY OperandsAreWords DEF MultInv
    <3>4. CASE divState = "INIT"
      <4>1. divCount' = Power[Width] /\ p' = OperandA
        BY <1>2, <3>1, <3>4 DEF UnitsStep, NextCount, NextP, Base
      <4>2. Width \in 0 .. Width /\ Width - Width = 0 /\ Power[0] = 1
        BY MultAssumption, PowerStep
      <4>3. OperandB # 0 => Divided(OperandA, OperandB, Power[Width], Power[Width - Width], OperandA)
        BY <3>3, <4>2, DivisionStarts DEF Base
      <4> QED BY <3>2, <4>1, <4>2, <4>3
    <3>5. CASE divState = "DOING"
      <4>1. PICK k \in 0 .. Width :
              /\ divCount = Power[k]
              /\ OperandB # 0 => Divided(OperandA, OperandB, Power[k], Power[Width - k], p)
        BY <3>5 DEF MultInv, Dividing
      <4>2. divCount' = Power[k] \div 2 /\ divCount' # 0
        BY <1>2, <3>5, <4>1 DEF UnitsStep, NextCount, NextDivState
      <4>3. /\ k - 1 \in 0 .. Width /\ Power[k] = 2 * Power[k - 1] /\ divCount' = Power[k - 1]
            /\ Power[k - 1] \in Nat \ {0} /\ Power[Width - k] \in Nat \ {0}
            /\ Power[Width - (k - 1)] = 2 * Power[Width - k]
            /\ (2 * Power[k - 1]) * Power[Width - k] = Base
        BY <4>2, HalfOfPower
      <4> DEFINE s == (2 * p) % (Base * Base)
      <4>4. p' = IF s \div Base >= OperandB THEN s - OperandB * Base + 1 ELSE s
        BY <1>2, <3>5 DEF UnitsStep, NextP
      <4>5. OperandB # 0 => Divided(OperandA, OperandB, Power[k - 1], 2 * Power[Width - k], p')
        <5> SUFFICES ASSUME OperandB # 0
                     PROVE  Divided(OperandA, OperandB, Power[k - 1], 2 * Power[Width - k], p')
          OBVIOUS
        <5>1. Divided(OperandA, OperandB, 2 * Power[k - 1], Power[Width - k], p)
          BY <4>1, <4>3
        <5> HIDE DEF s
        <5>2. Divided(OperandA, OperandB, Power[k - 1], 2 * Power[Width - k],
                      IF s \div Base >= OperandB THEN s - OperandB * Base + 1 ELSE s)
          BY <3>3, <4>3, <5>1, DivisionGoesOn DEF s
        <5> QED BY <4>4, <5>2
      <4> QED BY <3>2, <4>3, <4>5
    <3> QED BY <3>4, <3>5 DEF MultInv, MultTypeOK
  <2> QED BY <2>1, <2>2, <2>3 DEF MultInv
<1> QED BY <1>1, <1>2 DEF MultNext, Take, Hold

-------------------------------------------------------------------------------
\* A result of two words is what its words say.
LEMMA TwoWords ==
  ASSUME NEW c \in Int PROVE (c \div Base) * Base + (c % Base) = c
<1>1. Base \in Nat \ {0}
  BY BaseFacts
<1> QED BY <1>1, DivMod, Zenon

\* The product of the registers is that of the operands.
LEMMA ProductIsRight ==
  ASSUME MultInv, done, mult_valid
  PROVE  Product = OperandA * OperandB /\ OperandA * OperandB \in 0 .. Base * Base - 1
<1>1. mulState = "DOING"
  <2>1. NextMulState = "INIT"
    BY DEF done, mult_valid, div_valid
  <2> QED BY <2>1 DEF NextMulState, MultInv, MultTypeOK
<1>2. products = PartialProducts
  BY <1>1 DEF MultInv, Multiplying
<1>3. OperandA \in Word /\ OperandB \in Word
  BY OperandsAreWords DEF MultInv
<1> DEFINE al == OperandA % Half  ah == OperandA \div Half
           bl == OperandB % Half  bh == OperandB \div Half
<1>4. (al * bl + (al * bh + ah * bl) * Half + (ah * bh) * Base) % (Base * Base)
        = OperandA * OperandB
  BY <1>3, ProductLemma
<1>5. products = <<al * bl, al * bh, ah * bl, ah * bh>>
  BY <1>2 DEF PartialProducts
<1> HIDE DEF al, ah, bl, bh
<1>6. Product = OperandA * OperandB
  BY <1>4, <1>5 DEF Product
<1>7. OperandA * OperandB \in 0 .. Base * Base - 1
  <2>1. OperandA \in Nat /\ OperandB \in Nat /\ OperandA <= Base - 1 /\ OperandB <= Base - 1
        /\ Base \in Nat /\ Base >= 4
    BY <1>3, BaseFacts DEF Word
  <2>2. OperandA * OperandB \in Nat /\ OperandA * OperandB <= (Base - 1) * Base
    BY <2>1
  <2>3. (Base - 1) * Base < Base * Base
    BY <2>1
  <2> QED BY <2>1, <2>2, <2>3
<1> QED BY <1>6, <1>7

\* The words of p are remainder and quotient of the operands.
LEMMA QuotientIsRight ==
  ASSUME MultInv, done, div_valid, OperandB # 0
  PROVE  /\ p \div Base = OperandA % OperandB /\ p % Base = OperandA \div OperandB
         /\ OperandA % OperandB \in Word /\ OperandA \div OperandB \in Word
<1>1. OperandA \in Word /\ OperandB \in Word
  BY OperandsAreWords DEF MultInv
<1>2. divState = "DOING" /\ NextCount = 0
  <2>1. NextDivState = "INIT"
    BY DEF done, mult_valid, div_valid
  <2> QED BY <2>1 DEF NextDivState, MultInv, MultTypeOK
<1>3. PICK k \in 0 .. Width :
        divCount = Power[k] /\ Divided(OperandA, OperandB, Power[k], Power[Width - k], p)
  BY <1>2 DEF MultInv, Dividing
<1>4. k = 0
  BY <1>2, <1>3, HalfOfPower DEF NextCount
<1>5. Power[k] = 1 /\ Power[Width - k] = Base
  BY <1>4, PowerStep, MultAssumption DEF Base
<1> QED BY <1>1, <1>3, <1>5, DivisionEnds

\* The signs: what is computed of the magnitudes and negated is what is computed of the
\* numbers, modulo the range.
LEMMA SignedProduct ==
  ASSUME NEW x \in Word, NEW y \in Word, NEW c, c = Magnitude(x) * Magnitude(y),
         c \in 0 .. Base * Base - 1
  PROVE  (Signed(x) * Signed(y)) % (Base * Base)
           = IF Negative(x) # Negative(y) THEN Negated2(c) ELSE c
<1>1. /\ Magnitude(x) \in Int /\ Magnitude(y) \in Int
      /\ Base * Base \in Nat \ {0}
  <2>1. Base \in Nat /\ Base >= 4
    BY BaseFacts
  <2> QED BY <2>1, SignAndMagnitude DEF Word
<1>2. c % (Base * Base) = c /\ (-c) % (Base * Base) = Negated2(c)
  BY <1>1, ModNegated DEF Negated2
<1>3. /\ Negative(x) \in BOOLEAN /\ Negative(y) \in BOOLEAN
      /\ Signed(x) = IF Negative(x) THEN -Magnitude(x) ELSE Magnitude(x)
      /\ Signed(y) = IF Negative(y) THEN -Magnitude(y) ELSE Magnitude(y)
  BY SignAndMagnitude DEF Negative
<1>4. Signed(x) * Signed(y) = IF Negative(x) # Negative(y) THEN -c ELSE c
  <2> DEFINE X == Magnitude(x)  Y == Magnitude(y)
  <2>1. (-X) * (-Y) = X * Y /\ (-X) * Y = -(X * Y) /\ X * (-Y) = -(X * Y)
    BY <1>1
  <2>2. CASE Negative(x) /\ Negative(y)
    BY <1>3, <2>1, <2>2
  <2>3. CASE Negative(x) /\ ~Negative(y)
    BY <1>3, <2>1, <2>3
  <2>4. CASE ~Negative(x) /\ Negative(y)
    BY <1>3, <2>1, <2>4
  <2>5. CASE ~Negative(x) /\ ~Negative(y)
    BY <1>3, <2>1, <2>5
  <2> QED BY <1>3, <2>2, <2>3, <2>4, <2>5
<1> QED BY <1>2, <1>4

\* Division that truncates: the remainder has the sign of the dividend.
LEMMA SignedDivision ==
  ASSUME NEW x \in Word, NEW y \in Word, y # 0,
         NEW q, q = Magnitude(x) \div Magnitude(y), q \in Word,
         NEW r, r = Magnitude(x) % Magnitude(y), r \in Word
  PROVE  /\ Quotient(Signed(x), Signed(y)) % Base
              = IF Negative(x) # Negative(y) THEN Negated(q) ELSE q
         /\ Remainder(Signed(x), Signed(y)) % Base = IF Negative(x) THEN Negated(r) ELSE r
<1> DEFINE X == Magnitude(x)  Y == Magnitude(y)
<1>1. /\ X \in Int /\ Y \in Nat \ {0} /\ q \in Int /\ r \in Int
      /\ Base \in Nat \ {0} /\ q \in 0 .. Base - 1 /\ r \in 0 .. Base - 1
  BY SignAndMagnitude, BaseFacts DEF Word
<1>2. X = q * Y + r
  BY <1>1, DivMod
<1>3. q % Base = q /\ (-q) % Base = Negated(q) /\ r % Base = r /\ (-r) % Base = Negated(r)
  BY <1>1, ModNegated DEF Negated
<1>4. /\ Negative(x) \in BOOLEAN /\ Negative(y) \in BOOLEAN
      /\ Signed(x) = (IF Negative(x) THEN -X ELSE X) /\ AbsOf(Signed(x)) = X
      /\ Signed(y) = (IF Negative(y) THEN -Y ELSE Y) /\ AbsOf(Signed(y)) = Y
      /\ SignOf(Signed(x)) = (IF Negative(x) THEN -1 ELSE 1)
      /\ SignOf(Signed(y)) = (IF Negative(y) THEN -1 ELSE 1)
  BY SignAndMagnitude DEF Negative
<1> HIDE DEF X, Y
<1>5. Quotient(Signed(x), Signed(y)) = IF Negative(x) # Negative(y) THEN -q ELSE q
  <2>1. Quotient(Signed(x), Signed(y)) = SignOf(Signed(x)) * SignOf(Signed(y)) * q
    BY <1>4 DEF Quotient, X, Y
  <2> QED BY <1>1, <1>4, <2>1
<1>6. Remainder(Signed(x), Signed(y)) = IF Negative(x) THEN -r ELSE r
  <2>1. Remainder(Signed(x), Signed(y))
          = Signed(x) - Signed(y) * (IF Negative(x) # Negative(y) THEN -q ELSE q)
    BY <1>5 DEF Remainder
  <2>2. /\ Y * q = q * Y /\ (-Y) * q = -(q * Y) /\ Y * (-q) = -(q * Y) /\ (-Y) * (-q) = q * Y
        /\ q * Y \in Int
    BY <1>1
  <2>3. CASE Negative(x) /\ Negative(y)
    BY <1>1, <1>2, <1>4, <2>1, <2>2, <2>3
  <2>4. CASE Negative(x) /\ ~Negative(y)
    <3>1. Remainder(Signed(x), Signed(y)) = (-X) - Y * (-q)
      BY <1>4, <2>1, <2>4
    <3> QED BY <1>1, <1>2, <2>2, <2>4, <3>1
  <2>5. CASE ~Negative(x) /\ Negative(y)
    <3>1. Remainder(Signed(x), Signed(y)) = X - (-Y) * (-q)
      BY <1>4, <2>1, <2>5
    <3> QED BY <1>1, <1>2, <2>2, <2>5, <3>1
  <2>6. CASE ~Negative(x) /\ ~Negative(y)
    BY <1>1, <1>2, <1>4, <2>1, <2>2, <2>6
  <2> QED BY <1>4, <2>3, <2>4, <2>5, <2>6
<1> QED BY <1>3, <1>5, <1>6

\* What HI and LO show when an instruction is done.
LEMMA MultInvShows == MultInv => ResultCorrect
<1> SUFFICES ASSUME MultInv, done PROVE
      LET x == Signed(SrcA)  y == Signed(SrcB) IN
      /\ ctrl = "MULTU" => HiLo[1] * Base + HiLo[2] = SrcA * SrcB
      /\ ctrl = "MULT"  => HiLo[1] * Base + HiLo[2] = (x * y) % (Base * Base)
      /\ ctrl = "DIVU" /\ SrcB # 0 => HiLo = <<SrcA % SrcB, SrcA \div SrcB>>
      /\ ctrl = "DIV" /\ SrcB # 0  => HiLo = <<Remainder(x, y) % Base, Quotient(x, y) % Base>>
  BY DEF ResultCorrect
<1>1. SrcA \in Word /\ SrcB \in Word /\ SrcA \in Int /\ SrcB \in Int
  BY BaseFacts DEF MultInv, MultTypeOK, Word
<1>2. CASE ctrl = "MULTU"
  <2>1. OperandA = SrcA /\ OperandB = SrcB /\ mult_valid
    BY <1>2 DEF OperandA, OperandB, mult_valid
  <2>2. Product = SrcA * SrcB /\ Product \in Int
    BY <1>1, <2>1, ProductIsRight
  <2>3. HiLo[1] = Product \div Base /\ HiLo[2] = Product % Base
    BY <1>2 DEF HiLo
  <2>4. HiLo[1] * Base + HiLo[2] = SrcA * SrcB
    BY <2>2, <2>3, TwoWords
  <2> QED BY <1>2, <2>4
<1>3. CASE ctrl = "MULT"
  <2>1. OperandA = Magnitude(SrcA) /\ OperandB = Magnitude(SrcB) /\ mult_valid
    BY <1>3 DEF OperandA, OperandB, mult_valid
  <2>2. Product = Magnitude(SrcA) * Magnitude(SrcB) /\ Product \in 0 .. Base * Base - 1
    BY <2>1, ProductIsRight
  <2> DEFINE c == IF SignsDiffer THEN Negated2(Product) ELSE Product
  <2>3. c = (Signed(SrcA) * Signed(SrcB)) % (Base * Base)
    BY <1>1, <2>2, SignedProduct DEF SignsDiffer
  <2>4. c \in Int
    <3>1. Base \in Int /\ Base * Base \in Nat \ {0} /\ Base * Base - Product \in Int
      <4>1. Base \in Nat /\ Base >= 4
        BY BaseFacts
      <4>2. Base * Base \in Nat /\ Base * Base # 0
        BY <4>1
      <4> QED BY <4>1, <4>2, <2>2
    <3>2. Negated2(Product) \in 0 .. Base * Base - 1
      BY <3>1, DivMod DEF Negated2
    <3> QED BY <2>2, <3>1, <3>2
  <2>5. HiLo[1] = c \div Base /\ HiLo[2] = c % Base
    BY <1>3 DEF HiLo
  <2>6. HiLo[1] * Base + HiLo[2] = c
    BY <2>4, <2>5, TwoWords
  <2> QED BY <1>3, <2>3, <2>6
<1>4. CASE ctrl = "DIVU" /\ SrcB # 0
  <2>1. OperandA = SrcA /\ OperandB = SrcB /\ div_valid
    BY <1>4 DEF OperandA, OperandB, div_valid
  <2>2. p \div Base = SrcA % SrcB /\ p % Base = SrcA \div SrcB
    BY <1>4, <2>1, QuotientIsRight
  <2>3. HiLo = <<p \div Base, p % Base>>
    BY <1>4 DEF HiLo
  <2> QED BY <1>4, <2>2, <2>3
<1>5. CASE ctrl = "DIV" /\ SrcB # 0
  <2>1. OperandA = Magnitude(SrcA) /\ OperandB = Magnitude(SrcB) /\ div_valid
    BY <1>5 DEF OperandA, OperandB, div_valid
  <2>2. OperandB # 0
    BY <1>1, <1>5, <2>1, SignAndMagnitude
  <2> DEFINE r == p \div Base  q == p % Base
  <2>3. /\ r = Magnitude(SrcA) % Magnitude(SrcB) /\ q = Magnitude(SrcA) \div Magnitude(SrcB)
        /\ r \in Word /\ q \in Word
    BY <2>1, <2>2, QuotientIsRight
  <2>4. HiLo = <<IF Negative(SrcA) THEN Negated(r) ELSE r, IF SignsDiffer THEN Negated(q) ELSE q>>
    BY <1>5 DEF HiLo
  <2> HIDE DEF r, q
  <2>5. /\ Quotient(Signed(SrcA), Signed(SrcB)) % Base = IF SignsDiffer THEN Negated(q) ELSE q
        /\ Remainder(Signed(SrcA), Signed(SrcB)) % Base
             = IF Negative(SrcA) THEN Negated(r) ELSE r
    BY <1>1, <1>5, <2>3, SignedDivision DEF SignsDiffer
  <2> QED BY <1>5, <2>4, <2>5
<1> QED BY <1>2, <1>3, <1>4, <1>5

-------------------------------------------------------------------------------
\* Whatever was computed before and however long an instruction is held back, HI and LO are
\* the product, or the remainder and the quotient, of the operands: for every even width.
THEOREM ResultsAreRight == MultSpec => []ResultCorrect
BY MultInitInv, MultNextInv, MultInvShows, PTL DEF MultSpec

\* Every register of the two units keeps its width.
THEOREM MultTyped == MultSpec => []MultTypeOK
<1>1. MultInv => MultTypeOK
  BY DEF MultInv
<1> QED BY <1>1, MultInitInv, MultNextInv, PTL DEF MultSpec
===============================================================================
