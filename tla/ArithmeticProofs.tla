-------------------------- MODULE ArithmeticProofs --------------------------
(***************************************************************************)
(* Proofs about Arithmetic: the pure functions keep what they promise for   *)
(* every input.  Each function has a section: what it is made of, then the  *)
(* lemma of its promise.  The last section puts the lemmas together along   *)
(* JobInv, of which only interest, accrued step by step, needs more than    *)
(* the types of the inputs.                                                 *)
(*                                                                         *)
(* What a recursive function computes is proved by its least               *)
(* counterexample: that the function exists at all first, then that no      *)
(* shortest input is computed wrongly.                                      *)
(***************************************************************************)
EXTENDS Arithmetic, SequenceTheorems, WellFoundedInduction, TLAPS

----------------------------------------------------------------------------
(* Products and quotients.                                                 *)

LEMMA TimesType ==
  ASSUME NEW a \in Int, NEW b \in Int
  PROVE  a * b \in Int /\ (a >= 0 /\ b >= 0 => a * b >= 0)
  OBVIOUS

LEMMA TimesMonotone ==
  ASSUME NEW a \in Int, NEW b \in Int, NEW c \in Nat, a <= b
  PROVE  a * c <= b * c
  OBVIOUS

LEMMA TimesStrict ==
  ASSUME NEW a \in Int, NEW b \in Int, NEW c \in Nat \ {0}
  PROVE  a * c <= b * c <=> a <= b
  OBVIOUS

LEMMA TimesSum ==
  ASSUME NEW a \in Int, NEW b \in Int, NEW c \in Int
  PROVE  /\ (a + b) * c = a * c + b * c
         /\ (a - b) * c = a * c - b * c
         /\ (-a) * c = -(a * c)
  OBVIOUS

\* What a quotient rounded down is, and that it is the only such.
LEMMA FloorIs ==
  ASSUME NEW a \in Int, NEW d \in Nat \ {0}
  PROVE  /\ a \div d \in Int
         /\ (a \div d) * d <= a /\ a < (a \div d) * d + d
  OBVIOUS

LEMMA FloorAtLeast ==
  ASSUME NEW a \in Int, NEW d \in Nat \ {0}, NEW m \in Int, m * d <= a
  PROVE  m <= a \div d
  <1> DEFINE q == a \div d
  <1>1. q \in Int /\ a < q * d + d
    BY FloorIs
  <1> HIDE DEF q
  <1>2. q * d + d = (q + 1) * d /\ (q + 1) * d \in Int /\ m * d \in Int
    BY <1>1
  <1>3. ~((q + 1) * d <= m * d)
    BY <1>1, <1>2
  <1>4. ~(q + 1 <= m)
    BY <1>1, <1>3, TimesMonotone
  <1> QED
    BY <1>1, <1>4 DEF q

LEMMA FloorAtMost ==
  ASSUME NEW a \in Int, NEW d \in Nat \ {0}, NEW m \in Int, a < m * d + d
  PROVE  a \div d <= m
  <1> DEFINE q == a \div d
  <1>1. q \in Int /\ q * d <= a
    BY FloorIs
  <1> HIDE DEF q
  <1>2. m * d + d = (m + 1) * d /\ (m + 1) * d \in Int /\ q * d \in Int
    BY <1>1
  <1>3. ~((m + 1) * d <= q * d)
    BY <1>1, <1>2
  <1>4. ~(m + 1 <= q)
    BY <1>1, <1>3, TimesMonotone
  <1> QED
    BY <1>1, <1>4 DEF q

LEMMA FloorMonotone ==
  ASSUME NEW a \in Int, NEW b \in Int, NEW d \in Nat \ {0}, a <= b
  PROVE  a \div d <= b \div d
  <1> DEFINE q == a \div d
  <1>1. q \in Int /\ q * d <= a
    BY FloorIs
  <1> HIDE DEF q
  <1>2. q * d <= b
    BY <1>1
  <1>3. q <= b \div d
    BY <1>1, <1>2, FloorAtLeast
  <1> QED
    BY <1>3 DEF q

\* The same, rounded up.
Ceil(a, d) == -((-a) \div d)

LEMMA CeilIs ==
  ASSUME NEW a \in Int, NEW d \in Nat \ {0}
  PROVE  /\ Ceil(a, d) \in Int
         /\ a <= Ceil(a, d) * d /\ Ceil(a, d) * d < a + d
  <1> DEFINE q == (-a) \div d
  <1>1. q \in Int /\ q * d <= -a /\ -a < q * d + d
    BY FloorIs
  <1>2. Ceil(a, d) = -q
    BY DEF Ceil
  <1> HIDE DEF q
  <1>3. (-q) * d = -(q * d) /\ q * d \in Int
    BY <1>1, TimesSum
  <1> QED
    BY <1>1, <1>2, <1>3

LEMMA CeilAtMost ==
  ASSUME NEW a \in Int, NEW d \in Nat \ {0}, NEW m \in Int, a <= m * d
  PROVE  Ceil(a, d) <= m
  <1> DEFINE q == (-a) \div d
  <1>1. (-m) * d = -(m * d) /\ m * d \in Int
    BY TimesSum
  <1>2. (-m) * d <= -a
    BY <1>1
  <1>3. -m <= q /\ q \in Int
    BY <1>2, FloorAtLeast, FloorIs
  <1>4. Ceil(a, d) = -q
    BY DEF Ceil
  <1> HIDE DEF q
  <1> QED
    BY <1>3, <1>4

LEMMA CeilAtLeast ==
  ASSUME NEW a \in Int, NEW d \in Nat \ {0}, NEW m \in Int, m * d < a + d
  PROVE  m <= Ceil(a, d)
  <1> DEFINE q == (-a) \div d
  <1>1. (-m) * d = -(m * d) /\ m * d \in Int
    BY TimesSum
  <1>2. -a < (-m) * d + d
    BY <1>1
  <1>3. q <= -m /\ q \in Int
    BY <1>2, FloorAtMost, FloorIs
  <1>4. Ceil(a, d) = -q
    BY DEF Ceil
  <1> HIDE DEF q
  <1> QED
    BY <1>3, <1>4

LEMMA CeilMonotone ==
  ASSUME NEW a \in Int, NEW b \in Int, NEW d \in Nat \ {0}, a <= b
  PROVE  Ceil(a, d) <= Ceil(b, d)
  <1>1. Ceil(b, d) \in Int /\ b <= Ceil(b, d) * d /\ Ceil(b, d) * d \in Int
    BY CeilIs
  <1>2. a <= Ceil(b, d) * d
    BY <1>1
  <1> QED
    BY <1>1, <1>2, CeilAtMost

\* Rounded up twice is no less than once, and down twice no more.
LEMMA CeilSplit ==
  ASSUME NEW a \in Int, NEW b \in Int, NEW d \in Nat \ {0}
  PROVE  Ceil(a + b, d) <= Ceil(a, d) + Ceil(b, d)
  <1> DEFINE p == Ceil(a, d)
             q == Ceil(b, d)
  <1>1. p \in Int /\ q \in Int /\ a <= p * d /\ b <= q * d
    BY CeilIs
  <1> HIDE DEF p, q
  <1>2. (p + q) * d = p * d + q * d /\ p * d \in Int /\ q * d \in Int
    BY <1>1, TimesSum
  <1>3. a + b <= (p + q) * d
    BY <1>1, <1>2
  <1> QED
    BY <1>1, <1>3, CeilAtMost DEF p, q

LEMMA FloorSplit ==
  ASSUME NEW a \in Int, NEW b \in Int, NEW d \in Nat \ {0}
  PROVE  (a \div d) + (b \div d) <= (a + b) \div d
  <1> DEFINE p == a \div d
             q == b \div d
  <1>1. p \in Int /\ q \in Int /\ p * d <= a /\ q * d <= b
    BY FloorIs
  <1> HIDE DEF p, q
  <1>2. (p + q) * d = p * d + q * d /\ p * d \in Int /\ q * d \in Int
    BY <1>1, TimesSum
  <1>3. (p + q) * d <= a + b
    BY <1>1, <1>2
  <1>4. p + q <= (a + b) \div d
    BY <1>1, <1>3, FloorAtLeast
  <1> QED
    BY <1>4 DEF p, q

LEMMA WholeOfIt ==
  ASSUME NEW a \in Int, NEW d \in Nat \ {0}
  PROVE  (a * d) \div d = a /\ Ceil(a * d, d) = a
  <1>1. a * d \in Int
    OBVIOUS
  <1>2. a <= (a * d) \div d /\ (a * d) \div d <= a /\ (a * d) \div d \in Int
    BY <1>1, FloorAtLeast, FloorAtMost, FloorIs
  <1>3. a <= Ceil(a * d, d) /\ Ceil(a * d, d) <= a /\ Ceil(a * d, d) \in Int
    BY <1>1, CeilAtLeast, CeilAtMost, CeilIs
  <1> QED
    BY <1>2, <1>3

LEMMA MulAre ==
  ASSUME NEW x, NEW y, NEW d
  PROVE  mul_floor(x, y, d) = (x * y) \div d /\ mul_ceil(x, y, d) = Ceil(x * y, d)
  BY DEF mul_floor, mul_ceil, Ceil

LEMMA MinOfTwo ==
  ASSUME NEW a \in Int, NEW b \in Int
  PROVE  /\ Min({a, b}) \in {a, b} /\ Min({a, b}) <= a /\ Min({a, b}) <= b
         /\ Max({a, b}) \in {a, b} /\ Max({a, b}) >= a /\ Max({a, b}) >= b
  BY DEF Min, Max

----------------------------------------------------------------------------
(* mul_div.                                                                *)

LEMMA QuotientRounds ==
  ASSUME NEW p \in Int, NEW d \in Nat \ {0}
  PROVE  Quotient(p, d, FALSE) = p \div d /\ Quotient(p, d, TRUE) = Ceil(p, d)
  <1>1. Quotient(p, d, FALSE) = p \div d
    BY DEF Quotient
  <1>2. /\ p \div d \in Int /\ p % d \in Int /\ 0 <= p % d /\ p % d < d
        /\ p = (p \div d) * d + (p % d)
    <2>1. p \div d \in Int
      OBVIOUS
    <2>2. p % d \in 0..(d - 1)
      OBVIOUS
    <2>3. p = (p \div d) * d + (p % d)
      OBVIOUS
    <2> QED
      BY <2>1, <2>2, <2>3
  <1> DEFINE q == p \div d
             r == p % d
  <1>3. q \in Int /\ r \in Int /\ 0 <= r /\ r < d /\ p = q * d + r
    BY <1>2
  <1>4. Quotient(p, d, TRUE) = q + (IF r # 0 THEN 1 ELSE 0)
    BY DEF Quotient
  <1> HIDE DEF q, r
  <1>5. Ceil(p, d) \in Int
    BY CeilIs
  <1>6. q * d \in Int /\ (q + 1) * d = q * d + d
    BY <1>3
  <1>7. ASSUME r = 0 PROVE q + (IF r # 0 THEN 1 ELSE 0) = Ceil(p, d)
    <2>1. Ceil(p, d) <= q
      BY <1>3, <1>6, <1>7, CeilAtMost
    <2>2. q <= Ceil(p, d)
      BY <1>3, <1>6, <1>7, CeilAtLeast
    <2> QED
      BY <1>3, <1>5, <1>7, <2>1, <2>2
  <1>8. ASSUME r # 0 PROVE q + (IF r # 0 THEN 1 ELSE 0) = Ceil(p, d)
    <2>1. Ceil(p, d) <= q + 1
      BY <1>3, <1>6, <1>8, CeilAtMost
    <2>2. q + 1 <= Ceil(p, d)
      BY <1>3, <1>6, <1>8, CeilAtLeast
    <2> QED
      BY <1>3, <1>5, <1>8, <2>1, <2>2
  <1> QED
    BY <1>1, <1>4, <1>7, <1>8

\* One quotient is within range where any is.
LEMMA OneQuotient ==
  ASSUME NEW p \in Int, NEW d \in Nat \ {0}, NEW q \in Int
  PROVE  /\ q * d <= p /\ p < (q + 1) * d <=> q = p \div d
         /\ (q - 1) * d < p /\ p <= q * d <=> q = Ceil(p, d)
  <1> DEFINE f == p \div d
             c == Ceil(p, d)
  <1>1. f \in Int /\ f * d <= p /\ p < f * d + d
    BY FloorIs
  <1>2. c \in Int /\ p <= c * d /\ c * d < p + d
    BY CeilIs
  <1>3. /\ (q + 1) * d = q * d + d /\ (q - 1) * d = q * d - d /\ q * d \in Int
    OBVIOUS
  <1>4. ASSUME q * d <= p, p < (q + 1) * d PROVE q = f
    <2>1. q <= f /\ f <= q
      BY <1>3, <1>4, FloorAtLeast, FloorAtMost
    <2> QED
      BY <2>1, <1>1
  <1>5. ASSUME (q - 1) * d < p, p <= q * d PROVE q = c
    <2>1. q <= c /\ c <= q
      BY <1>3, <1>5, CeilAtLeast, CeilAtMost
    <2> QED
      BY <2>1, <1>2
  <1> HIDE DEF f, c
  <1>6. ASSUME q = f PROVE q * d <= p /\ p < (q + 1) * d
    BY <1>1, <1>3, <1>6
  <1>7. ASSUME q = c PROVE (q - 1) * d < p /\ p <= q * d
    <2>1. q * d < p + d
      BY <1>2, <1>7
    <2> QED
      BY <1>2, <1>3, <1>7, <2>1
  <1> QED
    BY <1>4, <1>5, <1>6, <1>7 DEF f, c

LEMMA BoundsAre == MinInt \in Int /\ MaxInt \in Int
  BY FixedPointAssumption DEF MinInt, MaxInt

\* Whichever path it takes, mul_div rounds the quotient that is asked for and
\* checks that it fits.
LEMMA MulDivAnswers ==
  ASSUME NEW x \in Int, NEW y \in Int, NEW z \in Int, NEW up \in BOOLEAN, z # 0
  PROVE  mul_div(x, y, z, up) = Checked(Quotient(Negated(x * y, z), Negated(z, z), up))
  BY DEF mul_div, divide_narrow, divide_wide

\* mul_div is exact for integers of any width: it answers with the quotient
\* rounded as asked wherever there is one that fits, and with an error only
\* where there is none (math/fixed.rs, mul_div, divide_narrow, divide_wide).
LEMMA MulDivIsExact ==
  ASSUME NEW x \in Int, NEW y \in Int, NEW z \in Int, NEW up \in BOOLEAN
  PROVE  MulDivExactAt(x, y, z, up)
  <1> DEFINE p == IF z < 0 THEN -(x * y) ELSE x * y
             d == IF z < 0 THEN -z ELSE z
             r == Quotient(p, d, up)
  <1>1. CASE z = 0
    <2>1. mul_div(x, y, z, up) = Err
      BY <1>1 DEF mul_div
    <2> QED
      BY <1>1, <2>1 DEF MulDivExactAt
  <1>2. CASE z # 0
    <2>1. p \in Int /\ d \in Nat \ {0}
      BY <1>2
    <2>2. mul_div(x, y, z, up) = Checked(r)
      BY <1>2, MulDivAnswers DEF Negated
    <2>3. \A q : IsQuotient(x, y, z, up, q) <=>
              IF up THEN (q - 1) * d < p /\ p <= q * d ELSE q * d <= p /\ p < (q + 1) * d
      BY DEF IsQuotient
    <2> HIDE DEF p, d
    <2>4. r \in Int /\ \A q \in Int : IsQuotient(x, y, z, up, q) <=> q = r
      <3>1. CASE up
        <4>1. r = Ceil(p, d)
          BY <2>1, <3>1, QuotientRounds
        <4>2. Ceil(p, d) \in Int
          BY <2>1, CeilIs
        <4> HIDE DEF r
        <4> QED
          BY <2>1, <2>3, <3>1, <4>1, <4>2, OneQuotient
      <3>2. CASE ~up
        <4>1. r = p \div d
          BY <2>1, <3>2, QuotientRounds
        <4>2. p \div d \in Int
          BY <2>1, FloorIs
        <4> HIDE DEF r
        <4> QED
          BY <2>1, <2>3, <3>2, <4>1, <4>2, OneQuotient
      <3> QED
        BY <3>1, <3>2
    <2> HIDE DEF r
    <2>5. CASE Fits(r)
      <3>1. mul_div(x, y, z, up) = <<r>>
        BY <2>2, <2>5 DEF Checked, Ok
      <3>2. <<r>> # << >> /\ <<r>>[1] = r
        OBVIOUS
      <3>3. IsQuotient(x, y, z, up, r)
        BY <2>4
      <3> QED
        BY <2>5, <3>1, <3>2, <3>3 DEF MulDivExactAt, Err
    <2>6. CASE ~Fits(r)
      <3>1. mul_div(x, y, z, up) = Err
        BY <2>2, <2>6 DEF Checked
      <3>2. \A q \in MinInt..MaxInt : q \in Int /\ Fits(q)
        BY BoundsAre DEF Fits
      <3>3. ~\E q \in MinInt..MaxInt : IsQuotient(x, y, z, up, q)
        BY <2>4, <2>6, <3>2
      <3> QED
        BY <3>1, <3>3 DEF MulDivExactAt
    <2> QED
      BY <2>5, <2>6
  <1> QED
    BY <1>1, <1>2

----------------------------------------------------------------------------
(* The auction's ramps, and fills in parts.                                *)

LEMMA Divides ==
  ASSUME NEW n \in Nat, NEW d \in Nat \ {0}, n % d = 0
  PROVE  n \div d \in Nat /\ d * (n \div d) = n
  OBVIOUS

LEMMA UnitsAre ==
  /\ Scalar7 \in Nat \ {0} /\ Scalar12 \in Nat \ {0}
  /\ RampBlocks \in Nat \ {0} /\ PerBlock \in Nat /\ RampBlocks * PerBlock = Scalar7
  /\ WholePercent \in Nat \ {0} /\ Scalar7 \div WholePercent \in Nat
  /\ WholePercent * (Scalar7 \div WholePercent) = Scalar7
  /\ RampEnd = RampBlocks + RampBlocks
  <1>1. /\ Scalar7 \in Nat \ {0} /\ Scalar12 \in Nat \ {0} /\ RampBlocks \in Nat \ {0}
        /\ WholePercent \in Nat \ {0} /\ Scalar7 % RampBlocks = 0 /\ Scalar7 % WholePercent = 0
    BY FixedPointAssumption, PoolMathAssumption
  <1>2. Scalar7 \div RampBlocks \in Nat /\ RampBlocks * (Scalar7 \div RampBlocks) = Scalar7
    BY <1>1, Divides
  <1>3. Scalar7 \div WholePercent \in Nat /\ WholePercent * (Scalar7 \div WholePercent) = Scalar7
    BY <1>1, Divides
  <1> QED
    BY <1>1, <1>2, <1>3 DEF PerBlock, RampEnd

\* A modifier on its ramp.
LEMMA RampsAre ==
  ASSUME NEW d \in Nat
  PROVE  /\ lot_modifier(d) = IF d <= RampBlocks THEN d * PerBlock ELSE RampBlocks * PerBlock
         /\ bid_modifier(d) = IF d <= RampBlocks THEN RampBlocks * PerBlock
                              ELSE IF d <= RampEnd THEN (RampEnd - d) * PerBlock ELSE 0
  <1>1. CASE d <= RampBlocks
    BY <1>1, UnitsAre DEF lot_modifier, bid_modifier
  <1>2. CASE RampBlocks < d /\ d < RampEnd
    <2>1. Scalar7 - (d - RampBlocks) * PerBlock = (RampEnd - d) * PerBlock
      <3>1. (RampEnd - d) = RampBlocks - (d - RampBlocks)
        BY UnitsAre
      <3>2. (RampBlocks - (d - RampBlocks)) * PerBlock
              = RampBlocks * PerBlock - (d - RampBlocks) * PerBlock
        BY UnitsAre, TimesSum
      <3> QED
        BY <3>1, <3>2, UnitsAre
    <2>2. ~(d <= RampBlocks) /\ d <= RampEnd
      BY <1>2, UnitsAre
    <2> QED
      BY <1>2, <2>1, <2>2, UnitsAre DEF lot_modifier, bid_modifier
  <1>3. CASE d >= RampEnd
    <2>1. ~(d <= RampBlocks) /\ ~(d < RampEnd)
      BY <1>3, UnitsAre
    <2>2. d <= RampEnd => (RampEnd - d) * PerBlock = 0
      <3> SUFFICES ASSUME d <= RampEnd PROVE (RampEnd - d) * PerBlock = 0
        OBVIOUS
      <3>1. RampEnd - d = 0
        BY <1>3, UnitsAre
      <3> QED
        BY <3>1, UnitsAre
    <2> QED
      BY <2>1, <2>2, UnitsAre DEF lot_modifier, bid_modifier
  <1> QED
    BY <1>1, <1>2, <1>3, UnitsAre

LEMMA ModifiersAre ==
  ASSUME NEW d \in Nat
  PROVE  /\ lot_modifier(d) \in Nat /\ lot_modifier(d) <= Scalar7
         /\ bid_modifier(d) \in Nat /\ bid_modifier(d) <= Scalar7
  <1>1. d <= RampBlocks => d * PerBlock \in Nat /\ d * PerBlock <= Scalar7
    BY UnitsAre, TimesMonotone, TimesType
  <1>2. d > RampBlocks /\ d <= RampEnd =>
          (RampEnd - d) * PerBlock \in Nat /\ (RampEnd - d) * PerBlock <= Scalar7
    <2> SUFFICES ASSUME d > RampBlocks, d <= RampEnd
                 PROVE  (RampEnd - d) * PerBlock \in Nat /\ (RampEnd - d) * PerBlock <= Scalar7
      OBVIOUS
    <2>1. RampEnd - d \in Int /\ RampEnd - d >= 0 /\ RampEnd - d <= RampBlocks
      BY UnitsAre
    <2> QED
      BY <2>1, UnitsAre, TimesMonotone, TimesType
  <1> QED
    BY <1>1, <1>2, RampsAre, UnitsAre

\* Waiting never raises the bid nor lowers the lot.
LEMMA ModifiersMove ==
  ASSUME NEW d \in Nat, NEW e \in Nat, d <= e
  PROVE  lot_modifier(d) <= lot_modifier(e) /\ bid_modifier(e) <= bid_modifier(d)
  <1>1. PerBlock \in Nat /\ RampBlocks \in Nat /\ RampEnd \in Nat /\ RampEnd = RampBlocks + RampBlocks
        /\ RampBlocks * PerBlock = Scalar7
    BY UnitsAre
  <1>2. lot_modifier(d) <= lot_modifier(e)
    <2>1. CASE e <= RampBlocks
      <3>1. d <= RampBlocks
        BY <1>1, <2>1
      <3>2. d * PerBlock <= e * PerBlock
        BY <1>1, TimesMonotone
      <3> QED
        BY <2>1, <3>1, <3>2, RampsAre
    <2>2. CASE ~(e <= RampBlocks)
      BY <1>1, <2>2, RampsAre, ModifiersAre
    <2> QED
      BY <2>1, <2>2
  <1>3. bid_modifier(e) <= bid_modifier(d)
    <2>1. CASE d <= RampBlocks
      BY <1>1, <2>1, RampsAre, ModifiersAre
    <2>2. CASE ~(d <= RampBlocks) /\ e <= RampEnd
      <3>1. ~(e <= RampBlocks) /\ d <= RampEnd /\ RampEnd - e <= RampEnd - d
        BY <1>1, <2>2
      <3>2. (RampEnd - e) * PerBlock <= (RampEnd - d) * PerBlock
        BY <1>1, <3>1, TimesMonotone
      <3> QED
        BY <2>2, <3>1, <3>2, RampsAre
    <2>3. CASE ~(d <= RampBlocks) /\ ~(e <= RampEnd)
      <3>1. ~(e <= RampBlocks)
        BY <1>1, <2>3
      <3>2. bid_modifier(e) = 0
        BY <3>1, <2>3, RampsAre
      <3> QED
        BY <3>2, ModifiersAre
    <2> QED
      BY <2>1, <2>2, <2>3
  <1> QED
    BY <1>2, <1>3

LEMMA SharesAre ==
  ASSUME NEW n \in Nat, NEW s \in Nat, s <= Scalar7
  PROVE  /\ bid_share(n, s) = Ceil(n * s, Scalar7) /\ lot_share(n, s) = (n * s) \div Scalar7
         /\ n * s \in Nat
         /\ bid_share(n, s) \in Nat /\ bid_share(n, s) <= n
         /\ lot_share(n, s) \in Nat /\ lot_share(n, s) <= n
  <1>1. Scalar7 \in Nat \ {0}
    BY UnitsAre
  <1>2. bid_share(n, s) = Ceil(n * s, Scalar7) /\ lot_share(n, s) = (n * s) \div Scalar7
    BY MulAre DEF bid_share, lot_share
  <1>3. n * s \in Nat /\ n * s <= n * Scalar7 /\ n * Scalar7 \in Int /\ 0 * Scalar7 = 0
    BY <1>1
  <1>4. Ceil(n * s, Scalar7) \in Int /\ (n * s) \div Scalar7 \in Int
    BY <1>1, <1>3, CeilIs, FloorIs
  <1>5. Ceil(n * s, Scalar7) <= n
    BY <1>1, <1>3, CeilAtMost
  <1>6. 0 <= Ceil(n * s, Scalar7)
    BY <1>1, <1>3, CeilAtLeast
  <1>7. 0 <= (n * s) \div Scalar7
    BY <1>1, <1>3, FloorAtLeast
  <1>8. (n * s) \div Scalar7 <= n
    BY <1>1, <1>3, FloorAtMost
  <1> QED
    BY <1>2, <1>3, <1>4, <1>5, <1>6, <1>7, <1>8

LEMMA WholeShare ==
  ASSUME NEW n \in Nat
  PROVE  bid_share(n, Scalar7) = n /\ lot_share(n, Scalar7) = n
  <1>1. Scalar7 \in Nat \ {0}
    BY UnitsAre
  <1>2. (n * Scalar7) \div Scalar7 = n /\ Ceil(n * Scalar7, Scalar7) = n
    BY <1>1, WholeOfIt
  <1> QED
    BY <1>2, MulAre DEF bid_share, lot_share

\* An amount split in two pays no more, at any modifier.
LEMMA SharesSplit ==
  ASSUME NEW n \in Nat, NEW k \in Nat, k <= n, NEW s \in Nat
  PROVE  /\ bid_share(n, s) <= bid_share(k, s) + bid_share(n - k, s)
         /\ lot_share(k, s) + lot_share(n - k, s) <= lot_share(n, s)
  <1>1. k * s \in Int /\ (n - k) * s \in Int /\ k * s + (n - k) * s = n * s
    BY TimesSum
  <1>2. Ceil(n * s, Scalar7) <= Ceil(k * s, Scalar7) + Ceil((n - k) * s, Scalar7)
    BY <1>1, CeilSplit, UnitsAre
  <1>3. (k * s) \div Scalar7 + ((n - k) * s) \div Scalar7 <= (n * s) \div Scalar7
    BY <1>1, FloorSplit, UnitsAre
  <1> QED
    BY <1>2, <1>3, MulAre DEF bid_share, lot_share

LEMMA SharesMove ==
  ASSUME NEW n \in Nat, NEW s \in Nat, NEW t \in Nat, s <= t
  PROVE  bid_share(n, s) <= bid_share(n, t) /\ lot_share(n, s) <= lot_share(n, t)
  <1>1. n * s \in Int /\ n * t \in Int /\ n * s <= n * t
    OBVIOUS
  <1>2. Ceil(n * s, Scalar7) <= Ceil(n * t, Scalar7)
    BY <1>1, CeilMonotone, UnitsAre
  <1>3. (n * s) \div Scalar7 <= (n * t) \div Scalar7
    BY <1>1, FloorMonotone, UnitsAre
  <1> QED
    BY <1>2, <1>3, MulAre DEF bid_share, lot_share

\* What a fill takes and leaves of one asset.
LEMMA ScaledAre ==
  ASSUME NEW auction \in Auctions, NEW block \in Nat, NEW percent \in 0..WholePercent,
         auction.block <= block
  PROVE  LET part == percent * (Scalar7 \div WholePercent)
             delta == block - auction.block
             s == scale_auction(auction, block, percent)
         IN  /\ part \in Nat /\ part <= Scalar7 /\ delta \in Nat
             /\ percent = WholePercent => part = Scalar7
             /\ s.remaining \in Auctions /\ s.remaining.block = auction.block
             /\ \A a \in Listed :
                   /\ auction.bid[a] \in Nat /\ auction.lot[a] \in Nat
                   /\ s.to_fill.bid[a]
                        = bid_share(bid_share(auction.bid[a], part), bid_modifier(delta))
                   /\ s.to_fill.lot[a]
                        = lot_share(lot_share(auction.lot[a], part), lot_modifier(delta))
                   /\ s.remaining.bid[a] = auction.bid[a] - bid_share(auction.bid[a], part)
                   /\ s.remaining.lot[a] = auction.lot[a] - lot_share(auction.lot[a], part)
  <1> DEFINE unit == Scalar7 \div WholePercent
             part == percent * unit
             delta == block - auction.block
             s == scale_auction(auction, block, percent)
  <1>1. unit \in Nat /\ WholePercent * unit = Scalar7 /\ WholePercent \in Nat
    BY UnitsAre
  <1> HIDE DEF unit
  <1>2. part \in Nat /\ part <= Scalar7 /\ (percent = WholePercent => part = Scalar7)
    BY <1>1, TimesMonotone, TimesType
  <1>3. auction.block \in Nat /\ auction.bid \in [Listed -> Nat] /\ auction.lot \in [Listed -> Nat]
    BY DEF Auctions
  <1>4. delta \in Nat
    BY <1>3
  <1>5. /\ s.to_fill.bid
             = [a \in Listed |-> bid_share([b \in Listed |-> bid_share(auction.bid[b], part)][a],
                                            bid_modifier(delta))]
        /\ s.to_fill.lot
             = [a \in Listed |-> lot_share([b \in Listed |-> lot_share(auction.lot[b], part)][a],
                                            lot_modifier(delta))]
    BY DEF scale_auction, unit
  <1>6. s.remaining = [block |-> auction.block,
             bid |-> [a \in Listed |-> auction.bid[a] - [b \in Listed |-> bid_share(auction.bid[b], part)][a]],
             lot |-> [a \in Listed |-> auction.lot[a] - [b \in Listed |-> lot_share(auction.lot[b], part)][a]]]
    BY DEF scale_auction, unit
  <1> HIDE DEF part, delta, s
  <1>7. \A a \in Listed :
           /\ auction.bid[a] \in Nat /\ auction.lot[a] \in Nat
           /\ s.to_fill.bid[a] = bid_share(bid_share(auction.bid[a], part), bid_modifier(delta))
           /\ s.to_fill.lot[a] = lot_share(lot_share(auction.lot[a], part), lot_modifier(delta))
           /\ s.remaining.bid[a] = auction.bid[a] - bid_share(auction.bid[a], part)
           /\ s.remaining.lot[a] = auction.lot[a] - lot_share(auction.lot[a], part)
    BY <1>3, <1>5, <1>6
  <1>8. s.remaining.bid \in [Listed -> Nat]
    <2>1. ASSUME NEW a \in Listed
          PROVE  auction.bid[a] - bid_share(auction.bid[a], part) \in Nat
      <3> DEFINE n == auction.bid[a]
      <3>1. n \in Nat
        BY <1>7
      <3> HIDE DEF n
      <3>2. bid_share(n, part) \in Nat /\ bid_share(n, part) <= n
        BY <1>2, <3>1, SharesAre
      <3>3. n - bid_share(n, part) \in Nat
        BY <3>1, <3>2
      <3> QED
        BY <3>3 DEF n
    <2> QED
      BY <1>6, <2>1
  <1>9. s.remaining.lot \in [Listed -> Nat]
    <2>1. ASSUME NEW a \in Listed
          PROVE  auction.lot[a] - lot_share(auction.lot[a], part) \in Nat
      <3> DEFINE n == auction.lot[a]
      <3>1. n \in Nat
        BY <1>7
      <3> HIDE DEF n
      <3>2. lot_share(n, part) \in Nat /\ lot_share(n, part) <= n
        BY <1>2, <3>1, SharesAre
      <3>3. n - lot_share(n, part) \in Nat
        BY <3>1, <3>2
      <3> QED
        BY <3>3 DEF n
    <2> QED
      BY <1>6, <2>1
  <1>10. s.remaining = [block |-> s.remaining.block, bid |-> s.remaining.bid, lot |-> s.remaining.lot]
         /\ s.remaining.block = auction.block
    BY <1>6
  <1>11. s.remaining \in Auctions
    BY <1>3, <1>8, <1>9, <1>10 DEF Auctions
  <1> QED
    BY <1>2, <1>4, <1>7, <1>10, <1>11 DEF part, delta, s, unit

LEMMA NothingLeft ==
  ASSUME NEW auction \in Auctions, \A a \in Listed : auction.bid[a] = 0 /\ auction.lot[a] = 0
  PROVE  IsClosed(auction)
  BY DEF Auctions, IsClosed, Nothing

LEMMA SplitNeverPays ==
  ASSUME NEW auction \in Auctions, NEW block \in Nat, NEW percent \in 1..WholePercent,
         auction.block <= block
  PROVE  SplittingNeverPays(auction, block, percent)
  <1> DEFINE part == percent * (Scalar7 \div WholePercent)
             all == WholePercent * (Scalar7 \div WholePercent)
             first == scale_auction(auction, block, percent)
             rest == scale_auction(first.remaining, block, WholePercent)
             whole == scale_auction(auction, block, WholePercent)
             later == scale_auction(auction, block + 1, WholePercent)
             delta == block - auction.block
             bm == bid_modifier(delta)
             lm == lot_modifier(delta)
  <1>1. WholePercent \in Nat /\ percent \in 0..WholePercent /\ WholePercent \in 0..WholePercent
        /\ all = Scalar7 /\ auction.block \in Nat
    BY UnitsAre DEF Auctions
  <1>2. delta \in Nat /\ block + 1 \in Nat /\ auction.block <= block + 1
        /\ block + 1 - auction.block = delta + 1
    BY <1>1
  <1>3. /\ part \in Nat /\ part <= Scalar7
        /\ first.remaining \in Auctions /\ first.remaining.block = auction.block
        /\ \A a \in Listed :
              /\ auction.bid[a] \in Nat /\ auction.lot[a] \in Nat
              /\ first.to_fill.bid[a] = bid_share(bid_share(auction.bid[a], part), bm)
              /\ first.to_fill.lot[a] = lot_share(lot_share(auction.lot[a], part), lm)
              /\ first.remaining.bid[a] = auction.bid[a] - bid_share(auction.bid[a], part)
              /\ first.remaining.lot[a] = auction.lot[a] - lot_share(auction.lot[a], part)
    BY <1>1, ScaledAre
  <1> HIDE DEF first, part
  <1>4. /\ rest.remaining \in Auctions
        /\ \A a \in Listed :
              /\ rest.to_fill.bid[a] = bid_share(bid_share(first.remaining.bid[a], Scalar7), bm)
              /\ rest.to_fill.lot[a] = lot_share(lot_share(first.remaining.lot[a], Scalar7), lm)
              /\ rest.remaining.bid[a]
                   = first.remaining.bid[a] - bid_share(first.remaining.bid[a], Scalar7)
              /\ rest.remaining.lot[a]
                   = first.remaining.lot[a] - lot_share(first.remaining.lot[a], Scalar7)
    BY <1>1, <1>3, ScaledAre
  <1>5. /\ whole.remaining \in Auctions
        /\ \A a \in Listed :
              /\ whole.to_fill.bid[a] = bid_share(bid_share(auction.bid[a], Scalar7), bm)
              /\ whole.to_fill.lot[a] = lot_share(lot_share(auction.lot[a], Scalar7), lm)
              /\ whole.remaining.bid[a] = auction.bid[a] - bid_share(auction.bid[a], Scalar7)
              /\ whole.remaining.lot[a] = auction.lot[a] - lot_share(auction.lot[a], Scalar7)
    BY <1>1, ScaledAre
  <1>6. \A a \in Listed :
           /\ later.to_fill.bid[a]
                = bid_share(bid_share(auction.bid[a], Scalar7), bid_modifier(delta + 1))
           /\ later.to_fill.lot[a]
                = lot_share(lot_share(auction.lot[a], Scalar7), lot_modifier(delta + 1))
    BY <1>1, <1>2, ScaledAre
  <1> HIDE DEF rest, whole, later, delta, all
  <1>7. /\ bm \in Nat /\ bm <= Scalar7 /\ lm \in Nat /\ lm <= Scalar7
        /\ bid_modifier(delta + 1) \in Nat /\ bid_modifier(delta + 1) <= bm
        /\ lot_modifier(delta + 1) \in Nat /\ lm <= lot_modifier(delta + 1)
    BY <1>2, ModifiersAre, ModifiersMove
  <1> HIDE DEF bm, lm
  <1>8. ASSUME NEW a \in Listed
        PROVE  /\ first.remaining.bid[a] \in Nat /\ first.remaining.lot[a] \in Nat
               /\ rest.remaining.bid[a] = 0 /\ rest.remaining.lot[a] = 0
               /\ whole.remaining.bid[a] = 0 /\ whole.remaining.lot[a] = 0
               /\ first.to_fill.bid[a] + rest.to_fill.bid[a] >= whole.to_fill.bid[a]
               /\ first.to_fill.lot[a] + rest.to_fill.lot[a] <= whole.to_fill.lot[a]
               /\ later.to_fill.bid[a] <= whole.to_fill.bid[a]
               /\ later.to_fill.lot[a] >= whole.to_fill.lot[a]
    <2> DEFINE n == auction.bid[a]
               m == auction.lot[a]
               k == bid_share(n, part)
               j == lot_share(m, part)
    <2>1. n \in Nat /\ m \in Nat
      BY <1>3
    <2>2. k \in Nat /\ k <= n /\ j \in Nat /\ j <= m
      BY <2>1, <1>3, SharesAre
    <2>3. /\ first.remaining.bid[a] = n - k /\ first.remaining.lot[a] = m - j
          /\ first.to_fill.bid[a] = bid_share(k, bm) /\ first.to_fill.lot[a] = lot_share(j, lm)
      BY <1>3
    <2> HIDE DEF n, m, k, j
    <2>4. n - k \in Nat /\ m - j \in Nat
      BY <2>1, <2>2
    <2>5. /\ bid_share(n, Scalar7) = n /\ lot_share(m, Scalar7) = m
          /\ bid_share(n - k, Scalar7) = n - k /\ lot_share(m - j, Scalar7) = m - j
      BY <2>1, <2>4, WholeShare
    <2>6. /\ rest.to_fill.bid[a] = bid_share(n - k, bm)
          /\ rest.to_fill.lot[a] = lot_share(m - j, lm)
          /\ rest.remaining.bid[a] = (n - k) - (n - k) /\ rest.remaining.lot[a] = (m - j) - (m - j)
      BY <1>4, <2>3, <2>5
    <2>7. /\ whole.to_fill.bid[a] = bid_share(n, bm) /\ whole.to_fill.lot[a] = lot_share(m, lm)
          /\ whole.remaining.bid[a] = n - n /\ whole.remaining.lot[a] = m - m
      BY <1>5, <2>5 DEF n, m
    <2>8. /\ later.to_fill.bid[a] = bid_share(n, bid_modifier(delta + 1))
          /\ later.to_fill.lot[a] = lot_share(m, lot_modifier(delta + 1))
      BY <1>6, <2>5 DEF n, m
    <2>9. /\ bid_share(n, bm) <= bid_share(k, bm) + bid_share(n - k, bm)
          /\ lot_share(j, lm) + lot_share(m - j, lm) <= lot_share(m, lm)
      BY <1>7, <2>1, <2>2, SharesSplit
    <2>10. /\ bid_share(n, bid_modifier(delta + 1)) <= bid_share(n, bm)
           /\ lot_share(m, lm) <= lot_share(m, lot_modifier(delta + 1))
      BY <1>7, <2>1, SharesMove
    <2>11. /\ bid_share(n, bm) \in Nat /\ bid_share(k, bm) \in Nat /\ bid_share(n - k, bm) \in Nat
           /\ lot_share(m, lm) \in Nat /\ lot_share(m, lot_modifier(delta + 1)) \in Int
      <3>1. lot_modifier(delta + 1) <= Scalar7
        BY <1>2, ModifiersAre
      <3>2. bid_share(n, bm) \in Nat /\ bid_share(k, bm) \in Nat /\ bid_share(n - k, bm) \in Nat
        BY <1>7, <2>1, <2>2, <2>4, SharesAre
      <3>3. lot_share(m, lm) \in Nat
        BY <1>7, <2>1, SharesAre
      <3>4. lot_share(m, lot_modifier(delta + 1)) \in Nat
        BY <3>1, <1>7, <2>1, SharesAre
      <3> QED
        BY <3>2, <3>3, <3>4
    <2>12. /\ rest.remaining.bid[a] = 0 /\ rest.remaining.lot[a] = 0
           /\ whole.remaining.bid[a] = 0 /\ whole.remaining.lot[a] = 0
      BY <2>1, <2>4, <2>6, <2>7
    <2>13. first.to_fill.bid[a] + rest.to_fill.bid[a] >= whole.to_fill.bid[a]
      BY <2>3, <2>6, <2>7, <2>9, <2>11
    <2>14. first.to_fill.lot[a] + rest.to_fill.lot[a] <= whole.to_fill.lot[a]
      BY <2>3, <2>6, <2>7, <2>9
    <2>15. later.to_fill.bid[a] <= whole.to_fill.bid[a]
      BY <2>7, <2>8, <2>10
    <2>16. later.to_fill.lot[a] >= whole.to_fill.lot[a]
      BY <2>7, <2>8, <2>10, <2>11
    <2> QED
      BY <2>3, <2>4, <2>12, <2>13, <2>14, <2>15, <2>16
  <1>9. IsClosed(whole.remaining) /\ IsClosed(rest.remaining)
    BY <1>4, <1>5, <1>8, NothingLeft
  <1>10. \A a \in Listed : first.remaining.bid[a] >= 0 /\ first.remaining.lot[a] >= 0
    BY <1>8
  <1> QED
    BY <1>8, <1>9, <1>10 DEF SplittingNeverPays, first, rest, whole, later

----------------------------------------------------------------------------
(* The default path.                                                       *)

LEMMA ReserveFields ==
  ASSUME NEW r \in Reserves
  PROVE  /\ r.b_rate \in Nat /\ r.d_rate \in Nat \ {0} /\ r.b_supply \in Nat /\ r.d_supply \in Nat
         /\ r.credit \in Nat /\ r.last_time \in Nat /\ r.config \in Curves
         /\ r.ir_mod \in IrModMin..IrModMax /\ r.supply_cap \in Nat
  BY DEF Reserves

LEMMA CeilNat ==
  ASSUME NEW a \in Nat, NEW d \in Nat \ {0}
  PROVE  Ceil(a, d) \in Nat /\ a \div d \in Nat
  <1>1. 0 * d = 0
    OBVIOUS
  <1>2. Ceil(a, d) \in Int /\ a \div d \in Int
    BY CeilIs, FloorIs
  <1>3. 0 <= Ceil(a, d)
    BY <1>1, CeilAtLeast
  <1>4. 0 <= a \div d
    BY <1>1, FloorAtLeast
  <1> QED
    BY <1>2, <1>3, <1>4

LEMMA ValuesAre ==
  ASSUME NEW r \in Reserves, NEW n \in Nat
  PROVE  /\ to_asset_from_d_token(r, n) = Ceil(n * r.d_rate, Scalar12)
         /\ to_asset_from_b_token(r, n) = (n * r.b_rate) \div Scalar12
         /\ to_asset_from_d_token(r, n) \in Nat /\ to_asset_from_b_token(r, n) \in Nat
         /\ to_d_token_down(r, n) = (n * Scalar12) \div r.d_rate /\ to_d_token_down(r, n) \in Nat
         /\ r.b_rate # 0 => to_b_token_up(r, n) = Ceil(n * Scalar12, r.b_rate)
                               /\ to_b_token_up(r, n) \in Nat
         /\ r.b_rate # 0 => to_b_token_down(r, n) = (n * Scalar12) \div r.b_rate
                               /\ to_b_token_down(r, n) \in Nat
  <1>1. r.b_rate \in Nat /\ r.d_rate \in Nat \ {0} /\ Scalar12 \in Nat \ {0}
    BY ReserveFields, UnitsAre
  <1>2. n * r.d_rate \in Nat /\ n * r.b_rate \in Nat /\ n * Scalar12 \in Nat
    BY <1>1, TimesType
  <1>3. /\ to_asset_from_d_token(r, n) = Ceil(n * r.d_rate, Scalar12)
        /\ to_asset_from_b_token(r, n) = (n * r.b_rate) \div Scalar12
        /\ to_d_token_down(r, n) = (n * Scalar12) \div r.d_rate
        /\ to_b_token_up(r, n) = Ceil(n * Scalar12, r.b_rate)
        /\ to_b_token_down(r, n) = (n * Scalar12) \div r.b_rate
    BY MulAre DEF to_asset_from_d_token, to_asset_from_b_token, to_d_token_down, to_b_token_up,
                  to_b_token_down, div_floor, div_ceil
  <1>4. Ceil(n * r.d_rate, Scalar12) \in Nat
    BY <1>1, <1>2, CeilNat
  <1>5. (n * r.b_rate) \div Scalar12 \in Nat
    BY <1>1, <1>2, CeilNat
  <1>6. (n * Scalar12) \div r.d_rate \in Nat
    BY <1>1, <1>2, CeilNat
  <1>7. ASSUME r.b_rate # 0
        PROVE  Ceil(n * Scalar12, r.b_rate) \in Nat /\ (n * Scalar12) \div r.b_rate \in Nat
    <2>1. r.b_rate \in Nat \ {0}
      BY <1>1, <1>7
    <2> QED
      BY <2>1, <1>2, CeilNat
  <1> QED
    BY <1>3, <1>4, <1>5, <1>6, <1>7

\* The set-off burns no more than the claim and repays no more than is owed.
LEMMA SetOffBounded ==
  ASSUME NEW r \in Reserves, NEW d \in Nat, NEW claim \in Nat
  PROVE  LET off == SetOff(r, d, claim)
         IN  /\ off.burnt \in Nat /\ off.burnt <= claim
             /\ off.repaid \in Nat /\ off.repaid <= d
  <1> DEFINE off == SetOff(r, d, claim)
  <1>1. CASE claim = 0 \/ r.b_rate = 0
    <2>1. off.burnt = 0 /\ off.repaid = 0
      BY <1>1 DEF SetOff
    <2> HIDE DEF off
    <2> QED
      BY <2>1 DEF off
  <1>2. CASE ~(claim = 0 \/ r.b_rate = 0)
    <2> DEFINE x == to_b_token_up(r, to_asset_from_d_token(r, d))
               b == Min({claim, x})
               y == to_d_token_down(r, to_asset_from_b_token(r, b))
               repaid == Min({d, y})
    <2>1. x \in Nat
      BY <1>2, ValuesAre
    <2> HIDE DEF x
    <2>2. b \in Nat /\ b <= claim
      BY <2>1, MinOfTwo
    <2> HIDE DEF b
    <2>3. y \in Nat
      BY <2>2, ValuesAre
    <2> HIDE DEF y
    <2>4. repaid \in Nat /\ repaid <= d
      BY <2>3, MinOfTwo
    <2> HIDE DEF repaid
    <2>5. off = [burnt |-> IF repaid > 0 THEN b ELSE 0, repaid |-> repaid]
      BY <1>2 DEF SetOff, repaid, y, b, x
    <2>6. off.burnt \in {b, 0} /\ off.repaid = repaid
      BY <2>5
    <2> QED
      BY <2>2, <2>4, <2>6
  <1> QED
    BY <1>1, <1>2

\* A loss spread over the supply that is left, rounded up.
LEMMA LossSpread ==
  ASSUME NEW supply \in Nat \ {0}, NEW rate \in Nat, NEW loss \in Nat,
         NEW cut \in Nat, loss * Scalar12 <= cut * supply, cut <= rate
  PROVE  (supply * (rate - cut)) \div Scalar12 + loss <= (supply * rate) \div Scalar12
  <1>1. Scalar12 \in Nat \ {0}
    BY UnitsAre
  <1> DEFINE a == supply * rate
             b == supply * (rate - cut)
             f == b \div Scalar12
  <1>2. /\ a \in Int /\ b \in Int /\ b = a - cut * supply
        /\ cut * supply \in Int /\ loss * Scalar12 \in Int
    BY <1>1, TimesSum
  <1> HIDE DEF a, b
  <1>3. b + loss * Scalar12 <= a
    BY <1>2
  <1>4. f \in Int /\ f * Scalar12 <= b
    BY <1>1, <1>2, FloorIs
  <1> HIDE DEF f
  <1>5. (f + loss) * Scalar12 = f * Scalar12 + loss * Scalar12 /\ f * Scalar12 \in Int
    BY <1>1, <1>4, TimesSum
  <1>6. (f + loss) * Scalar12 <= a
    BY <1>2, <1>3, <1>4, <1>5
  <1>7. f + loss <= a \div Scalar12
    BY <1>1, <1>2, <1>4, <1>6, FloorAtLeast
  <1> QED
    BY <1>7 DEF a, b, f

LEMMA DefaultCharges ==
  ASSUME NEW r \in Reserves, NEW d \in Nat, NEW claim \in Nat, claim <= r.b_supply
  PROVE  DefaultIsCharged(r, d, claim)
  <1> DEFINE off == SetOff(r, d, claim)
             after == DefaultOne(r, d, claim)
             left == [r EXCEPT !.b_supply = @ - off.burnt]
             mid == [r EXCEPT !.b_supply = @ - off.burnt, !.d_supply = @ - d]
             supply == r.b_supply - off.burnt
             lost == d - off.repaid
             loss == to_asset_from_d_token(r, lost)
  <1>1. /\ off.burnt \in Nat /\ off.burnt <= claim
        /\ off.repaid \in Nat /\ off.repaid <= d
    BY SetOffBounded
  <1>2. /\ r.b_rate \in Nat /\ r.d_rate \in Nat \ {0} /\ r.b_supply \in Nat
        /\ Scalar12 \in Nat \ {0}
    BY ReserveFields, UnitsAre
  <1>3. supply \in Nat /\ lost \in Nat
    BY <1>1, <1>2
  <1>4. mid.b_supply = supply /\ mid.b_rate = r.b_rate /\ mid.d_rate = r.d_rate
        /\ left.b_supply = supply /\ left.b_rate = r.b_rate
    BY DEF Reserves
  <1>5. after.b_supply = supply /\ after.b_rate = Charged(r, mid, lost)
    BY DEF Reserves, DefaultOne
  <1>6. total_supply(after) = (supply * Charged(r, mid, lost)) \div Scalar12
        /\ total_supply(left) = (supply * r.b_rate) \div Scalar12
    BY <1>4, <1>5, MulAre DEF total_supply, to_asset_from_b_token
  <1>7. loss \in Nat /\ to_asset_from_d_token(mid, lost) = loss
    BY <1>3, <1>4, ValuesAre DEF to_asset_from_d_token
  <1> HIDE DEF off, after, left, mid, supply, lost, loss
  <1>8. ASSUME off.repaid < d
        PROVE  \/ total_supply(after) = 0
               \/ total_supply(after) + loss <= total_supply(left)
    <2>1. lost # 0
      BY <1>1, <1>8 DEF lost
    <2>2. CASE supply = 0
      <3>1. Charged(r, mid, lost) = r.b_rate
        BY <2>2, <1>4 DEF Charged
      <3>2. supply * r.b_rate = 0 /\ 0 \div Scalar12 = 0
        BY <2>2, <1>2
      <3> QED
        BY <3>1, <3>2, <1>6
    <2>3. CASE supply # 0
      <3> DEFINE cut == Ceil(loss * Scalar12, supply)
      <3>1. div_ceil(to_asset_from_d_token(mid, lost), mid.b_supply, Scalar12) = cut
        BY <1>4, <1>7, MulAre DEF div_ceil
      <3>2. Charged(r, mid, lost) = Max({0, r.b_rate - cut})
        BY <2>1, <2>3, <3>1, <1>4 DEF Charged
      <3>3. supply \in Nat \ {0} /\ loss * Scalar12 \in Nat
        BY <2>3, <1>2, <1>3, <1>7, TimesType
      <3>4. cut \in Nat /\ loss * Scalar12 <= cut * supply
        BY <3>3, CeilIs, CeilNat
      <3> HIDE DEF cut
      <3>5. r.b_rate - cut \in Int
        BY <1>2, <3>4
      <3>6. CASE Charged(r, mid, lost) = 0
        <4>1. supply * 0 = 0 /\ 0 \div Scalar12 = 0
          BY <1>2, <1>3
        <4> QED
          BY <3>6, <4>1, <1>6
      <3>7. CASE Charged(r, mid, lost) # 0
        <4>1. Charged(r, mid, lost) = r.b_rate - cut /\ r.b_rate - cut >= 0
          BY <3>2, <3>5, <3>7, MinOfTwo
        <4>2. cut <= r.b_rate
          BY <4>1, <3>4, <1>2
        <4>3. (supply * (r.b_rate - cut)) \div Scalar12 + loss <= (supply * r.b_rate) \div Scalar12
          BY <4>2, <3>3, <3>4, <1>2, <1>7, LossSpread
        <4> QED
          BY <4>1, <4>3, <1>6
      <3> QED
        BY <3>6, <3>7
    <2> QED
      BY <2>2, <2>3
  <1> QED
    BY <1>1, <1>8 DEF DefaultIsCharged, off, after, left, loss, lost

----------------------------------------------------------------------------
(* Interest.                                                               *)

LEMMA MulNat ==
  ASSUME NEW x \in Nat, NEW y \in Nat, NEW d \in Nat \ {0}
  PROVE  mul_ceil(x, y, d) \in Nat /\ mul_floor(x, y, d) \in Nat
  <1>1. x * y \in Nat
    BY TimesType
  <1> QED
    BY <1>1, MulAre, CeilNat

LEMMA DivNat ==
  ASSUME NEW x \in Nat, NEW y \in Nat \ {0}, NEW d \in Nat
  PROVE  div_ceil(x, y, d) \in Nat /\ div_floor(x, y, d) \in Nat
  <1>1. x * d \in Nat
    BY TimesType
  <1> QED
    BY <1>1, MulAre, CeilNat DEF div_ceil, div_floor

LEMMA CurveUnits ==
  /\ Util95 \in Nat /\ Util95 < Scalar7
  /\ IrModMin \in Nat /\ IrModMax \in Nat /\ IrModMin <= IrModMax
  <1>1. Scalar7 \in Nat \ {0} /\ Scalar7 % 20 = 0
    BY FixedPointAssumption, PoolMathAssumption
  <1>2. Scalar7 \div 20 \in Nat /\ 20 * (Scalar7 \div 20) = Scalar7
    BY <1>1, Divides
  <1>3. Util95 \in Nat /\ Util95 < Scalar7
    BY <1>1, <1>2 DEF Util95
  <1>4. IrModMin \in Nat /\ IrModMax \in Nat /\ IrModMin <= IrModMax
    BY <1>1 DEF IrModMin, IrModMax
  <1> QED
    BY <1>3, <1>4

LEMMA TotalsAre ==
  ASSUME NEW r \in Reserves
  PROVE  /\ total_liabilities(r) = Ceil(r.d_supply * r.d_rate, Scalar12)
         /\ total_liabilities(r) \in Nat
         /\ total_supply(r) = (r.b_supply * r.b_rate) \div Scalar12
         /\ total_supply(r) \in Nat
  BY ReserveFields, ValuesAre DEF total_liabilities, total_supply

LEMMA UtilizationIs ==
  ASSUME NEW r \in Reserves
  PROVE  utilization(r) \in Nat /\ utilization(r) <= Scalar7
  <1> DEFINE owed == total_liabilities(r)
             deposits == total_supply(r)
  <1>1. owed \in Nat /\ deposits \in Nat /\ Scalar7 \in Nat \ {0}
    BY TotalsAre, UnitsAre
  <1> HIDE DEF owed, deposits
  <1>2. ASSUME ~(owed >= deposits)
        PROVE  div_ceil(owed, deposits, Scalar7) \in Nat /\ div_ceil(owed, deposits, Scalar7) <= Scalar7
    <2>1. deposits \in Nat \ {0} /\ owed <= deposits
      BY <1>1, <1>2
    <2>2. owed * Scalar7 <= deposits * Scalar7 /\ deposits * Scalar7 = Scalar7 * deposits
          /\ owed * Scalar7 \in Int
      BY <1>1, <2>1, TimesMonotone
    <2>3. Ceil(owed * Scalar7, deposits) <= Scalar7
      BY <1>1, <2>1, <2>2, CeilAtMost
    <2>4. div_ceil(owed, deposits, Scalar7) = Ceil(owed * Scalar7, deposits)
      BY MulAre DEF div_ceil
    <2> QED
      BY <1>1, <2>1, <2>3, <2>4, DivNat
  <1>3. utilization(r) = IF owed = 0 THEN 0 ELSE IF owed >= deposits THEN Scalar7
                         ELSE div_ceil(owed, deposits, Scalar7)
    BY DEF utilization, owed, deposits
  <1> QED
    BY <1>1, <1>2, <1>3

\* The rate is never negative, on any leg of the curve.
LEMMA RateIs ==
  ASSUME NEW c \in Curves, NEW util \in Nat \ {0}, util <= Scalar7, NEW m \in Nat
  PROVE  current_rate(c, util, m) \in Nat
  <1>1. /\ c.util \in Nat /\ c.r_base \in Nat /\ c.r_one \in Nat /\ c.r_two \in Nat
        /\ c.r_three \in Nat
    BY DEF Curves
  <1>2. Scalar7 \in Nat \ {0} /\ Util95 \in Nat /\ Util95 < Scalar7
    BY UnitsAre, CurveUnits
  <1>3. CASE util <= c.util
    <2> DEFINE x == div_ceil(util, c.util, Scalar7)
               y == mul_ceil(x, c.r_one, Scalar7)
    <2>0. c.util \in Nat \ {0}
      BY <1>1, <1>3
    <2>1. x \in Nat
      BY <1>2, <2>0, DivNat
    <2> HIDE DEF x
    <2>2. y \in Nat
      BY <1>1, <1>2, <2>1, MulNat
    <2> HIDE DEF y
    <2>3. y + c.r_base \in Nat
      BY <1>1, <2>2
    <2>4. mul_ceil(y + c.r_base, m, Scalar7) \in Nat
      BY <1>2, <2>3, MulNat
    <2> QED
      BY <1>3, <2>4 DEF current_rate, x, y
  <1>4. CASE ~(util <= c.util) /\ util <= Util95
    <2> DEFINE x == div_ceil(util - c.util, Util95 - c.util, Scalar7)
               y == mul_ceil(x, c.r_two, Scalar7)
    <2>0. util - c.util \in Nat /\ Util95 - c.util \in Nat \ {0}
      BY <1>1, <1>2, <1>4
    <2>1. x \in Nat
      BY <1>2, <2>0, DivNat
    <2> HIDE DEF x
    <2>2. y \in Nat
      BY <1>1, <1>2, <2>1, MulNat
    <2> HIDE DEF y
    <2>3. y + c.r_one + c.r_base \in Nat
      BY <1>1, <2>2
    <2>4. mul_ceil(y + c.r_one + c.r_base, m, Scalar7) \in Nat
      BY <1>2, <2>3, MulNat
    <2> QED
      BY <1>4, <2>4 DEF current_rate, x, y
  <1>5. CASE ~(util <= c.util) /\ ~(util <= Util95)
    <2> DEFINE x == div_ceil(util - Util95, Scalar7 - Util95, Scalar7)
               y == mul_ceil(x, c.r_three, Scalar7)
               z == mul_ceil(m, c.r_two + c.r_one + c.r_base, Scalar7)
    <2>0. util - Util95 \in Nat /\ Scalar7 - Util95 \in Nat \ {0}
      BY <1>2, <1>5
    <2>1. x \in Nat
      BY <1>2, <2>0, DivNat
    <2> HIDE DEF x
    <2>2. y \in Nat
      BY <1>1, <1>2, <2>1, MulNat
    <2>3. z \in Nat
      <3>1. c.r_two + c.r_one + c.r_base \in Nat
        BY <1>1
      <3> QED
        BY <1>2, <3>1, MulNat
    <2>4. current_rate(c, util, m) = y + z
      BY <1>5 DEF current_rate, x
    <2> HIDE DEF y, z
    <2> QED
      BY <2>2, <2>3, <2>4
  <1> QED
    BY <1>3, <1>4, <1>5

LEMMA ModifierKept ==
  ASSUME NEW c \in Curves, NEW util \in Nat, NEW m \in IrModMin..IrModMax, NEW elapsed \in Nat
  PROVE  next_ir_mod(c, util, m, elapsed) \in IrModMin..IrModMax
  <1>1. /\ c.util \in Nat /\ c.reactivity \in Nat /\ Scalar7 \in Nat \ {0}
        /\ IrModMin \in Nat /\ IrModMax \in Nat /\ m \in Int
        /\ IrModMin <= IrModMax /\ IrModMin <= m /\ m <= IrModMax
    BY UnitsAre, CurveUnits DEF Curves
  <1> DEFINE error == elapsed * (util - c.util)
             p == error * c.reactivity
  <1>2. CASE util >= c.util
    <2>1. util - c.util \in Nat
      BY <1>1, <1>2
    <2>2. error \in Nat
      BY <2>1, TimesType
    <2>3. mul_floor(error, c.reactivity, Scalar7) \in Nat
      BY <1>1, <2>2, MulNat
    <2> DEFINE x == m + mul_floor(error, c.reactivity, Scalar7)
    <2>4. next_ir_mod(c, util, m, elapsed) = Min({x, IrModMax})
      BY <1>2 DEF next_ir_mod
    <2>5. x \in Int /\ x >= m
      BY <1>1, <2>3
    <2> HIDE DEF x
    <2>6. Min({x, IrModMax}) \in {x, IrModMax} /\ Min({x, IrModMax}) <= IrModMax
      <3>1. x \in Int /\ IrModMax \in Int
        BY <1>1, <2>5
      <3> QED
        BY <3>1, MinOfTwo, Zenon
    <2>7. Min({x, IrModMax}) >= IrModMin /\ Min({x, IrModMax}) \in Int
      BY <1>1, <2>5, <2>6
    <2> QED
      BY <1>1, <2>4, <2>6, <2>7
  <1>3. CASE ~(util >= c.util)
    <2>1. util - c.util \in Int /\ c.util - util \in Nat /\ util - c.util = -(c.util - util)
      BY <1>1, <1>3
    <2>2. error \in Int /\ error <= 0
      <3>1. elapsed * (c.util - util) \in Nat
        BY <2>1, TimesType
      <3>2. elapsed * (util - c.util) = -(elapsed * (c.util - util))
        BY <2>1
      <3> QED
        BY <3>1, <3>2
    <2> HIDE DEF error
    <2>3. p \in Int /\ p <= 0 * Scalar7
      <3>1. error * c.reactivity <= 0 * c.reactivity
        BY <1>1, <2>2, TimesMonotone
      <3> QED
        BY <1>1, <2>2, <3>1
    <2>4. Ceil(p, Scalar7) <= 0 /\ Ceil(p, Scalar7) \in Int
      <3> HIDE DEF p
      <3>1. Ceil(p, Scalar7) <= 0
        BY <1>1, <2>3, CeilAtMost
      <3>2. Ceil(p, Scalar7) \in Int
        BY <1>1, <2>3, CeilIs
      <3> QED
        BY <3>1, <3>2
    <2> DEFINE x == m + Ceil(p, Scalar7)
    <2>5. next_ir_mod(c, util, m, elapsed) = Max({x, IrModMin})
      BY <1>3, MulAre DEF next_ir_mod, error
    <2>6. x \in Int /\ x <= m
      BY <1>1, <2>4
    <2> HIDE DEF x
    <2>7. Max({x, IrModMin}) \in {x, IrModMin} /\ Max({x, IrModMin}) >= IrModMin
      <3>1. x \in Int /\ IrModMin \in Int
        BY <1>1, <2>6
      <3> QED
        BY <3>1, MinOfTwo, Zenon
    <2>8. Max({x, IrModMin}) <= IrModMax /\ Max({x, IrModMin}) \in Int
      BY <1>1, <2>6, <2>7
    <2> QED
      BY <1>1, <2>5, <2>7, <2>8
  <1> QED
    BY <1>2, <1>3

\* The factor a debt grows by is one at least, and so the debt's rate never
\* falls.
LEMMA DebtGrows ==
  ASSUME NEW c \in Curves, NEW util \in Nat \ {0}, util <= Scalar7, NEW m \in Nat,
         NEW elapsed \in Nat, NEW rate \in Nat
  PROVE  LET grown == mul_ceil(loan_accrual(c, util, m, elapsed), rate, Scalar12)
         IN  grown \in Nat /\ grown >= rate
  <1> DEFINE apr == current_rate(c, util, m)
             t == (elapsed * Scalar12) \div Year
             more == mul_ceil(t, apr, Scalar7)
             loan == loan_accrual(c, util, m, elapsed)
             grown == mul_ceil(loan, rate, Scalar12)
  <1>1. Scalar7 \in Nat \ {0} /\ Scalar12 \in Nat \ {0} /\ Year \in Nat \ {0}
    BY UnitsAre, PoolMathAssumption
  <1>2. apr \in Nat
    BY RateIs
  <1>3. t \in Nat
    <2>1. elapsed * Scalar12 \in Nat
      BY <1>1, TimesType
    <2> QED
      BY <1>1, <2>1, CeilNat
  <1>4. loan = Scalar12 + more
    BY DEF loan_accrual
  <1> HIDE DEF apr, t
  <1>5. more \in Nat
    BY <1>1, <1>2, <1>3, MulNat
  <1> HIDE DEF more, loan
  <1>6. loan \in Nat /\ loan >= Scalar12
    BY <1>1, <1>4, <1>5
  <1>7. grown \in Nat
    BY <1>1, <1>6, MulNat
  <1>8. grown = Ceil(loan * rate, Scalar12)
    BY MulAre
  <1>9. /\ loan * rate \in Int /\ rate * Scalar12 \in Int
        /\ Scalar12 * rate <= loan * rate /\ Scalar12 * rate = rate * Scalar12
    BY <1>1, <1>6, TimesMonotone, TimesType
  <1>10. rate * Scalar12 < loan * rate + Scalar12
    BY <1>1, <1>9
  <1>11. rate <= Ceil(loan * rate, Scalar12)
    BY <1>1, <1>9, <1>10, CeilAtLeast
  <1> QED
    BY <1>7, <1>8, <1>11 DEF loan

LEMMA SameIsFair ==
  ASSUME NEW r \in Reserves, NEW s \in Reserves, NEW take,
         s.b_rate = r.b_rate, s.b_supply = r.b_supply, s.credit = r.credit,
         s.d_supply = r.d_supply, s.d_rate >= r.d_rate
  PROVE  AccruesFairly(r, s, take) /\ total_liabilities(s) >= total_liabilities(r)
  <1>1. /\ r.b_rate \in Nat /\ r.d_rate \in Nat /\ s.d_rate \in Nat /\ r.d_supply \in Nat
        /\ r.credit \in Nat /\ r.b_supply \in Nat /\ Scalar12 \in Nat \ {0}
        /\ s.ir_mod \in IrModMin..IrModMax /\ IrModMin \in Nat /\ IrModMax \in Nat
    BY ReserveFields, UnitsAre, CurveUnits
  <1>2. total_supply(s) = total_supply(r) /\ total_supply(r) \in Nat
    BY TotalsAre
  <1>3. total_liabilities(s) >= total_liabilities(r)
    <2>1. r.d_supply * r.d_rate \in Int /\ r.d_supply * s.d_rate \in Int
      BY <1>1, TimesType
    <2>2. r.d_supply * r.d_rate <= r.d_supply * s.d_rate
      BY <1>1, TimesMonotone
    <2>3. Ceil(r.d_supply * r.d_rate, Scalar12) <= Ceil(r.d_supply * s.d_rate, Scalar12)
      BY <1>1, <2>1, <2>2, CeilMonotone
    <2> QED
      BY <2>3, TotalsAre
  <1>4. total_liabilities(s) \in Nat /\ total_liabilities(r) \in Nat
    BY TotalsAre
  <1>5. (total_supply(s) + s.credit) - (total_supply(r) + r.credit)
          <= total_liabilities(s) - total_liabilities(r)
    BY <1>1, <1>2, <1>3, <1>4
  <1>6. s.b_rate >= r.b_rate /\ IrModMin <= s.ir_mod /\ s.ir_mod <= IrModMax
    BY <1>1
  <1> QED
    BY <1>3, <1>5, <1>6 DEF AccruesFairly

\* What suppliers are credited with is no more than what the debt grew by,
\* less the backstop's share; and where that share is not all of it, their
\* rate does not fall.
LEMMA SuppliersCredited ==
  ASSUME NEW supply \in Nat \ {0}, NEW rate \in Nat, NEW accrued \in Nat \ {0},
         NEW take \in 0..Scalar7
  PROVE  LET held == (supply * rate) \div Scalar12
             share == backstop_share(accrued, take)
             new == div_floor(held + accrued - share, supply, Scalar12)
         IN  /\ share \in Nat /\ share <= accrued /\ new \in Nat
             /\ (supply * new) \div Scalar12 <= held + accrued - share
             /\ take < Scalar7 => new >= rate
  <1> DEFINE p == supply * rate
             held == p \div Scalar12
             share == backstop_share(accrued, take)
             n == held + accrued - share
             new == div_floor(n, supply, Scalar12)
  <1>1. Scalar7 \in Nat \ {0} /\ Scalar12 \in Nat \ {0} /\ take \in Nat /\ take <= Scalar7
    BY UnitsAre
  <1>2. p \in Nat
    BY TimesType
  <1>3. held \in Nat /\ p < held * Scalar12 + Scalar12
    <2> HIDE DEF p
    <2> QED
      BY <1>1, <1>2, FloorIs, CeilNat
  <1>4. share = (accrued * take) \div Scalar7
    BY MulAre DEF backstop_share
  <1>5. /\ accrued * take \in Nat /\ accrued * take <= accrued * Scalar7
        /\ accrued * Scalar7 \in Int
    BY <1>1, TimesType
  <1>6. share \in Nat /\ share <= accrued
    <2>1. (accrued * take) \div Scalar7 \in Nat
      BY <1>1, <1>5, CeilNat
    <2>2. accrued * take < accrued * Scalar7 + Scalar7
      BY <1>1, <1>5
    <2>3. (accrued * take) \div Scalar7 <= accrued
      BY <1>1, <1>5, <2>2, FloorAtMost
    <2> QED
      BY <1>4, <2>1, <2>3
  <1>7. ASSUME take < Scalar7 PROVE share <= accrued - 1
    <2>1. accrued * take <= accrued * (Scalar7 - 1)
      BY <1>1, <1>7
    <2>2. accrued * (Scalar7 - 1) = accrued * Scalar7 - accrued
          /\ (accrued - 1) * Scalar7 = accrued * Scalar7 - Scalar7
      BY <1>1
    <2>3. accrued * take < (accrued - 1) * Scalar7 + Scalar7
      BY <1>1, <1>5, <2>1, <2>2
    <2> QED
      BY <1>1, <1>4, <1>5, <2>3, FloorAtMost
  <1> HIDE DEF share, held
  <1>8. n \in Nat
    BY <1>3, <1>6
  <1>9. new = (n * Scalar12) \div supply
    BY MulAre DEF div_floor
  <1> HIDE DEF n
  <1>10. n * Scalar12 \in Nat
    BY <1>1, <1>8, TimesType
  <1> HIDE DEF new
  <1>11. new \in Nat /\ new * supply <= n * Scalar12
    <2> DEFINE a == n * Scalar12
    <2>1. a \in Nat /\ new = a \div supply
      BY <1>9, <1>10
    <2> HIDE DEF a
    <2>2. a \div supply \in Nat
      BY <2>1, CeilNat
    <2>3. (a \div supply) * supply <= a
      BY <2>1, FloorIs
    <2> QED
      BY <2>1, <2>2, <2>3 DEF a
  <1>12. (supply * new) \div Scalar12 <= n
    <2>1. supply * new = new * supply /\ supply * new \in Int
      BY <1>11
    <2>2. supply * new < n * Scalar12 + Scalar12
      BY <1>1, <1>10, <1>11, <2>1
    <2> QED
      BY <1>1, <1>8, <2>1, <2>2, FloorAtMost
  <1>13. ASSUME take < Scalar7 PROVE new >= rate
    <2>1. n >= held + 1
      BY <1>3, <1>6, <1>7, <1>13 DEF n
    <2>2. (held + 1) * Scalar12 <= n * Scalar12 /\ (held + 1) * Scalar12 = held * Scalar12 + Scalar12
          /\ held * Scalar12 \in Int
      BY <1>1, <1>3, <1>8, <2>1, TimesMonotone
    <2>3. rate * supply <= n * Scalar12
      BY <1>1, <1>2, <1>3, <1>10, <2>2
    <2>4. rate <= new
      BY <1>9, <1>10, <2>3, FloorAtLeast
    <2> QED
      BY <2>4, <1>11
  <1> QED
    BY <1>6, <1>11, <1>12, <1>13 DEF n, new, held, share

LEMMA AccrualIsFair ==
  ASSUME NEW r \in Reserves, NEW take \in 0..Scalar7, NEW now \in Nat, r.last_time <= now
  PROVE  /\ accrue(r, take, now) \in Reserves
         /\ accrue(r, take, now).last_time = now
         /\ AccruesFairly(r, accrue(r, take, now), take)
  <1> DEFINE util == utilization(r)
             elapsed == now - r.last_time
             mod == next_ir_mod(r.config, util, r.ir_mod, elapsed)
             rate == mul_ceil(loan_accrual(r.config, util, r.ir_mod, elapsed), r.d_rate, Scalar12)
             grown == [r EXCEPT !.ir_mod = mod, !.d_rate = rate, !.last_time = now]
             accrued == total_liabilities(grown) - total_liabilities(r)
             share == backstop_share(accrued, take)
             new == div_floor(total_supply(r) + accrued - share, r.b_supply, Scalar12)
             credited == [grown EXCEPT !.credit = r.credit + share, !.b_rate = new]
             result == accrue(r, take, now)
  <1>1. /\ r.b_rate \in Nat /\ r.d_rate \in Nat \ {0} /\ r.b_supply \in Nat /\ r.d_supply \in Nat
        /\ r.credit \in Nat /\ r.last_time \in Nat /\ r.config \in Curves
        /\ r.ir_mod \in IrModMin..IrModMax /\ r.ir_mod \in Nat
    BY ReserveFields, CurveUnits
  <1>2. elapsed \in Nat /\ util \in Nat /\ util <= Scalar7
    BY <1>1, UtilizationIs
  <1>3. result = IF elapsed = 0 THEN r
                 ELSE IF r.b_supply = 0 \/ util = 0 THEN [r EXCEPT !.last_time = now]
                 ELSE IF accrued <= 0 THEN grown ELSE credited
    <2>1. grown.credit = r.credit
      BY DEF Reserves
    <2> QED
      BY <2>1 DEF accrue, Reserves
  <1> HIDE DEF result
  <1>4. CASE elapsed = 0
    <2>1. result = r /\ r.last_time = now
      BY <1>1, <1>3, <1>4
    <2> QED
      BY <1>1, <2>1, SameIsFair DEF result
  <1>5. CASE elapsed # 0 /\ (r.b_supply = 0 \/ util = 0)
    <2> DEFINE s == [r EXCEPT !.last_time = now]
    <2>1. s \in Reserves /\ s.last_time = now /\ s.b_rate = r.b_rate /\ s.b_supply = r.b_supply
          /\ s.credit = r.credit /\ s.d_supply = r.d_supply /\ s.d_rate = r.d_rate
      BY DEF Reserves
    <2>2. result = s
      BY <1>3, <1>5
    <2> HIDE DEF s
    <2> QED
      BY <1>1, <2>1, <2>2, SameIsFair DEF result
  <1>6. CASE elapsed # 0 /\ ~(r.b_supply = 0 \/ util = 0)
    <2>1. util \in Nat \ {0}
      BY <1>2, <1>6
    <2>2. rate \in Nat /\ rate >= r.d_rate
      BY <1>1, <1>2, <2>1, DebtGrows
    <2>3. mod \in IrModMin..IrModMax
      BY <1>1, <1>2, ModifierKept
    <2>4. rate \in Nat \ {0}
      BY <1>1, <2>2
    <2> HIDE DEF rate, mod
    <2>5. /\ grown \in Reserves /\ grown.last_time = now /\ grown.b_rate = r.b_rate
          /\ grown.b_supply = r.b_supply /\ grown.credit = r.credit /\ grown.ir_mod = mod
          /\ grown.d_supply = r.d_supply /\ grown.d_rate = rate
      BY <2>3, <2>4 DEF Reserves
    <2> HIDE DEF grown
    <2>6. AccruesFairly(r, grown, take) /\ total_liabilities(grown) >= total_liabilities(r)
      BY <2>2, <2>5, SameIsFair
    <2>7. total_liabilities(grown) \in Nat /\ total_liabilities(r) \in Nat
      BY <2>5, TotalsAre
    <2>8. accrued \in Nat
      BY <2>6, <2>7
    <2>9. CASE accrued <= 0
      <3>1. result = grown
        BY <1>3, <1>6, <2>9
      <3> QED
        BY <2>5, <2>6, <3>1 DEF result
    <2>10. CASE ~(accrued <= 0)
      <3>1. result = credited
        BY <1>3, <1>6, <2>10
      <3>2. accrued \in Nat \ {0} /\ r.b_supply \in Nat \ {0}
        BY <1>1, <1>6, <2>8, <2>10
      <3>3. total_supply(r) = (r.b_supply * r.b_rate) \div Scalar12 /\ total_supply(r) \in Nat
        BY TotalsAre
      <3> HIDE DEF accrued
      <3>4. /\ share \in Nat /\ share <= accrued /\ new \in Nat
            /\ (r.b_supply * new) \div Scalar12 <= total_supply(r) + accrued - share
            /\ take < Scalar7 => new >= r.b_rate
        BY <1>1, <3>2, <3>3, SuppliersCredited
      <3> HIDE DEF share, new
      <3>5. /\ credited \in Reserves /\ credited.last_time = now /\ credited.b_rate = new
            /\ credited.b_supply = r.b_supply /\ credited.credit = r.credit + share
            /\ credited.d_supply = r.d_supply /\ credited.d_rate = rate /\ credited.ir_mod = mod
        <4>1. r.credit + share \in Nat
          BY <1>1, <3>4
        <4> QED
          BY <2>5, <3>4, <4>1 DEF Reserves
      <3> HIDE DEF credited
      <3>6. total_liabilities(credited) = total_liabilities(grown)
        BY <2>5, <3>5, TotalsAre
      <3>7. total_supply(credited) = (r.b_supply * new) \div Scalar12 /\ total_supply(credited) \in Nat
        BY <3>5, TotalsAre
      <3>8. total_supply(credited) <= total_supply(r) + accrued - share
        BY <3>4, <3>7
      <3>9. (total_supply(credited) + credited.credit) - (total_supply(r) + r.credit)
              <= total_liabilities(credited) - total_liabilities(r)
        <4>1. total_liabilities(credited) - total_liabilities(r) = accrued
          BY <3>6 DEF accrued
        <4>2. (total_supply(credited) + (r.credit + share)) - (total_supply(r) + r.credit) <= accrued
          BY <1>1, <3>2, <3>3, <3>4, <3>7, <3>8
        <4> QED
          BY <3>5, <4>1, <4>2
      <3>10. credited.d_rate >= r.d_rate /\ (take < Scalar7 => credited.b_rate >= r.b_rate)
        BY <2>2, <3>4, <3>5
      <3>11. IrModMin <= credited.ir_mod /\ credited.ir_mod <= IrModMax
        BY <2>3, <3>5, CurveUnits
      <3>12. AccruesFairly(r, credited, take)
        BY <3>9, <3>10, <3>11 DEF AccruesFairly
      <3> QED
        BY <3>1, <3>5, <3>12 DEF result
    <2> QED
      BY <2>9, <2>10
  <1> QED
    BY <1>4, <1>5, <1>6

----------------------------------------------------------------------------
(* The delay that pays.                                                    *)

LEMMA LeastIs ==
  ASSUME NEW S, S \subseteq Int, NEW m \in S, \A x \in S : m <= x
  PROVE  Min(S) = m
  <1>1. \E x \in S : \A y \in S : x <= y
    OBVIOUS
  <1>2. Min(S) \in S /\ \A y \in S : Min(S) <= y
    BY <1>1 DEF Min
  <1>3. Min(S) <= m /\ m <= Min(S) /\ Min(S) \in Int /\ m \in Int
    BY <1>2
  <1> QED
    BY <1>3

\* The margin in blocks: the lot's ramp against the whole bid, then the whole
\* lot against the bid's.
LEMMA MarginIs ==
  ASSUME NEW lot \in Nat, NEW bid \in Nat, NEW bps \in Nat, NEW d \in 0..RampEnd
  PROVE  meets_margin(d, lot, bid, bps) <=>
           IF d <= RampBlocks
             THEN (bid * (Bps + bps)) * RampBlocks <= d * (lot * Bps)
             ELSE (RampEnd - d) * (bid * (Bps + bps)) <= (lot * Bps) * RampBlocks
  <1> DEFINE have == lot * Bps
             owe == bid * (Bps + bps)
  <1>1. Bps \in Nat \ {0} /\ Bps + bps \in Nat
    BY FillPlanAssumption
  <1>2. have \in Nat /\ owe \in Nat
    BY <1>1
  <1>3. d \in Nat /\ RampEnd \in Nat /\ RampBlocks \in Nat /\ d <= RampEnd
    BY UnitsAre
  <1>4. PerBlock \in Nat \ {0} /\ RampBlocks * PerBlock = Scalar7
    BY UnitsAre
  <1>5. lot_modifier(d) \in Nat /\ bid_modifier(d) \in Nat
    BY <1>3, ModifiersAre
  <1>6. lot * lot_modifier(d) * Bps = have * lot_modifier(d)
    BY <1>1, <1>5
  <1>7. bid * bid_modifier(d) * (Bps + bps) = owe * bid_modifier(d)
    BY <1>1, <1>5
  <1>8. meets_margin(d, lot, bid, bps) <=> owe * bid_modifier(d) <= have * lot_modifier(d)
    <2>1. meets_margin(d, lot, bid, bps) <=> have * lot_modifier(d) >= owe * bid_modifier(d)
      BY <1>6, <1>7 DEF meets_margin
    <2>2. have * lot_modifier(d) \in Int /\ owe * bid_modifier(d) \in Int
      BY <1>2, <1>5
    <2> QED
      BY <2>1, <2>2
  <1> HIDE DEF have, owe
  <1>9. CASE d <= RampBlocks
    <2>1. lot_modifier(d) = d * PerBlock /\ bid_modifier(d) = RampBlocks * PerBlock
      BY <1>3, <1>9, RampsAre
    <2>2. owe * (RampBlocks * PerBlock) = (owe * RampBlocks) * PerBlock
      BY <1>2, <1>3, <1>4
    <2>3. have * (d * PerBlock) = (d * have) * PerBlock
      BY <1>2, <1>3, <1>4
    <2>4. owe * RampBlocks \in Int /\ d * have \in Int
      BY <1>2, <1>3
    <2>5. (owe * RampBlocks) * PerBlock <= (d * have) * PerBlock <=> owe * RampBlocks <= d * have
      BY <1>4, <2>4, TimesStrict
    <2> QED
      BY <1>8, <1>9, <2>1, <2>2, <2>3, <2>5 DEF have, owe
  <1>10. CASE ~(d <= RampBlocks)
    <2> DEFINE left == RampEnd - d
    <2>1. left \in Nat
      BY <1>3
    <2>2. lot_modifier(d) = RampBlocks * PerBlock /\ bid_modifier(d) = left * PerBlock
      BY <1>3, <1>10, RampsAre
    <2> HIDE DEF left
    <2>3. owe * (left * PerBlock) = (left * owe) * PerBlock
      BY <1>2, <2>1, <1>4
    <2>4. have * (RampBlocks * PerBlock) = (have * RampBlocks) * PerBlock
      BY <1>2, <1>3, <1>4
    <2>5. left * owe \in Int /\ have * RampBlocks \in Int
      BY <1>2, <1>3, <2>1
    <2>6. (left * owe) * PerBlock <= (have * RampBlocks) * PerBlock
            <=> left * owe <= have * RampBlocks
      BY <1>4, <2>5, TimesStrict
    <2> QED
      BY <1>8, <1>10, <2>2, <2>3, <2>4, <2>6 DEF have, owe, left
  <1> QED
    BY <1>9, <1>10

\* fill_delay is the first block at which the ramps leave the margin, for
\* every lot, bid and margin (math/fill.rs, fill_delay against meets_margin).
LEMMA DelayIsTheLeast ==
  ASSUME NEW lot \in Nat, NEW bid \in Nat, NEW bps \in Nat
  PROVE  FillDelayIsLeast(lot, bid, bps)
  <1> DEFINE have == lot * Bps
             owe == bid * (Bps + bps)
             enough == {d \in 0..RampEnd : meets_margin(d, lot, bid, bps)}
             delay == fill_delay(lot, bid, bps, FALSE)
  <1>1. Bps \in Nat \ {0} /\ Bps + bps \in Nat \ {0}
    BY FillPlanAssumption
  <1>2. have \in Nat /\ owe \in Nat
    BY <1>1
  <1>3. RampBlocks \in Nat \ {0} /\ RampEnd \in Nat /\ RampEnd = RampBlocks + RampBlocks
    BY UnitsAre
  <1>4. \A d \in 0..RampEnd : d \in enough <=>
           IF d <= RampBlocks THEN owe * RampBlocks <= d * have
                              ELSE (RampEnd - d) * owe <= have * RampBlocks
    BY MarginIs
  <1>5. delay = IF bid = 0 THEN 0
                ELSE IF lot = 0 THEN RampEnd
                ELSE IF have >= owe THEN Ceil(owe * RampBlocks, have)
                ELSE RampEnd - ((have * RampBlocks) \div owe)
    <2>1. bid * (RampBlocks * (Bps + bps)) = owe * RampBlocks
      BY <1>1, <1>3
    <2>2. lot * (RampBlocks * Bps) = have * RampBlocks
      BY <1>1, <1>3
    <2> QED
      BY <2>1, <2>2, MulAre DEF fill_delay
  <1>6. bid # 0 => owe \in Nat \ {0}
    BY <1>1
  <1>7. lot # 0 => have \in Nat \ {0}
    BY <1>1
  <1>8. bid = 0 => owe = 0
    BY <1>1
  <1>9. lot = 0 => have = 0
    BY <1>1
  <1>10. enough \subseteq 0..RampEnd /\ enough \subseteq Int
    OBVIOUS
  <1>11. FillDelayIsLeast(lot, bid, bps) <=> delay = Min(enough)
    BY DEF FillDelayIsLeast
  <1> HIDE DEF have, owe, enough, delay
  <1> SUFFICES delay \in enough /\ \A d \in enough : delay <= d
    BY <1>10, <1>11, LeastIs
  <1>12. have * RampBlocks \in Nat /\ owe * RampBlocks \in Nat
    BY <1>2, <1>3
  <1>13. CASE bid = 0
    <2>1. delay = 0 /\ 0 \in 0..RampEnd /\ 0 <= RampBlocks
      BY <1>3, <1>5, <1>13
    <2>2. owe * RampBlocks = 0 /\ 0 * have = 0
      BY <1>2, <1>3, <1>8, <1>13
    <2>3. 0 \in enough
      BY <1>4, <2>1, <2>2
    <2> QED
      BY <1>10, <2>1, <2>3
  <1>14. CASE bid # 0 /\ lot = 0
    <2>1. delay = RampEnd /\ RampEnd \in 0..RampEnd /\ ~(RampEnd <= RampBlocks)
      BY <1>3, <1>5, <1>14
    <2>2. have = 0 /\ owe \in Nat \ {0}
      BY <1>6, <1>9, <1>14
    <2>3. (RampEnd - RampEnd) * owe = 0 /\ have * RampBlocks = 0
      BY <1>3, <2>2
    <2>4. RampEnd \in enough
      BY <1>4, <2>1, <2>3
    <2>5. ASSUME NEW d \in enough PROVE RampEnd <= d
      <3>1. d \in 0..RampEnd /\ d \in Nat
        BY <1>10, <1>3
      <3>2. ~(d <= RampBlocks)
        <4> SUFFICES ASSUME d <= RampBlocks PROVE FALSE
          OBVIOUS
        <4>1. owe * RampBlocks <= d * have
          BY <1>4, <3>1
        <4>2. d * have = 0
          BY <2>2, <3>1
        <4>3. owe * RampBlocks > 0
          BY <1>3, <2>2
        <4> QED
          BY <1>12, <4>1, <4>2, <4>3
      <3>3. (RampEnd - d) * owe <= 0 * owe
        <4>1. (RampEnd - d) * owe <= 0
          BY <1>4, <2>3, <3>1, <3>2
        <4> QED
          BY <2>2, <4>1
      <3>4. RampEnd - d <= 0
        BY <1>3, <2>2, <3>1, <3>3, TimesStrict
      <3> QED
        BY <1>3, <3>1, <3>4
    <2> QED
      BY <2>1, <2>4, <2>5
  <1>15. CASE bid # 0 /\ lot # 0 /\ have >= owe
    <2>1. have \in Nat \ {0} /\ owe \in Nat \ {0}
      BY <1>6, <1>7, <1>15
    <2> DEFINE c == Ceil(owe * RampBlocks, have)
    <2>2. delay = c
      BY <1>5, <1>15
    <2>3. c \in Int /\ owe * RampBlocks <= c * have
      BY <1>12, <2>1, CeilIs
    <2>4. owe * RampBlocks <= RampBlocks * have
      BY <1>3, <1>15, <2>1
    <2>5. c <= RampBlocks
      BY <1>3, <1>12, <2>1, <2>4, CeilAtMost
    <2>6. 0 <= c
      <3>1. 0 * have < owe * RampBlocks + have
        BY <1>12, <2>1
      <3> QED
        BY <1>12, <2>1, <3>1, CeilAtLeast
    <2>7. \A d \in Int : owe * RampBlocks <= d * have => c <= d
      BY <1>12, <2>1, CeilAtMost
    <2> HIDE DEF c
    <2>8. c \in 0..RampEnd
      BY <1>3, <2>3, <2>5, <2>6
    <2>9. c \in enough
      BY <1>4, <2>3, <2>5, <2>8
    <2>10. ASSUME NEW d \in enough PROVE c <= d
      <3>1. d \in 0..RampEnd /\ d \in Int
        BY <1>10
      <3>2. CASE d <= RampBlocks
        BY <1>4, <2>7, <3>1, <3>2
      <3>3. CASE ~(d <= RampBlocks)
        BY <1>3, <2>3, <2>5, <3>1, <3>3
      <3> QED
        BY <3>2, <3>3
    <2> QED
      BY <2>2, <2>9, <2>10
  <1>16. CASE bid # 0 /\ lot # 0 /\ ~(have >= owe)
    <2>1. have \in Nat \ {0} /\ owe \in Nat \ {0} /\ have < owe
      BY <1>6, <1>7, <1>16
    <2> DEFINE q == (have * RampBlocks) \div owe
    <2>2. delay = RampEnd - q
      BY <1>5, <1>16
    <2>3. q \in Int /\ q * owe <= have * RampBlocks
      BY <1>12, <2>1, FloorIs
    <2>4. 0 <= q
      <3>1. 0 * owe <= have * RampBlocks
        BY <1>12, <2>1
      <3> QED
        BY <1>12, <2>1, <3>1, FloorAtLeast
    <2>5. \A m \in Int : m * owe <= have * RampBlocks => m <= q
      BY <1>12, <2>1, FloorAtLeast
    <2> HIDE DEF q
    <2>6. have * RampBlocks < owe * RampBlocks
      BY <1>3, <2>1
    <2>7. q < RampBlocks
      <3> SUFFICES ASSUME RampBlocks <= q PROVE FALSE
        BY <1>3, <2>3
      <3>1. RampBlocks * owe <= q * owe
        BY <1>3, <2>1, <2>3, TimesMonotone
      <3>2. RampBlocks * owe = owe * RampBlocks /\ q * owe \in Int
        BY <1>3, <2>1, <2>3
      <3> QED
        BY <1>12, <2>3, <2>6, <3>1, <3>2
    <2>8. RampEnd - q \in 0..RampEnd /\ ~(RampEnd - q <= RampBlocks) /\ RampEnd - (RampEnd - q) = q
      BY <1>3, <2>3, <2>4, <2>7
    <2>9. RampEnd - q \in enough
      BY <1>4, <2>3, <2>8
    <2>10. ASSUME NEW d \in enough PROVE RampEnd - q <= d
      <3>1. d \in 0..RampEnd /\ d \in Nat
        BY <1>10, <1>3
      <3>2. ~(d <= RampBlocks)
        <4> SUFFICES ASSUME d <= RampBlocks PROVE FALSE
          OBVIOUS
        <4>1. owe * RampBlocks <= d * have
          BY <1>4, <3>1
        <4>2. d * have <= RampBlocks * have
          BY <1>3, <2>1, <3>1, TimesMonotone
        <4>3. RampBlocks * have = have * RampBlocks /\ d * have \in Int
          BY <1>3, <2>1, <3>1
        <4> QED
          BY <1>12, <2>6, <4>1, <4>2, <4>3
      <3>3. RampEnd - d \in Int /\ (RampEnd - d) * owe <= have * RampBlocks
        BY <1>3, <1>4, <3>1, <3>2
      <3>4. RampEnd - d <= q
        BY <2>5, <3>3
      <3> QED
        BY <1>3, <2>3, <3>1, <3>4
    <2> QED
      BY <2>2, <2>9, <2>10
  <1> QED
    BY <1>13, <1>14, <1>15, <1>16

----------------------------------------------------------------------------
(* The search for headroom.                                                *)

LEMMA LeastOf ==
  ASSUME NEW T \in SUBSET Nat, T # {}
  PROVE  \E x \in T : \A y \in T : x <= y
  <1> DEFINE R == OpToRel(<, Nat)
  <1>1. IsWellFoundedOn(R, Nat)
    BY NatLessThanWellFounded
  <1>2. \A x, y \in Nat : y < x => <<y, x>> \in R
    BY DEF OpToRel
  <1> HIDE DEF R
  <1>3. PICK x \in T : \A y \in T : ~(<<y, x>> \in R)
    BY <1>1, WFMin
  <1>4. ASSUME NEW y \in T PROVE x <= y
    <2>1. x \in Nat /\ y \in Nat
      OBVIOUS
    <2>2. ~(y < x)
      BY <1>2, <1>3, <2>1, Zenon
    <2> QED
      BY <2>1, <2>2
  <1> QED
    BY <1>4

LEMMA GreatestOf ==
  ASSUME NEW n \in Nat, NEW T \in SUBSET (0..n), T # {}
  PROVE  \E x \in T : \A y \in T : y <= x
  <1> DEFINE S == {n - x : x \in T}
  <1>1. S \in SUBSET Nat /\ S # {}
    <2>1. \A x \in T : x \in 0..n
      OBVIOUS
    <2>2. \A x \in T : n - x \in Nat
      BY <2>1
    <2> QED
      BY <2>2
  <1>2. PICK s \in S : \A t \in S : s <= t
    BY <1>1, LeastOf
  <1>3. PICK x \in T : s = n - x
    OBVIOUS
  <1>4. ASSUME NEW y \in T PROVE y <= x
    <2>1. n - y \in S
      OBVIOUS
    <2>2. n - x <= n - y
      BY <1>2, <1>3, <2>1
    <2>3. x \in Int /\ y \in Int
      OBVIOUS
    <2> QED
      BY <2>2, <2>3
  <1> QED
    BY <1>4

\* A smaller supply fits wherever a larger one does.
LEMMA FitsBelow ==
  ASSUME NEW r \in Reserves, r.b_rate # 0, NEW a \in Nat, NEW b \in Nat, a <= b, FitsCap(r, b)
  PROVE  FitsCap(r, a)
  <1>1. r.b_rate \in Nat \ {0} /\ r.b_supply \in Nat /\ r.supply_cap \in Nat /\ Scalar12 \in Nat \ {0}
    BY ReserveFields, UnitsAre DEF Reserves
  <1> DEFINE few == (a * Scalar12) \div r.b_rate
             many == (b * Scalar12) \div r.b_rate
  <1>2. a * Scalar12 \in Int /\ b * Scalar12 \in Int /\ a * Scalar12 <= b * Scalar12
    BY <1>1, TimesMonotone
  <1>3. few \in Int /\ many \in Int /\ few <= many
    BY <1>1, <1>2, FloorIs, FloorMonotone
  <1>4. to_b_token_down(r, a) = few /\ to_b_token_down(r, b) = many
    BY DEF to_b_token_down, div_floor, mul_floor
  <1> HIDE DEF few, many
  <1> DEFINE less == (r.b_supply + few) * r.b_rate
             more == (r.b_supply + many) * r.b_rate
  <1>5. less \in Int /\ more \in Int /\ less <= more
    <2>1. r.b_supply + few \in Int /\ r.b_supply + many \in Int /\ r.b_supply + few <= r.b_supply + many
      BY <1>1, <1>3
    <2> QED
      BY <1>1, <2>1, TimesMonotone
  <1>6. /\ FitsCap(r, a) <=> less \div Scalar12 <= r.supply_cap
        /\ FitsCap(r, b) <=> more \div Scalar12 <= r.supply_cap
    BY <1>4 DEF FitsCap, to_asset_from_b_token, mul_floor
  <1> HIDE DEF less, more
  <1>7. less \div Scalar12 \in Int /\ more \div Scalar12 \in Int /\ less \div Scalar12 <= more \div Scalar12
    BY <1>1, <1>5, FloorIs, FloorMonotone
  <1> QED
    BY <1>1, <1>6, <1>7

LEMMA MidpointIs ==
  ASSUME NEW low \in Nat, NEW high \in Nat, low < high
  PROVE  midpoint(low, high) \in Nat /\ low < midpoint(low, high) /\ midpoint(low, high) <= high
  BY DEF midpoint

\* The largest of a range that fits, or its lower end.
Best(r, low, high) ==
  IF low >= high THEN low
  ELSE CHOOSE m \in low..high : /\ m = low \/ FitsCap(r, m)
                                /\ \A n \in (m + 1)..high : ~FitsCap(r, n)

IsBest(r, low, high, m) ==
  m \in low..high /\ (m = low \/ FitsCap(r, m)) /\ \A n \in (m + 1)..high : ~FitsCap(r, n)

LEMMA BestIs ==
  ASSUME NEW r, NEW low \in Nat, NEW high \in Nat, low <= high
  PROVE  IsBest(r, low, high, Best(r, low, high))
  <1>1. CASE low >= high
    BY <1>1 DEF Best, IsBest
  <1>2. CASE ~(low >= high)
    <2> DEFINE T == {m \in low..high : m = low \/ FitsCap(r, m)}
    <2>1. T \in SUBSET (0..high) /\ T # {}
      OBVIOUS
    <2>2. PICK x \in T : \A y \in T : y <= x
      BY <2>1, GreatestOf
    <2>3. \A n \in (x + 1)..high : ~FitsCap(r, n)
      <3> SUFFICES ASSUME NEW n \in (x + 1)..high, FitsCap(r, n) PROVE FALSE
        OBVIOUS
      <3>1. n \in T
        BY <2>1
      <3> QED
        BY <2>2, <3>1
    <2>4. \E m \in low..high : /\ m = low \/ FitsCap(r, m)
                               /\ \A n \in (m + 1)..high : ~FitsCap(r, n)
      BY <2>3
    <2> QED
      BY <1>2, <2>4 DEF Best, IsBest
  <1> QED
    BY <1>1, <1>2

\* There is one best.
LEMMA OneBest ==
  ASSUME NEW r, NEW low \in Nat, NEW high \in Nat, NEW m, NEW n,
         IsBest(r, low, high, m), IsBest(r, low, high, n)
  PROVE  m = n
  <1>1. m \in Nat /\ n \in Nat /\ low <= m /\ low <= n /\ m <= high /\ n <= high
    BY DEF IsBest
  <1>2. ~(m < n)
    BY <1>1 DEF IsBest
  <1>3. ~(n < m)
    BY <1>1 DEF IsBest
  <1> QED
    BY <1>1, <1>2, <1>3

\* The half that is searched holds the best of the whole.
LEMMA Halves ==
  ASSUME NEW r \in Reserves, r.b_rate # 0, NEW low \in Nat, NEW high \in Nat, low < high, NEW m,
         LET mid == midpoint(low, high)
         IN  IF FitsCap(r, mid) THEN IsBest(r, mid, high, m) ELSE IsBest(r, low, mid - 1, m)
  PROVE  IsBest(r, low, high, m)
  <1> DEFINE mid == midpoint(low, high)
  <1>1. mid \in Nat /\ low < mid /\ mid <= high
    BY MidpointIs
  <1>2. IF FitsCap(r, mid) THEN IsBest(r, mid, high, m) ELSE IsBest(r, low, mid - 1, m)
    OBVIOUS
  <1> HIDE DEF mid
  <1>3. CASE FitsCap(r, mid)
    BY <1>1, <1>2, <1>3 DEF IsBest
  <1>4. CASE ~FitsCap(r, mid)
    <2>1. m \in low..(mid - 1) /\ (m = low \/ FitsCap(r, m))
          /\ \A n \in (m + 1)..(mid - 1) : ~FitsCap(r, n)
      BY <1>2, <1>4 DEF IsBest
    <2>2. ASSUME NEW n \in (m + 1)..high PROVE ~FitsCap(r, n)
      <3>1. n \in Nat
        BY <2>1
      <3>2. CASE n <= mid - 1
        BY <1>1, <2>1, <3>1, <3>2
      <3>3. CASE ~(n <= mid - 1)
        <4>1. mid <= n
          BY <1>1, <3>1, <3>3
        <4> QED
          BY <1>1, <1>4, <3>1, <4>1, FitsBelow
      <3> QED
        BY <3>2, <3>3
    <2>3. m \in low..high
      BY <1>1, <2>1
    <2> QED
      BY <2>1, <2>2, <2>3 DEF IsBest
  <1> QED
    BY <1>3, <1>4

\* One turn of the search.
Turn(r, search, low, high) ==
  LET mid == midpoint(low, high)
  IN  IF low >= high THEN low
      ELSE IF FitsCap(r, mid) THEN (IF mid = low THEN low ELSE search[<<mid, high>>])
      ELSE search[<<low, mid - 1>>]

Searches(r, wanted, search) ==
  search = [range \in (0..wanted) \X (0..wanted) |-> Turn(r, search, range[1], range[2])]

LEMMA SearchExists ==
  ASSUME NEW r \in Reserves, r.b_rate # 0, NEW wanted \in Nat
  PROVE  \E search : Searches(r, wanted, search)
  <1> DEFINE D == (0..wanted) \X (0..wanted)
             best == [range \in D |-> Best(r, range[1], range[2])]
  <1>1. \A low, high \in 0..wanted : best[<<low, high>>] = Best(r, low, high)
    OBVIOUS
  <1>2. ASSUME NEW range \in D PROVE best[range] = Turn(r, best, range[1], range[2])
    <2>1. PICK low \in 0..wanted, high \in 0..wanted : range = <<low, high>>
      OBVIOUS
    <2>2. range[1] = low /\ range[2] = high /\ low \in Nat /\ high \in Nat /\ high <= wanted
      BY <2>1
    <2>3. best[range] = Best(r, low, high)
      BY <1>1, <2>1
    <2> HIDE DEF best
    <2>4. CASE low >= high
      BY <2>2, <2>3, <2>4 DEF Turn, Best
    <2>5. CASE ~(low >= high)
      <3> DEFINE mid == midpoint(low, high)
      <3>1. mid \in Nat /\ low < mid /\ mid <= high
        BY <2>2, <2>5, MidpointIs
      <3>2. Turn(r, best, low, high) =
              IF FitsCap(r, mid) THEN best[<<mid, high>>] ELSE best[<<low, mid - 1>>]
        BY <2>2, <2>5, <3>1 DEF Turn
      <3>3. IF FitsCap(r, mid) THEN IsBest(r, mid, high, best[<<mid, high>>])
                               ELSE IsBest(r, low, mid - 1, best[<<low, mid - 1>>])
        <4> HIDE DEF mid
        <4>1. mid \in 0..wanted /\ mid - 1 \in 0..wanted /\ mid - 1 \in Nat /\ low <= mid - 1
          BY <2>2, <3>1
        <4>2. best[<<mid, high>>] = Best(r, mid, high) /\ best[<<low, mid - 1>>] = Best(r, low, mid - 1)
          BY <1>1, <4>1
        <4> QED
          BY <2>2, <3>1, <4>1, <4>2, BestIs
      <3>4. IsBest(r, low, high, Turn(r, best, low, high))
        <4>1. CASE FitsCap(r, mid)
          BY <2>2, <2>5, <3>2, <3>3, <4>1, Halves
        <4>2. CASE ~FitsCap(r, mid)
          BY <2>2, <2>5, <3>2, <3>3, <4>2, Halves
        <4> QED
          BY <4>1, <4>2
      <3>5. IsBest(r, low, high, Best(r, low, high))
        BY <2>2, <2>5, BestIs
      <3> QED
        BY <2>2, <2>3, <3>4, <3>5, OneBest
    <2> QED
      BY <2>4, <2>5
  <1>3. best = [range \in D |-> Turn(r, best, range[1], range[2])]
    BY <1>2
  <1> HIDE DEF best
  <1> QED
    BY <1>3 DEF Searches

\* Whatever the range, the search ends at its best: the shortest range on
\* which it did not would halve to a shorter one.
LEMMA SearchIsBest ==
  ASSUME NEW r \in Reserves, r.b_rate # 0, NEW wanted \in Nat, NEW search, Searches(r, wanted, search),
         NEW low \in 0..wanted, NEW high \in 0..wanted, low <= high
  PROVE  IsBest(r, low, high, search[<<low, high>>])
  <1> DEFINE Fails(n) == \E l, h \in 0..wanted :
                 l <= h /\ h - l = n /\ ~IsBest(r, l, h, search[<<l, h>>])
             T == {n \in Nat : Fails(n)}
  <1>1. \A l, h \in 0..wanted : search[<<l, h>>] = Turn(r, search, l, h)
    BY DEF Searches
  <1>2. T = {}
    <2> SUFFICES ASSUME T # {} PROVE FALSE
      OBVIOUS
    <2>1. PICK n \in T : \A k \in T : n <= k
      <3>1. T \in SUBSET Nat
        OBVIOUS
      <3> HIDE DEF T
      <3> QED
        BY <3>1, LeastOf
    <2>2. PICK l \in 0..wanted, h \in 0..wanted :
             l <= h /\ h - l = n /\ ~IsBest(r, l, h, search[<<l, h>>])
      OBVIOUS
    <2>3. l \in Nat /\ h \in Nat /\ h <= wanted /\ n \in Nat
      OBVIOUS
    <2>4. \A a, b \in 0..wanted : a <= b /\ b - a < n => IsBest(r, a, b, search[<<a, b>>])
      <3> SUFFICES ASSUME NEW a \in 0..wanted, NEW b \in 0..wanted, a <= b, b - a < n,
                          ~IsBest(r, a, b, search[<<a, b>>])
                   PROVE  FALSE
        OBVIOUS
      <3>1. b - a \in Nat
        OBVIOUS
      <3>2. Fails(b - a)
        OBVIOUS
      <3>3. n <= b - a
        BY <2>1, <3>1, <3>2
      <3> QED
        BY <2>3, <3>1, <3>3
    <2>5. CASE l >= h
      <3>1. search[<<l, h>>] = l
        BY <1>1, <2>5 DEF Turn
      <3> QED
        BY <2>2, <2>3, <2>5, <3>1 DEF IsBest
    <2>6. CASE ~(l >= h)
      <3> DEFINE mid == midpoint(l, h)
      <3>1. mid \in Nat /\ l < mid /\ mid <= h
        BY <2>3, <2>6, MidpointIs
      <3>2. search[<<l, h>>] =
              IF FitsCap(r, mid) THEN search[<<mid, h>>] ELSE search[<<l, mid - 1>>]
        BY <1>1, <2>3, <2>6, <3>1 DEF Turn
      <3>3. IsBest(r, mid, h, search[<<mid, h>>]) /\ IsBest(r, l, mid - 1, search[<<l, mid - 1>>])
        <4> HIDE DEF mid
        <4>1. mid \in 0..wanted /\ mid - 1 \in 0..wanted /\ l <= mid - 1
          BY <2>3, <3>1
        <4>2. h - mid < n /\ (mid - 1) - l < n
          BY <2>2, <2>3, <3>1
        <4> QED
          BY <2>4, <3>1, <4>1, <4>2
      <3>4. IsBest(r, l, h, search[<<l, h>>])
        <4>1. CASE FitsCap(r, mid)
          BY <2>3, <2>6, <3>2, <3>3, <4>1, Halves
        <4>2. CASE ~FitsCap(r, mid)
          BY <2>3, <2>6, <3>2, <3>3, <4>2, Halves
        <4> QED
          BY <4>1, <4>2
      <3> QED
        BY <2>2, <3>4
    <2> QED
      BY <2>5, <2>6
  <1>3. high - low \in Nat
    OBVIOUS
  <1>4. ~Fails(high - low)
    BY <1>2, <1>3
  <1> QED
    BY <1>4

\* supply_headroom ends at the most the cap has room for, whatever is wanted
\* (math/fill.rs, supply_headroom).
LEMMA HeadroomIsTheMost ==
  ASSUME NEW r \in Reserves, r.b_rate # 0, NEW wanted \in Nat
  PROVE  HeadroomIsMost(r, wanted)
  <1> DEFINE search == CHOOSE s : Searches(r, wanted, s)
             room == supply_headroom(r, wanted)
  <1>1. room = IF wanted <= 0 THEN 0
               ELSE IF FitsCap(r, wanted) THEN wanted
               ELSE search[<<0, wanted>>]
    BY DEF supply_headroom, Searches, Turn
  <1>2. Searches(r, wanted, search)
    BY SearchExists
  <1> HIDE DEF search
  <1>3. IsBest(r, 0, wanted, search[<<0, wanted>>])
    BY <1>2, SearchIsBest
  <1>4. CASE wanted <= 0
    <2>1. room = 0 /\ wanted = 0
      BY <1>1, <1>4
    <2> QED
      BY <2>1 DEF HeadroomIsMost
  <1>5. CASE ~(wanted <= 0) /\ FitsCap(r, wanted)
    <2>1. room = wanted
      BY <1>1, <1>5
    <2> QED
      BY <1>5, <2>1 DEF HeadroomIsMost
  <1>6. CASE ~(wanted <= 0) /\ ~FitsCap(r, wanted)
    <2>1. room = search[<<0, wanted>>]
      BY <1>1, <1>6
    <2>2. IsBest(r, 0, wanted, room)
      BY <1>3, <2>1
    <2> HIDE DEF room
    <2>3. /\ room \in 0..wanted /\ (FitsCap(r, 0) => FitsCap(r, room))
          /\ \A more \in (room + 1)..wanted : ~FitsCap(r, more)
      BY <2>2 DEF IsBest
    <2> QED
      BY <2>3 DEF HeadroomIsMost, room
  <1> QED
    BY <1>4, <1>5, <1>6

----------------------------------------------------------------------------
(* Decimal text.                                                           *)

Digits == Seq(0..9)

LEMMA Power ==
  ASSUME NEW n \in 0..Places
  PROVE  /\ 10^n \in Int /\ 10^0 = 1 /\ n \in Nat /\ Places \in Nat
         /\ 10^(n + 1) = 10 * 10^n
  <1>1. Places \in Nat /\ 10^(n + 1) = 10 * 10^n
    BY ConfigurationAssumption
  <1>2. 10^n \in Int
    OBVIOUS
  <1>3. 10^0 = 1
    OBVIOUS
  <1> QED
    BY <1>1, <1>2, <1>3

LEMMA PowersAdd ==
  ASSUME NEW m \in Nat, NEW n \in Nat, m + n = Places
  PROVE  10^m * 10^n = 10^Places
  <1> DEFINE Fails(k) == k <= m /\ 10^k * 10^n # 10^(k + n)
             T == {k \in Nat : Fails(k)}
  <1>1. T = {}
    <2> SUFFICES ASSUME T # {} PROVE FALSE
      OBVIOUS
    <2>1. PICK k \in T : \A j \in T : k <= j
      <3>1. T \in SUBSET Nat
        OBVIOUS
      <3> HIDE DEF T
      <3> QED
        BY <3>1, LeastOf
    <2>2. k \in Nat /\ k <= m /\ 10^k * 10^n # 10^(k + n)
      OBVIOUS
    <2>3. CASE k = 0
      <3>1. k + n = n /\ n \in 0..Places
        BY <2>3
      <3>2. 10^k = 1 /\ 10^n \in Int
        BY <2>3, <3>1, Power
      <3>3. 10^(k + n) = 10^n
        BY <3>1
      <3> QED
        BY <2>2, <3>2, <3>3
    <2>4. CASE k # 0
      <3> DEFINE j == k - 1
      <3>1. j \in 0..Places /\ j + n \in 0..Places /\ n \in 0..Places /\ j \in Nat /\ j <= m
            /\ k = j + 1 /\ k + n = (j + n) + 1
        BY <2>2, <2>4
      <3>2. ~(k <= j)
        BY <2>2, <3>1
      <3> HIDE DEF j
      <3>3. 10^j * 10^n = 10^(j + n)
        BY <2>1, <3>1, <3>2
      <3>4. 10^(j + 1) = 10 * 10^j /\ 10^((j + n) + 1) = 10 * 10^(j + n)
            /\ 10^j \in Int /\ 10^n \in Int /\ 10^(j + n) \in Int
        BY <3>1, Power
      <3>5. (10 * 10^j) * 10^n = 10 * (10^j * 10^n)
        BY <3>4
      <3>6. 10^k = 10^(j + 1) /\ 10^(k + n) = 10^((j + n) + 1)
        BY <3>1
      <3> QED
        BY <2>2, <3>3, <3>4, <3>5, <3>6
    <2> QED
      BY <2>3, <2>4
  <1>2. ~Fails(m)
    BY <1>1
  <1> QED
    BY <1>2

\* The values of the first digits of a text.
Reads(digits, n, value) ==
  value = [k \in 0..n |-> IF k = 0 THEN 0 ELSE 10 * value[k - 1] + digits[k]]

LEMMA ReadingExists ==
  ASSUME NEW digits, NEW n \in Nat
  PROVE  \E value : Reads(digits, n, value)
  <1> DEFINE T == {k \in Nat : ~\E value : Reads(digits, k, value)}
  <1>1. T = {}
    <2> SUFFICES ASSUME T # {} PROVE FALSE
      OBVIOUS
    <2>1. PICK k \in T : \A j \in T : k <= j
      <3>1. T \in SUBSET Nat
        OBVIOUS
      <3> HIDE DEF T
      <3> QED
        BY <3>1, LeastOf
    <2>2. CASE k = 0
      <3> DEFINE value == [j \in 0..0 |-> 0]
      <3>1. value = [j \in 0..0 |-> IF j = 0 THEN 0 ELSE 10 * value[j - 1] + digits[j]]
        OBVIOUS
      <3> HIDE DEF value
      <3>2. Reads(digits, 0, value)
        BY <3>1 DEF Reads
      <3> QED
        BY <2>2, <3>2
    <2>3. CASE k # 0
      <3>1. k \in Nat /\ k - 1 \in Nat /\ ~(k <= k - 1)
        BY <2>3
      <3>2. PICK old : Reads(digits, k - 1, old)
        BY <2>1, <3>1
      <3>3. \A i \in 0..(k - 1) : old[i] = IF i = 0 THEN 0 ELSE 10 * old[i - 1] + digits[i]
        BY <3>2 DEF Reads
      <3> DEFINE value == [i \in 0..k |-> IF i <= k - 1 THEN old[i] ELSE 10 * old[k - 1] + digits[k]]
      <3>4. ASSUME NEW i \in 0..k
            PROVE  value[i] = IF i = 0 THEN 0 ELSE 10 * value[i - 1] + digits[i]
        <4>1. i \in Nat /\ i <= k
          BY <3>1
        <4>2. CASE i = 0
          <5>1. value[0] = old[0]
            BY <3>1
          <5> QED
            BY <3>1, <3>3, <4>2, <5>1
        <4>3. CASE i # 0 /\ i <= k - 1
          <5>1. i - 1 \in 0..k /\ i - 1 <= k - 1 /\ i \in 0..(k - 1)
            BY <3>1, <4>1, <4>3
          <5>2. value[i] = old[i] /\ value[i - 1] = old[i - 1]
            BY <4>3, <5>1
          <5> QED
            BY <3>3, <4>3, <5>1, <5>2
        <4>4. CASE i # 0 /\ ~(i <= k - 1)
          <5>1. i = k /\ k - 1 \in 0..k /\ k - 1 <= k - 1
            BY <3>1, <4>1, <4>4
          <5>2. value[i] = 10 * old[k - 1] + digits[k] /\ value[k - 1] = old[k - 1]
            BY <4>4, <5>1
          <5> QED
            BY <4>4, <5>1, <5>2
        <4> QED
          BY <4>2, <4>3, <4>4
      <3>5. value = [i \in 0..k |-> IF i = 0 THEN 0 ELSE 10 * value[i - 1] + digits[i]]
        BY <3>4
      <3> HIDE DEF value
      <3>6. Reads(digits, k, value)
        BY <3>5 DEF Reads
      <3> QED
        BY <3>6
    <2> QED
      BY <2>2, <2>3
  <1> QED
    BY <1>1

LEMMA ReadingIs ==
  ASSUME NEW digits, NEW n \in Nat, NEW value, Reads(digits, n, value), NEW k \in 0..n
  PROVE  value[k] = IF k = 0 THEN 0 ELSE 10 * value[k - 1] + digits[k]
  BY DEF Reads

\* Two texts with the same first digits have the same first values, naturals.
LEMMA ReadingsAgree ==
  ASSUME NEW n \in Nat, NEW m \in Nat, NEW digits, NEW more, NEW value, NEW longer,
         \A k \in 1..n : digits[k] \in Nat /\ digits[k] = more[k],
         n <= m, Reads(digits, n, value), Reads(more, m, longer)
  PROVE  \A k \in 0..n : value[k] \in Nat /\ longer[k] = value[k]
  <1> DEFINE Fails(k) == k <= n /\ ~(value[k] \in Nat /\ longer[k] = value[k])
             T == {k \in Nat : Fails(k)}
  <1>1. T = {}
    <2> SUFFICES ASSUME T # {} PROVE FALSE
      OBVIOUS
    <2>1. PICK k \in T : \A j \in T : k <= j
      <3>1. T \in SUBSET Nat
        OBVIOUS
      <3> HIDE DEF T
      <3> QED
        BY <3>1, LeastOf
    <2>2. k \in Nat /\ k <= n /\ k \in 0..n /\ k \in 0..m /\ ~(value[k] \in Nat /\ longer[k] = value[k])
      OBVIOUS
    <2>3. CASE k = 0
      <3>1. value[k] = 0 /\ longer[k] = 0
        BY <2>2, <2>3, ReadingIs
      <3> QED
        BY <2>2, <3>1
    <2>4. CASE k # 0
      <3>1. k - 1 \in Nat /\ k - 1 <= n /\ ~(k <= k - 1) /\ k \in 1..n
        BY <2>2, <2>4
      <3>2. value[k - 1] \in Nat /\ longer[k - 1] = value[k - 1]
        BY <2>1, <3>1
      <3>3. value[k] = 10 * value[k - 1] + digits[k] /\ longer[k] = 10 * longer[k - 1] + more[k]
        BY <2>2, <2>4, ReadingIs
      <3>4. digits[k] \in Nat /\ digits[k] = more[k]
        BY <3>1
      <3> QED
        BY <2>2, <3>2, <3>3, <3>4
    <2> QED
      BY <2>3, <2>4
  <1>2. ASSUME NEW k \in 0..n PROVE value[k] \in Nat /\ longer[k] = value[k]
    <2>1. k \in Nat /\ k <= n
      OBVIOUS
    <2>2. ~Fails(k)
      BY <1>1, <2>1
    <2> QED
      BY <2>1, <2>2
  <1> QED
    BY <1>2

LEMMA FromDigitsIs ==
  ASSUME NEW digits \in Digits
  PROVE  \E value : /\ Reads(digits, Len(digits), value)
                    /\ FromDigits(digits) = value[Len(digits)] /\ FromDigits(digits) \in Nat
  <1>1. Len(digits) \in Nat
    BY DEF Digits
  <1> DEFINE value == CHOOSE v : Reads(digits, Len(digits), v)
  <1>2. Reads(digits, Len(digits), value)
    BY <1>1, ReadingExists
  <1>3. FromDigits(digits) = value[Len(digits)]
    BY DEF FromDigits, Reads
  <1> HIDE DEF value
  <1>4. \A k \in 1..Len(digits) : digits[k] \in Nat /\ digits[k] = digits[k]
    BY DEF Digits
  <1>5. \A k \in 0..Len(digits) : value[k] \in Nat
    BY <1>1, <1>2, <1>4, ReadingsAgree
  <1> QED
    BY <1>1, <1>2, <1>3, <1>5

\* Zeros behind a text are a power of ten.
LEMMA ZerosScale ==
  ASSUME NEW digits \in Digits, NEW n \in 0..Places, NEW zeros \in Digits, Len(zeros) = n,
         \A k \in 1..n : zeros[k] = 0
  PROVE  FromDigits(digits \o zeros) = FromDigits(digits) * 10^n
  <1> DEFINE all == digits \o zeros
             len == Len(digits)
  <1>1. n \in Nat /\ len \in Nat /\ Places \in Nat
    BY ConfigurationAssumption DEF Digits
  <1>2. /\ all \in Digits /\ Len(all) = len + n
        /\ \A k \in 1..(len + n) : all[k] = IF k <= len THEN digits[k] ELSE zeros[k - len]
    BY ConcatProperties DEF Digits
  <1> HIDE DEF all
  <1>3. PICK value : /\ Reads(digits, len, value)
                     /\ FromDigits(digits) = value[len] /\ FromDigits(digits) \in Nat
    BY FromDigitsIs
  <1>4. PICK longer : Reads(all, len + n, longer) /\ FromDigits(all) = longer[len + n]
    BY <1>2, FromDigitsIs
  <1>5. \A k \in 1..len : digits[k] \in Nat /\ digits[k] = all[k]
    <2>1. \A k \in 1..len : digits[k] \in Nat
      BY DEF Digits
    <2>2. \A k \in 1..len : k \in 1..(len + n) /\ k <= len
      BY <1>1
    <2> QED
      BY <1>2, <2>1, <2>2
  <1> DEFINE base == FromDigits(digits)
  <1>6. longer[len] = base
    <2>1. len + n \in Nat /\ len <= len + n /\ len \in 0..len
      BY <1>1
    <2> HIDE DEF len, base
    <2>2. \A k \in 0..len : value[k] \in Nat /\ longer[k] = value[k]
      BY <1>1, <1>3, <1>4, <1>5, <2>1, ReadingsAgree
    <2> QED
      BY <1>3, <2>1, <2>2 DEF base
  <1>7. base \in Nat
    BY <1>3
  <1> HIDE DEF base, len
  <1> DEFINE Fails(k) == k <= n /\ longer[len + k] # base * 10^k
             T == {k \in Nat : Fails(k)}
  <1>8. T = {}
    <2> SUFFICES ASSUME T # {} PROVE FALSE
      OBVIOUS
    <2>1. PICK k \in T : \A j \in T : k <= j
      <3>1. T \in SUBSET Nat
        OBVIOUS
      <3> HIDE DEF T
      <3> QED
        BY <3>1, LeastOf
    <2>2. k \in Nat /\ k <= n /\ longer[len + k] # base * 10^k
      OBVIOUS
    <2>3. CASE k = 0
      <3>1. 10^k = 1 /\ len + k = len
        BY <1>1, <2>3, Power
      <3>2. base * 10^k = base
        BY <1>7, <3>1
      <3> QED
        BY <1>6, <2>2, <3>1, <3>2
    <2>4. CASE k # 0
      <3> DEFINE j == k - 1
      <3>1. /\ j \in Nat /\ j <= n /\ ~(k <= j) /\ j \in 0..Places /\ k = j + 1
            /\ len + k \in 0..(len + n) /\ len + k # 0 /\ (len + k) - 1 = len + j
            /\ k \in 1..n /\ len + k \in 1..(len + n) /\ ~(len + k <= len) /\ (len + k) - len = k
        BY <1>1, <2>2, <2>4
      <3> HIDE DEF j
      <3>2. longer[len + j] = base * 10^j
        BY <2>1, <3>1
      <3>3. longer[len + k] = 10 * longer[(len + k) - 1] + all[len + k]
        <4> DEFINE at == len + k
                   end == len + n
        <4>1. end \in Nat /\ at \in 0..end /\ at # 0 /\ Reads(all, end, longer)
          BY <1>1, <1>4, <3>1
        <4> HIDE DEF at, end
        <4>2. longer[at] = 10 * longer[at - 1] + all[at]
          BY <4>1, ReadingIs
        <4> QED
          BY <4>2 DEF at
      <3>4. all[len + k] = 0
        <4>1. all[len + k] = zeros[(len + k) - len]
          BY <1>2, <3>1
        <4> QED
          BY <3>1, <4>1
      <3>5. 10^k = 10 * 10^j /\ 10^j \in Int
        <4>1. 10^(j + 1) = 10 * 10^j /\ 10^j \in Int
          BY <3>1, Power
        <4> QED
          BY <3>1, <4>1
      <3>6. longer[len + k] = 10 * (base * 10^j)
        <4>1. base * 10^j \in Int
          BY <1>7, <3>5
        <4>2. longer[(len + k) - 1] = base * 10^j
          BY <3>1, <3>2
        <4> HIDE DEF T
        <4> QED
          BY <3>3, <3>4, <4>1, <4>2
      <3>7. 10 * (base * 10^j) = base * (10 * 10^j)
        BY <1>7, <3>5
      <3> QED
        BY <2>2, <3>5, <3>6, <3>7
    <2> QED
      BY <2>3, <2>4
  <1>9. ~Fails(n)
    BY <1>1, <1>8
  <1> QED
    BY <1>1, <1>4, <1>9 DEF all, base

\* A decimal is the number that is written, whatever its digits: `from_str`
\* pads the fraction to its places and reads one number (config.rs, Decimal7).
LEMMA DecimalIsRead ==
  ASSUME NEW text, text.whole \in Digits, text.fraction \in Digits
  PROVE  DecimalIsExact(text)
  <1> DEFINE n == Len(text.fraction)
             value == from_str(text)
             written == text.whole \o text.fraction
  <1>1. n \in Nat /\ Places \in Nat
    BY ConfigurationAssumption DEF Digits
  <1>2. CASE text.whole = << >> \/ n > Places
    <2>1. value = NotANumber
      BY <1>2 DEF from_str
    <2> QED
      BY <1>2, <2>1 DEF DecimalIsExact
  <1>3. CASE ~(text.whole = << >> \/ n > Places)
    <2> DEFINE m == Places - n
               zeros == [k \in 1..m |-> 0]
    <2>1. m \in 0..Places /\ m \in Nat /\ m + n = Places
      BY <1>1, <1>3
    <2> HIDE DEF m
    <2>2. zeros \in Digits /\ Len(zeros) = m /\ \A k \in 1..m : zeros[k] = 0
      BY <2>1 DEF Digits
    <2>3. value = FromDigits(text.whole \o (text.fraction \o zeros))
      BY <1>3 DEF from_str, Padded, m
    <2> HIDE DEF zeros
    <2>4. text.whole \o (text.fraction \o zeros) = written \o zeros
      <3> DEFINE whole == text.whole
                 fraction == text.fraction
      <3>1. whole \in Seq(0..9) /\ fraction \in Seq(0..9) /\ zeros \in Seq(0..9)
        BY <2>2 DEF Digits
      <3> HIDE DEF whole, fraction
      <3>2. (whole \o fraction) \o zeros = whole \o (fraction \o zeros)
        BY <3>1
      <3> QED
        BY <3>2 DEF whole, fraction
    <2>5. written \in Digits
      BY ConcatProperties DEF Digits
    <2> HIDE DEF written
    <2>6. value = FromDigits(written) * 10^m
      BY <2>1, <2>2, <2>3, <2>4, <2>5, ZerosScale
    <2>7. FromDigits(written) \in Nat
      BY <2>5, FromDigitsIs
    <2> HIDE DEF value, n
    <2>8. 10^m \in Int /\ 10^n \in Int /\ 10^m * 10^n = One
      <3>1. n \in 0..Places
        BY <1>1, <2>1
      <3> QED
        BY <1>1, <2>1, <3>1, Power, PowersAdd DEF One
    <2>9. value * 10^n = FromDigits(written) * One
      <3>1. (FromDigits(written) * 10^m) * 10^n = FromDigits(written) * (10^m * 10^n)
        BY <2>7, <2>8
      <3> QED
        BY <2>6, <2>8, <3>1
    <2>10. value # NotANumber
      <3>1. text.whole \o (text.fraction \o zeros) \in Digits
        BY <2>2, ConcatProperties DEF Digits
      <3>2. value \in Nat
        BY <2>3, <3>1, FromDigitsIs DEF value
      <3> QED
        BY <3>2 DEF NotANumber
    <2> QED
      BY <2>9, <2>10 DEF DecimalIsExact, value, n, written
  <1> QED
    BY <1>2, <1>3

----------------------------------------------------------------------------
(* The calls.                                                              *)

\* A reserve accrued again and again stays one, at the time of its accrual,
\* and the last accrual was fair; an input never becomes another.
JobInv ==
  \/ FixedJob(job)
  \/ AccrualJob(job) /\ AccruesFairly(job.before, job.after, job.take)
  \/ AuctionJob(job)
  \/ DefaultJob(job)
  \/ DelayJob(job)
  \/ HeadroomJob(job)
  \/ DecimalJob(job)

LEMMA KindsAre ==
  ASSUME NEW j
  PROVE  /\ FixedJob(j) => j.kind = "fixed"
         /\ AccrualJob(j) => j.kind = "accrual"
         /\ AuctionJob(j) => j.kind = "auction"
         /\ DefaultJob(j) => j.kind = "default"
         /\ DelayJob(j) => j.kind = "delay"
         /\ HeadroomJob(j) => j.kind = "headroom"
         /\ DecimalJob(j) => j.kind = "decimal"
  BY DEF FixedJob, AccrualJob, AuctionJob, DefaultJob, DelayJob, HeadroomJob, DecimalJob

LEMMA JobStarts == JobInit => JobInv
  <1> SUFFICES ASSUME JobInit PROVE JobInv
    OBVIOUS
  <1>1. \/ FixedJob(job) \/ (AccrualJob(job) /\ job.before = job.after)
        \/ AuctionJob(job) \/ DefaultJob(job) \/ DelayJob(job) \/ HeadroomJob(job) \/ DecimalJob(job)
    BY ArithmeticAssumption DEF JobInit
  <1>2. CASE AccrualJob(job) /\ job.before = job.after
    <2>1. job.after \in Reserves
      BY <1>2 DEF AccrualJob
    <2>2. job.after.d_rate \in Nat
      BY <2>1 DEF Reserves
    <2>3. AccruesFairly(job.after, job.after, job.take)
      BY <2>1, <2>2, SameIsFair
    <2> QED
      BY <1>2, <2>3 DEF JobInv
  <1> QED
    BY <1>1, <1>2 DEF JobInv

LEMMA JobStays == JobInv /\ [AccrueStep]_job => JobInv'
  <1> SUFFICES ASSUME JobInv, [AccrueStep]_job PROVE JobInv'
    OBVIOUS
  <1>1. CASE AccrueStep
    <2>1. job.kind = "accrual"
      BY <1>1 DEF AccrueStep
    <2>2. AccrualJob(job)
      BY <2>1, KindsAre DEF JobInv
    <2>3. PICK dt \in Lapses :
            job' = [job EXCEPT !.before = job.after, !.now = @ + dt,
                               !.after = accrue(job.after, job.take, job.now + dt)]
      BY <1>1 DEF AccrueStep
    <2> DEFINE r == job.after
               take == job.take
               now == job.now + dt
               s == accrue(r, take, now)
    <2>4. /\ r \in Reserves /\ take \in 0..Scalar7 /\ now \in Nat /\ r.last_time <= now
      BY <2>2, ArithmeticAssumption DEF AccrualJob
    <2>5. job' = [kind |-> "accrual", take |-> take, now |-> now, before |-> r, after |-> s]
      BY <2>2, <2>3 DEF AccrualJob
    <2> HIDE DEF r, take, now
    <2>6. s \in Reserves /\ s.last_time = now /\ AccruesFairly(r, s, take)
      BY <2>4, AccrualIsFair
    <2> HIDE DEF s
    <2>7. job' \in [kind : {"accrual"}, take : 0..Scalar7, now : Nat, before : Reserves, after : Reserves]
      BY <2>4, <2>5, <2>6
    <2>8. job'.before = r /\ job'.after = s /\ job'.take = take /\ job'.now = now
      BY <2>5
    <2>9. AccrualJob(job') /\ AccruesFairly(job'.before, job'.after, job'.take)
      BY <2>6, <2>7, <2>8 DEF AccrualJob
    <2> QED
      BY <2>9 DEF JobInv
  <1>2. CASE UNCHANGED job
    BY <1>2 DEF JobInv
  <1> QED
    BY <1>1, <1>2

LEMMA JobsAreKept == JobSpec => []JobInv
  BY JobStarts, JobStays, PTL DEF JobSpec

\* Every rounding is the pool's: for every reserve, auction and default, and
\* every length of step-by-step accrual, what suppliers and the backstop gain
\* is at most what borrowers come to owe; filling in parts never pays; and a
\* projected default charges the suppliers all that is not set off
\* (math/reserve.rs, accrue; math/auction.rs, scale_auction; math/setoff.rs,
\* project_default).
THEOREM RoundingIsThePools == JobSpec => []RoundsForPool
  <1>1. JobInv => RoundsForPool
    <2> SUFFICES ASSUME JobInv PROVE RoundsForPool
      OBVIOUS
    <2>1. InterestIsOwed
      BY KindsAre DEF JobInv, InterestIsOwed
    <2>2. NoSplitPays
      <3> SUFFICES ASSUME job.kind = "auction"
                   PROVE  SplittingNeverPays(job.auction, job.block, job.percent)
        BY DEF NoSplitPays
      <3>1. AuctionJob(job)
        BY KindsAre DEF JobInv
      <3> QED
        BY <3>1, SplitNeverPays DEF AuctionJob
    <2>3. LossIsCharged
      <3> SUFFICES ASSUME job.kind = "default"
                   PROVE  DefaultIsCharged(job.reserve, job.owed, job.claim)
        BY DEF LossIsCharged
      <3>1. DefaultJob(job)
        BY KindsAre DEF JobInv
      <3> QED
        BY <3>1, DefaultCharges DEF DefaultJob
    <2> QED
      BY <2>1, <2>2, <2>3 DEF RoundsForPool
  <1> QED
    BY <1>1, JobsAreKept, PTL

\* What is computed is the exact value or the best there is, for integers of
\* every width and inputs of every size: mul_div's quotient at its edges, a
\* decimal knob, the least delay that pays and the most supply the cap has
\* room for (math/fixed.rs, mul_div; config.rs, Decimal7; math/fill.rs,
\* fill_delay and supply_headroom).
THEOREM ComputesExactly == JobSpec => []NumbersAreExact
  <1>1. JobInv => NumbersAreExact
    <2> SUFFICES ASSUME JobInv PROVE NumbersAreExact
      OBVIOUS
    <2>1. MulDivExact
      <3> SUFFICES ASSUME job.kind = "fixed", NEW up \in BOOLEAN
                   PROVE  MulDivExactAt(job.x, job.y, job.z, up)
        BY DEF MulDivExact
      <3>1. FixedJob(job)
        BY KindsAre DEF JobInv
      <3>2. job.x \in Int /\ job.y \in Int /\ job.z \in Int
        BY <3>1, BoundsAre DEF FixedJob
      <3> QED
        BY <3>2, MulDivIsExact
    <2>2. DecimalsAreExact
      <3> SUFFICES ASSUME job.kind = "decimal" PROVE DecimalIsExact(job.text)
        BY DEF DecimalsAreExact
      <3>1. DecimalJob(job)
        BY KindsAre DEF JobInv
      <3>2. job.text.whole \in Digits /\ job.text.fraction \in Digits
        BY <3>1 DEF DecimalJob, Digits
      <3> QED
        BY <3>2, DecimalIsRead
    <2>3. DelayIsLeast
      <3> SUFFICES ASSUME job.kind = "delay" PROVE FillDelayIsLeast(job.lot, job.bid, job.bps)
        BY DEF DelayIsLeast
      <3>1. DelayJob(job)
        BY KindsAre DEF JobInv
      <3> QED
        BY <3>1, DelayIsTheLeast DEF DelayJob
    <2>4. HeadroomFits
      <3> SUFFICES ASSUME job.kind = "headroom" PROVE HeadroomIsMost(job.reserve, job.wanted)
        BY DEF HeadroomFits
      <3>1. HeadroomJob(job)
        BY KindsAre DEF JobInv
      <3> QED
        BY <3>1, HeadroomIsTheMost DEF HeadroomJob
    <2> QED
      BY <2>1, <2>2, <2>3, <2>4 DEF NumbersAreExact
  <1> QED
    BY <1>1, JobsAreKept, PTL
=============================================================================
