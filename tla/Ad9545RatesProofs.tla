------------------------- MODULE Ad9545RatesProofs -------------------------
(***************************************************************************)
(* The arithmetic of rates, phases and frequency adjustments, for every    *)
(* width and unit.                                                         *)
(***************************************************************************)
EXTENDS Ad9545Rates, TLAPS

\* Types of what the arithmetic works on
RateTypes ==
    /\ kind \in {"out", "tdc", "nco", "fine"} /\ half \in {0, 1}
    /\ parent \in Nat \ {0} /\ reg \in Nat /\ rounded \in Nat
    /\ kind = "out" => reg > 0
    /\ kind = "fine" => rounded = 0
    /\ degrees \in -1 .. CIRCLE - 1
    /\ degrees >= 0 => kind = "out" /\ phase = PhaseCode(degrees) % U32
    /\ tuned \in [freq : Nat, ppm : Int, result : Int]

\* The inductive invariant
RateInv == RateTypes /\ RateAsRounded /\ AdjfineRounds

-----------------------------------------------------------------------------
\* Products grow with their factors.
LEMMA MulMono ==
    ASSUME NEW a \in Int, NEW b \in Int, NEW c \in Nat, a <= b
    PROVE  a * c \in Int /\ b * c \in Int /\ a * c <= b * c
  OBVIOUS

\* Factors compare as their products do.
LEMMA MulCancel ==
    ASSUME NEW a \in Int, NEW b \in Int, NEW c \in Nat \ {0}, a * c < b * c
    PROVE  a < b
  OBVIOUS

\* What a quotient is
LEMMA DivBounds ==
    ASSUME NEW a \in Nat, NEW b \in Nat \ {0}
    PROVE  /\ a \div b \in Nat
           /\ (a \div b) * b <= a /\ a < (a \div b + 1) * b
  OBVIOUS

\* A number that satisfies these bounds is the quotient.
LEMMA DivIs ==
    ASSUME NEW a \in Nat, NEW b \in Nat \ {0}, NEW q \in Nat,
           q * b <= a, a < (q + 1) * b
    PROVE  a \div b = q
<1> DEFINE d == a \div b
<1>1. d \in Nat /\ d * b <= a /\ a < (d + 1) * b BY DivBounds
<1> HIDE DEF d
<1>2. d * b < (q + 1) * b /\ q * b < (d + 1) * b BY <1>1
<1>3. d < q + 1 BY <1>1, <1>2, MulCancel
<1>4. q < d + 1 BY <1>1, <1>2, MulCancel
<1> QED BY <1>1, <1>3, <1>4 DEF d

\* DIV_ROUND_UP
LEMMA CeilBounds ==
    ASSUME NEW a \in Nat \ {0}, NEW b \in Nat \ {0}
    PROVE  /\ CeilDiv(a, b) \in Nat \ {0}
           /\ a <= CeilDiv(a, b) * b /\ (CeilDiv(a, b) - 1) * b < a
<1> DEFINE c == CeilDiv(a, b)
           x == a + b - 1
<1>1. x \in Nat OBVIOUS
<1>2. c \in Nat /\ c * b <= x /\ x < (c + 1) * b
  <2> HIDE DEF x
  <2>1. x \div b \in Nat /\ (x \div b) * b <= x /\ x < (x \div b + 1) * b BY <1>1, DivBounds
  <2>2. c = x \div b BY DEF CeilDiv, x
  <2> QED BY <2>1, <2>2
<1>3. c * b \in Int /\ (c + 1) * b = c * b + b /\ (c - 1) * b = c * b - b
  <2> HIDE DEF c
  <2> QED BY <1>2
<1>4. a <= c * b /\ (c - 1) * b < a
  <2> HIDE DEF c
  <2> QED BY <1>2, <1>3 DEF x
<1>5. c # 0
  <2> HIDE DEF c
  <2> SUFFICES ASSUME c = 0 PROVE FALSE OBVIOUS
  <2>1. c * b = 0 BY <1>2
  <2> QED BY <1>4, <2>1
<1> QED BY <1>2, <1>4, <1>5

LEMMA CeilIs ==
    ASSUME NEW a \in Nat \ {0}, NEW b \in Nat \ {0}, NEW c \in Nat,
           a <= c * b, (c - 1) * b < a
    PROVE  CeilDiv(a, b) = c
<1> DEFINE d == CeilDiv(a, b)
<1>1. d \in Nat /\ a <= d * b /\ (d - 1) * b < a BY CeilBounds
<1> HIDE DEF d
<1>2. (d - 1) * b < c * b /\ (c - 1) * b < d * b BY <1>1
<1>3. d - 1 < c BY <1>1, <1>2, MulCancel
<1>4. c - 1 < d BY <1>1, <1>2, MulCancel
<1> QED BY <1>1, <1>3, <1>4 DEF d

-----------------------------------------------------------------------------
\* Outputs: the divider for a rounded rate may be larger than the one the
\* rate was rounded with, but it gives the same rate.
LEMMA OutRounds ==
    ASSUME NEW p \in Nat \ {0}, NEW rate \in Nat \ {0}
    PROVE  LET r == OutRoundRate(p, rate)
           IN  /\ r \in Nat \ {0} /\ OutSetRate(p, r) \in Nat \ {0}
               /\ OutRecalcRate(p, OutSetRate(p, r)) = r
<1> DEFINE q  == QDiv(p, rate)
           r  == p \div q
           q2 == p \div r
<1>1. q \in Nat \ {0} /\ q <= p
  <2> DEFINE d == p \div rate
  <2>1. d \in Nat /\ d * rate <= p BY DivBounds
  <2>2. q = IF d = 0 THEN 1 ELSE d BY DEF QDiv
  <2> HIDE DEF d
  <2>3. d * 1 <= d * rate BY <2>1
  <2>4. d <= p BY <2>1, <2>3
  <2> HIDE DEF q
  <2> QED BY <2>1, <2>2, <2>4
<1> HIDE DEF q
<1>2. r \in Nat /\ r * q <= p /\ p < (r + 1) * q BY <1>1, DivBounds
<1> HIDE DEF r
<1>3. r # 0
  <2> SUFFICES ASSUME r = 0 PROVE FALSE OBVIOUS
  <2>1. (r + 1) * q = q BY <1>1
  <2> QED BY <1>1, <1>2, <2>1
<1>4. q2 \in Nat /\ q2 * r <= p /\ p < (q2 + 1) * r BY <1>2, <1>3, DivBounds
<1> HIDE DEF q2
<1>5. q <= q2
  <2>1. q * r < (q2 + 1) * r BY <1>1, <1>2, <1>4
  <2>2. q < q2 + 1 BY <1>1, <1>2, <1>3, <1>4, <2>1, MulCancel
  <2> QED BY <1>1, <1>4, <2>2
<1>6. p \div q2 = r
  <2>1. q * (r + 1) <= q2 * (r + 1) BY <1>1, <1>2, <1>4, <1>5, MulMono
  <2>2. p < (r + 1) * q2
    <3>1. (r + 1) * q = q * (r + 1) /\ (r + 1) * q2 = q2 * (r + 1) BY <1>1, <1>2, <1>4
    <3>2. q * (r + 1) \in Int /\ q2 * (r + 1) \in Int BY <1>1, <1>2, <1>4
    <3> QED BY <1>2, <2>1, <3>1, <3>2
  <2>3. r * q2 <= p BY <1>2, <1>4
  <2>4. q2 \in Nat \ {0} BY <1>1, <1>4, <1>5
  <2> QED BY <1>2, <2>2, <2>3, <2>4, DivIs
<1>7. OutSetRate(p, r) = q2 BY <1>1, <1>4, <1>5 DEF OutSetRate, QDiv, q2
<1> QED BY <1>1, <1>2, <1>3, <1>4, <1>5, <1>6, <1>7 DEF OutRoundRate, OutRecalcRate, q, r

\* clamp_t gives a number from 1 to the largest, and leaves these alone.
LEMMA ClampIn ==
    ASSUME NEW v \in Nat, v > 1, NEW x \in Nat
    PROVE  /\ ClampT(v, x) \in 1 .. v - 1
           /\ x \in 1 .. v - 1 => ClampT(v, x) = x
  BY DEF ClampT

\* Auxiliary TDCs, with a divider of 8 bits
LEMMA TdcRounds ==
    ASSUME NEW p \in Nat \ {0}, NEW rate \in Nat \ {0}
    PROVE  LET r == TdcRoundRate(p, rate)
           IN  /\ r \in Nat \ {0} /\ TdcSetRate(p, r) \in Nat
               /\ TdcRecalcRate(p, TdcSetRate(p, r)) = r
<1> DEFINE d  == TdcDiv(p, rate)
           r  == CeilDiv(p, d)
           d2 == CeilDiv(p, r)
<1>1. d \in 1 .. U8 - 1
  <2>1. CeilDiv(p, rate) \in Nat BY CeilBounds
  <2> QED BY <2>1, ClampIn, RateConstants DEF TdcDiv
<1> HIDE DEF d
<1>2. d \in Nat \ {0} BY <1>1, RateConstants
<1>3. r \in Nat \ {0} /\ p <= r * d /\ (r - 1) * d < p BY <1>2, CeilBounds
<1> HIDE DEF r
<1>4. d2 \in Nat \ {0} /\ p <= d2 * r /\ (d2 - 1) * r < p BY <1>3, CeilBounds
<1> HIDE DEF d2
<1>5. d2 <= d
  <2>1. (d2 - 1) * r < d * r BY <1>2, <1>3, <1>4
  <2>2. d2 - 1 < d BY <1>2, <1>3, <1>4, <2>1, MulCancel
  <2> QED BY <1>2, <1>4, <2>2
<1>6. CeilDiv(p, d2) = r
  <2>1. r - 1 \in Nat BY <1>3
  <2>2. d2 * (r - 1) <= d * (r - 1) BY <1>2, <1>4, <1>5, <2>1, MulMono
  <2>3. d2 * (r - 1) = (r - 1) * d2 /\ d * (r - 1) = (r - 1) * d BY <1>2, <1>4, <2>1
  <2>4. (r - 1) * d2 \in Int /\ (r - 1) * d \in Int BY <1>2, <1>4, <2>1
  <2>5. (r - 1) * d2 < p BY <1>3, <2>2, <2>3, <2>4
  <2>6. p <= r * d2 BY <1>3, <1>4
  <2> QED BY <1>3, <1>4, <2>5, <2>6, CeilIs
<1>7. TdcSetRate(p, r) = d2 - 1
  <2>1. d2 \in 1 .. U8 - 1 BY <1>1, <1>4, <1>5, RateConstants
  <2>2. ClampT(U8, d2) = d2 BY <1>4, <2>1, ClampIn, RateConstants
  <2> QED BY <2>2 DEF TdcSetRate, TdcDiv, d2
<1>8. TdcRecalcRate(p, d2 - 1) = r
  <2>1. d2 - 1 + 1 = d2 BY <1>4
  <2> QED BY <1>6, <2>1 DEF TdcRecalcRate
<1> QED BY <1>3, <1>4, <1>7, <1>8 DEF TdcRoundRate, d, r

\* Auxiliary NCOs
LEMMA NcoRounds ==
    ASSUME NEW rate \in Nat \ {0}
    PROVE  LET r == NcoRoundRate(rate)
           IN  r \in Nat \ {0} /\ NcoSetRate(r) \in Nat /\ NcoRecalcRate(NcoSetRate(r)) = r
<1> DEFINE r == NcoRoundRate(rate)
<1>1. r \in Nat \ {0} BY ClampIn, RateConstants DEF NcoRoundRate
<1> HIDE DEF r
<1> DEFINE x == r * HZ + HZ \div 2
<1>2. HZ \in Nat \ {0} /\ HZ \div 2 \in Nat /\ HZ \div 2 < HZ BY RateConstants
<1>3. r * HZ \in Nat /\ (r + 1) * HZ = r * HZ + HZ BY <1>1, <1>2
<1>4. x \in Nat /\ r * HZ <= x /\ x < (r + 1) * HZ BY <1>2, <1>3
<1> HIDE DEF x
<1>5. x \div HZ = r BY <1>1, <1>2, <1>4, DivIs
<1> QED BY <1>1, <1>3, <1>5 DEF NcoSetRate, NcoRecalcRate, ClosestDiv, r, x

\* All three kinds
LEMMA SetRounds ==
    ASSUME NEW k \in {"out", "tdc", "nco"}, NEW p \in Nat \ {0}, NEW rate \in Nat \ {0}
    PROVE  LET r == RoundRate(k, p, rate)
               v == SetRateReg(k, p, r)
           IN  /\ r \in Nat /\ v \in Nat /\ (k = "out" => v > 0)
               /\ RecalcRate(k, p, v) = r
<1>1. CASE k = "out" BY <1>1, OutRounds DEF RoundRate, SetRateReg, RecalcRate
<1>2. CASE k = "tdc" BY <1>2, TdcRounds DEF RoundRate, SetRateReg, RecalcRate
<1>3. CASE k = "nco" BY <1>3, NcoRounds DEF RoundRate, SetRateReg, RecalcRate
<1> QED BY <1>1, <1>2, <1>3

-----------------------------------------------------------------------------
\* A phase code stays below the edges of a period, and gives back a phase
\* that is less than an edge and a degree too small.
LEMMA PhaseBack ==
    ASSUME NEW e \in Nat \ {0}, NEW d \in 0 .. CIRCLE - 1
    PROVE  LET code == (e * d) \div CIRCLE
               g    == (code * CIRCLE) \div e
           IN  /\ code \in Nat /\ code < e
               /\ g \in Nat /\ g <= d /\ (d - g) * e < CIRCLE + e
<1> DEFINE code == (e * d) \div CIRCLE
           g    == (code * CIRCLE) \div e
<1>1. CIRCLE \in Nat \ {0} /\ d \in Nat /\ d < CIRCLE BY RateConstants
<1>2. e * d \in Nat /\ e * d = d * e BY <1>1
<1>3. code \in Nat /\ code * CIRCLE <= e * d /\ e * d < (code + 1) * CIRCLE
  BY <1>1, <1>2, DivBounds
<1> HIDE DEF code
<1>4. code < e
  <2>1. d * e < CIRCLE * e BY <1>1
  <2>2. CIRCLE * e = e * CIRCLE /\ CIRCLE * e \in Int /\ code * CIRCLE \in Int BY <1>1, <1>3
  <2>3. code * CIRCLE < e * CIRCLE BY <1>2, <1>3, <2>1, <2>2
  <2> QED BY <1>1, <1>3, <2>3, MulCancel
<1>5. code * CIRCLE \in Nat /\ (code + 1) * CIRCLE = code * CIRCLE + CIRCLE BY <1>1, <1>3
<1>6. g \in Nat /\ g * e <= code * CIRCLE /\ code * CIRCLE < (g + 1) * e
  BY <1>5, DivBounds
<1> HIDE DEF g
<1>7. g * e \in Int /\ (g + 1) * e = g * e + e /\ (d - g) * e = d * e - g * e
      /\ (d + 1) * e = d * e + e
  BY <1>1, <1>6
<1>8. g <= d
  <2>1. g * e < (d + 1) * e BY <1>2, <1>3, <1>5, <1>6, <1>7
  <2>2. g < d + 1 BY <1>1, <1>6, <2>1, MulCancel
  <2> QED BY <1>1, <1>6, <2>2
<1>9. (d - g) * e < CIRCLE + e BY <1>1, <1>2, <1>3, <1>5, <1>6, <1>7
<1> QED BY <1>3, <1>4, <1>6, <1>8, <1>9 DEF code, g

\* Two roundings: the shift by PPM and the division by MILLION
LEMMA AdjustmentClose ==
    ASSUME NEW x \in Nat
    PROVE  LET adj == ClosestDiv(x \div PPM, MILLION)
               off == adj * PPM * MILLION - x
           IN  adj \in Nat /\ 2 * off <= PPM * (MILLION + 2) /\ -(2 * off) <= PPM * (MILLION + 2)
<1> DEFINE y   == x \div PPM
           h   == MILLION \div 2
           adj == (y + h) \div MILLION
           z   == adj * MILLION - y
<1>1. PPM \in Nat \ {0} /\ MILLION \in Nat \ {0} BY RateConstants
<1>2. y \in Nat /\ y * PPM <= x /\ x < (y + 1) * PPM BY <1>1, DivBounds
<1>3. h \in Nat /\ 2 * h <= MILLION /\ MILLION <= 2 * h + 1 BY <1>1
<1> HIDE DEF y, h
<1>4. y + h \in Nat BY <1>2, <1>3
<1>5. adj \in Nat /\ adj * MILLION <= y + h /\ y + h < (adj + 1) * MILLION
  BY <1>1, <1>4, DivBounds
<1> HIDE DEF adj
<1>6. adj * MILLION \in Int /\ (adj + 1) * MILLION = adj * MILLION + MILLION BY <1>1, <1>5
<1>7. z \in Int /\ 2 * z <= MILLION /\ -MILLION <= 2 * z
  BY <1>1, <1>2, <1>3, <1>5, <1>6
<1>8. adj * PPM * MILLION = z * PPM + y * PPM
  <2>1. adj * MILLION = z + y BY <1>2, <1>6
  <2>2. adj * PPM * MILLION = (adj * MILLION) * PPM BY <1>1, <1>5
  <2> HIDE DEF z
  <2>3. (z + y) * PPM = z * PPM + y * PPM BY <1>1, <1>2, <1>7
  <2> QED BY <2>1, <2>2, <2>3
<1> HIDE DEF z
<1>9. /\ 2 * (z * PPM) <= MILLION * PPM /\ -(MILLION * PPM) <= 2 * (z * PPM)
      /\ z * PPM \in Int /\ MILLION * PPM \in Int
  <2>1. (2 * z) * PPM <= MILLION * PPM BY <1>1, <1>7, MulMono
  <2>2. (-MILLION) * PPM <= (2 * z) * PPM BY <1>1, <1>7, MulMono
  <2>3. (2 * z) * PPM = 2 * (z * PPM) /\ (-MILLION) * PPM = -(MILLION * PPM) BY <1>1, <1>7
  <2>4. z * PPM \in Int /\ MILLION * PPM \in Int BY <1>1, <1>7
  <2> QED BY <2>1, <2>2, <2>3, <2>4
<1>10. /\ PPM * (MILLION + 2) = MILLION * PPM + 2 * PPM
       /\ (y + 1) * PPM = y * PPM + PPM /\ y * PPM \in Int
  BY <1>1, <1>2
<1>11. /\ 2 * (adj * PPM * MILLION - x) <= PPM * (MILLION + 2)
       /\ -(2 * (adj * PPM * MILLION - x)) <= PPM * (MILLION + 2)
  <2> DEFINE zp == z * PPM
             yp == y * PPM
             mp == MILLION * PPM
  <2>1. /\ zp \in Int /\ yp \in Int /\ mp \in Int
        /\ yp <= x /\ x < yp + PPM /\ 2 * zp <= mp /\ -mp <= 2 * zp
    BY <1>2, <1>9, <1>10
  <2> HIDE DEF zp, yp, mp
  <2>2. 2 * (zp + yp - x) <= mp + 2 * PPM /\ -(2 * (zp + yp - x)) <= mp + 2 * PPM
    BY <1>1, <2>1
  <2>3. adj * PPM * MILLION = zp + yp BY <1>8 DEF zp, yp
  <2>4. PPM * (MILLION + 2) = mp + 2 * PPM BY <1>10 DEF mp
  <2> QED BY <1>1, <1>5, <2>1, <2>2, <2>3, <2>4
<1> QED BY <1>5, <1>11 DEF ClosestDiv, y, h, adj

\* ad9545_adjfine up and down
LEMMA AdjustedClose ==
    ASSUME NEW freq \in Nat, NEW ppm \in Int
    PROVE  LET off == (Adjusted(freq, ppm) - freq) * PPM * MILLION - freq * ppm
           IN  Adjusted(freq, ppm) \in Int /\ 2 * Magnitude(off) <= PPM * (MILLION + 2)
<1> DEFINE m   == Magnitude(ppm)
           x   == freq * m
           adj == ClosestDiv(x \div PPM, MILLION)
           o   == adj * PPM * MILLION - x
           off == (Adjusted(freq, ppm) - freq) * PPM * MILLION - freq * ppm
<1>1. PPM \in Nat \ {0} /\ MILLION \in Nat \ {0} BY RateConstants
<1>2. m \in Nat /\ (ppm < 0 => m = -ppm) /\ (~(ppm < 0) => m = ppm) BY DEF Magnitude
<1> HIDE DEF m
<1>3. x \in Nat BY <1>2
<1>4. adj \in Nat /\ 2 * o <= PPM * (MILLION + 2) /\ -(2 * o) <= PPM * (MILLION + 2)
  <2> HIDE DEF x
  <2> QED BY <1>3, AdjustmentClose
<1>5. Adjusted(freq, ppm) = IF ppm < 0 THEN freq - adj ELSE freq + adj
  BY DEF Adjusted, m
<1> HIDE DEF adj, x
<1>6. o \in Int /\ adj * PPM * MILLION \in Int BY <1>1, <1>3, <1>4
<1>7. (ppm < 0 => off = -o) /\ (~(ppm < 0) => off = o)
  <2>1. CASE ppm < 0
    <3>1. Adjusted(freq, ppm) - freq = -adj BY <1>4, <1>5, <2>1
    <3>2. (-adj) * PPM * MILLION = -(adj * PPM * MILLION) BY <1>1, <1>4
    <3>3. freq * ppm = -x
      <4>1. ppm = -m BY <1>2, <2>1
      <4>2. freq * (-m) = -(freq * m) BY <1>2
      <4> QED BY <4>1, <4>2 DEF x
    <3> QED BY <1>3, <1>6, <2>1, <3>1, <3>2, <3>3
  <2>2. CASE ~(ppm < 0)
    <3>1. Adjusted(freq, ppm) - freq = adj BY <1>4, <1>5, <2>2
    <3>2. freq * ppm = x BY <1>2, <2>2 DEF x
    <3> QED BY <1>3, <1>6, <2>2, <3>1, <3>2
  <2> QED BY <2>1, <2>2
<1>8. 2 * Magnitude(off) <= PPM * (MILLION + 2)
  <2>1. PPM * (MILLION + 2) \in Int BY <1>1
  <2> HIDE DEF off, o
  <2> QED BY <1>4, <1>6, <1>7, <2>1 DEF Magnitude
<1> QED BY <1>4, <1>5, <1>8

-----------------------------------------------------------------------------
LEMMA RateInvInit == RateInit => RateInv
<1> SUFFICES ASSUME RateInit PROVE RateInv OBVIOUS
<1>1. RateTypes BY RateConstants DEF RateInit, RateTypes, NoTuning
<1>2. RateAsRounded BY DEF RateInit, RateAsRounded
<1>3. AdjfineRounds
  <2>1. tuned.freq = 0 /\ tuned.ppm = 0 /\ tuned.result = 0 BY DEF RateInit, NoTuning
  <2>2. (tuned.result - tuned.freq) * PPM * MILLION - tuned.freq * tuned.ppm = 0
    BY <2>1, RateConstants
  <2>3. 0 <= PPM * (MILLION + 2) BY RateConstants
  <2> QED BY <2>2, <2>3 DEF AdjfineRounds, Magnitude
<1> QED BY <1>1, <1>2, <1>3 DEF RateInv

LEMMA RateInvNext == RateInv /\ [RateNext]_rateVars => RateInv'
<1> SUFFICES ASSUME RateInv, [RateNext]_rateVars PROVE RateInv' OBVIOUS
<1>1. RateTypes /\ RateAsRounded /\ AdjfineRounds BY DEF RateInv
<1>2. CASE SetRate
  <2>1. PICK rate \in 1 .. MaxRate :
           /\ kind # "fine"
           /\ rounded' = RoundRate(kind, parent, rate)
           /\ reg' = SetRateReg(kind, parent, rounded')
           /\ degrees' = IF reg' = reg THEN degrees ELSE -1
           /\ UNCHANGED <<kind, parent, half, phase, tuned>>
    BY <1>2 DEF SetRate
  <2>2. kind \in {"out", "tdc", "nco"} /\ parent \in Nat \ {0} /\ rate \in Nat \ {0}
    BY <1>1, <2>1, RateConstants DEF RateTypes
  <2>3. /\ rounded' \in Nat /\ reg' \in Nat /\ (kind = "out" => reg' > 0)
        /\ RecalcRate(kind, parent, reg') = rounded'
    BY <2>1, <2>2, SetRounds
  <2>4. degrees' >= 0 => kind' = "out" /\ phase' = (PhaseCode(degrees) % U32)'
    <3> SUFFICES ASSUME degrees' >= 0 PROVE kind' = "out" /\ phase' = (PhaseCode(degrees) % U32)'
      OBVIOUS
    <3>1. degrees' = degrees /\ reg' = reg /\ half' = half BY <2>1
    <3>2. degrees >= 0 /\ kind = "out" /\ phase = PhaseCode(degrees) % U32
      BY <1>1, <3>1 DEF RateTypes
    <3> QED BY <2>1, <3>1, <3>2 DEF PhaseCode, Edges
  <2>5. RateTypes' BY <1>1, <2>1, <2>2, <2>3, <2>4, RateConstants DEF RateTypes
  <2>6. RateAsRounded' BY <2>1, <2>3 DEF RateAsRounded
  <2>7. AdjfineRounds' BY <1>1, <2>1 DEF AdjfineRounds
  <2> QED BY <2>5, <2>6, <2>7 DEF RateInv
<1>3. CASE ParentRate
  <2>1. RateTypes' BY <1>1, <1>3, RateConstants DEF RateTypes, ParentRate, PhaseCode, Edges
  <2>2. RateAsRounded' BY <1>3 DEF ParentRate, RateAsRounded
  <2>3. AdjfineRounds' BY <1>1, <1>3 DEF ParentRate, AdjfineRounds
  <2> QED BY <2>1, <2>2, <2>3 DEF RateInv
<1>4. CASE SetPhase
  <2>1. phase' = (PhaseCode(degrees) % U32)' BY <1>4 DEF SetPhase, PhaseCode, Edges
  <2>2. RateTypes' BY <1>1, <1>4, <2>1, RateConstants DEF RateTypes, SetPhase
  <2>3. RateAsRounded' BY <1>1, <1>4 DEF SetPhase, RateAsRounded
  <2>4. AdjfineRounds' BY <1>1, <1>4 DEF SetPhase, AdjfineRounds
  <2> QED BY <2>2, <2>3, <2>4 DEF RateInv
<1>5. CASE Tune
  <2>1. PICK freq \in 0 .. MaxTuning, ppm \in -MaxPpm .. MaxPpm :
           tuned' = [freq |-> freq, ppm |-> ppm, result |-> Adjusted(freq, ppm)]
    BY <1>5 DEF Tune
  <2>2. freq \in Nat /\ ppm \in Int BY RateConstants
  <2>3. /\ Adjusted(freq, ppm) \in Int
        /\ 2 * Magnitude((Adjusted(freq, ppm) - freq) * PPM * MILLION - freq * ppm)
              <= PPM * (MILLION + 2)
    BY <2>2, AdjustedClose
  <2>4. RateTypes' BY <1>1, <1>5, <2>1, <2>2, <2>3 DEF RateTypes, Tune, PhaseCode, Edges
  <2>5. RateAsRounded' BY <1>1, <1>5 DEF Tune, RateAsRounded
  <2>6. tuned'.freq = freq /\ tuned'.ppm = ppm /\ tuned'.result = Adjusted(freq, ppm) BY <2>1
  <2>7. AdjfineRounds' BY <2>3, <2>6 DEF AdjfineRounds
  <2> QED BY <2>4, <2>5, <2>7 DEF RateInv
<1>6. CASE UNCHANGED rateVars
  <2>1. RateTypes' BY <1>1, <1>6 DEF RateTypes, rateVars, PhaseCode, Edges
  <2>2. RateAsRounded' BY <1>1, <1>6 DEF RateAsRounded, rateVars
  <2>3. AdjfineRounds' BY <1>1, <1>6 DEF AdjfineRounds, rateVars
  <2> QED BY <2>1, <2>2, <2>3 DEF RateInv
<1> QED BY <1>2, <1>3, <1>4, <1>5, <1>6 DEF RateNext

LEMMA RateInvariant == RateSpec => []RateInv
  BY RateInvInit, RateInvNext, PTL DEF RateSpec

\* Setting a rate that round_rate has announced gives that rate, although the
\* set_rate functions round once more: outputs, TDCs and NCOs of any width.
THEOREM RatesAsRounded == RateSpec => []RateAsRounded
<1>1. RateInv => RateAsRounded BY DEF RateInv
<1> QED BY RateInvariant, <1>1, PTL

\* adjfine is within half a unit and a millionth of what was asked for.
THEOREM AdjfineClose == RateSpec => []AdjfineRounds
<1>1. RateInv => AdjfineRounds BY DEF RateInv
<1> QED BY RateInvariant, <1>1, PTL

\* ad9545_out_clk_get_phase gives back what set_phase was asked for, to less
\* than an input edge and a degree, while 32 bits can count the edges.
THEOREM PhasesReadBack == RateSpec => []PhaseReadsBack
<1>1. RateInv => PhaseReadsBack
  <2> SUFFICES ASSUME RateInv, degrees >= 0, Edges < U32
               PROVE  /\ GetPhase(phase) <= degrees
                      /\ (degrees - GetPhase(phase)) * Edges < CIRCLE + Edges
    BY DEF PhaseReadsBack
  <2> DEFINE e    == Edges
             code == (e * degrees) \div CIRCLE
  <2>1. /\ e \in Nat \ {0} /\ degrees \in 0 .. CIRCLE - 1
        /\ phase = PhaseCode(degrees) % U32
    BY RateConstants DEF RateInv, RateTypes, Edges
  <2>2. phase = code % U32 BY <2>1 DEF PhaseCode
  <2> HIDE DEF e
  <2>3. /\ code \in Nat /\ code < e
        /\ (code * CIRCLE) \div e <= degrees
        /\ (degrees - ((code * CIRCLE) \div e)) * e < CIRCLE + e
    BY <2>1, PhaseBack
  <2> HIDE DEF code
  <2>4. e < U32 /\ U32 \in Nat \ {0} BY RateConstants DEF e
  <2>5. phase = code BY <2>1, <2>2, <2>3, <2>4
  <2>6. e % U32 = e BY <2>1, <2>4
  <2>7. GetPhase(phase) = (code * CIRCLE) \div e BY <2>5, <2>6 DEF GetPhase, e
  <2> QED BY <2>3, <2>7 DEF e
<1> QED BY RateInvariant, <1>1, PTL
=============================================================================
