-------------------------- MODULE PtpTstampProofs --------------------------
(***************************************************************************)
(* The timestamp arithmetic of the ToD driver, for every radix: normal     *)
(* form, exact sums and rounding.                                          *)
(***************************************************************************)
EXTENDS PtpTstampSteps, TLAPS

Tstamps == [seconds : Int, nanoseconds : Int, frac_nanoseconds : Int]

\* A timestamp with its types: what every step keeps.
StepInv == t \in Tstamps /\ Normal(t) /\ added \in Int

-----------------------------------------------------------------------------
\* Quotient and remainder
LEMMA DivMod ==
    ASSUME NEW a \in Int, NEW b \in Nat \ {0}
    PROVE  /\ a \div b \in Int /\ a % b \in 0 .. b - 1
           /\ a = b * (a \div b) + (a % b)
  OBVIOUS

\* Remainders without and with one carry
LEMMA ModSmall ==
    ASSUME NEW b \in Nat \ {0}, NEW a \in 0 .. 2 * b - 1
    PROVE  a % b = IF a < b THEN a ELSE a - b
  OBVIOUS

\* _tod_hw_tstamp_add_delay
LEMMA DelayExact ==
    ASSUME NEW u \in Tstamps, Normal(u), NEW ns \in Nat, NEW f \in 0 .. FRAC - 1
    PROVE  LET v == AddDelay(u, [ns |-> ns, frac_ns |-> f])
           IN  v \in Tstamps /\ Normal(v) /\ Instant(v) = Instant(u) + ns * FRAC + f
<1> DEFINE s    == u.seconds
           frac == u.frac_nanoseconds + f
           sum  == u.nanoseconds + ns + FracCarry(frac)
           v    == AddDelay(u, [ns |-> ns, frac_ns |-> f])
<1>1. SEC \in Nat \ {0} /\ FRAC \in Nat \ {0} BY TstampConstants
<1>2. /\ s \in Int /\ u.nanoseconds \in 0 .. SEC - 1 /\ u.frac_nanoseconds \in 0 .. FRAC - 1
      /\ frac \in Nat /\ FracCarry(frac) \in {0, 1} /\ sum \in Nat
  BY <1>1 DEF Tstamps, Normal, FracCarry
<1>3. /\ frac % FRAC \in 0 .. FRAC - 1
      /\ frac = FracCarry(frac) * FRAC + (frac % FRAC)
  <2>1. frac \in 0 .. 2 * FRAC - 1 BY <1>1, <1>2
  <2> HIDE DEF frac
  <2>2. frac % FRAC = IF frac < FRAC THEN frac ELSE frac - FRAC BY <1>1, <2>1, ModSmall
  <2> QED BY <1>1, <2>1, <2>2 DEF FracCarry
<1>4. /\ sum \div SEC \in Int /\ sum % SEC \in 0 .. SEC - 1
      /\ sum = SEC * (sum \div SEC) + (sum % SEC)
  <2> HIDE DEF sum
  <2> QED BY <1>1, <1>2, DivMod
<1>5. \E a \in Int, b \in 0 .. SEC - 1 :
         v = Tstamp(a, b, frac % FRAC) /\ a * SEC + b = s * SEC + sum
  <2>1. CASE sum >= SEC
    <3> DEFINE k == sum \div SEC
    <3>1. v = Tstamp(s + k, sum % SEC, frac % FRAC) BY <2>1 DEF AddDelay
    <3>2. s + k \in Int BY <1>2, <1>4
    <3> HIDE DEF k, s, sum
    <3>3. (s + k) * SEC + (sum % SEC) = s * SEC + (SEC * k + (sum % SEC))
      BY <1>1, <1>2, <1>4 DEF k
    <3> QED BY <1>2, <1>4, <3>1, <3>2, <3>3 DEF k
  <2>2. CASE ~(sum >= SEC)
    <3>1. v = Tstamp(s, sum, frac % FRAC) BY <2>2 DEF AddDelay
    <3>2. sum \in 0 .. SEC - 1 BY <1>1, <1>2, <2>2
    <3> HIDE DEF s, sum
    <3> QED BY <1>2, <3>1, <3>2
  <2> QED BY <2>1, <2>2
<1>6. PICK a \in Int, b \in 0 .. SEC - 1 :
         v = Tstamp(a, b, frac % FRAC) /\ a * SEC + b = s * SEC + sum
  BY <1>5
<1>7. v \in Tstamps /\ Normal(v) BY <1>1, <1>3, <1>6 DEF Tstamps, Normal, Tstamp
<1>8. Instant(v) = Instant(u) + ns * FRAC + f
  <2> DEFINE c == FracCarry(frac)
             r == frac % FRAC
             n == u.nanoseconds
  <2>1. Instant(v) = (s * SEC + n + ns + c) * FRAC + r
    <3>1. Instant(v) = (a * SEC + b) * FRAC + r BY <1>6 DEF Instant, Tstamp
    <3>2. a * SEC + b = s * SEC + n + ns + c BY <1>1, <1>2, <1>6
    <3> QED BY <3>1, <3>2
  <2>2. Instant(u) = (s * SEC + n) * FRAC + u.frac_nanoseconds BY DEF Instant
  <2>3. u.frac_nanoseconds + f = c * FRAC + r BY <1>3
  <2>4. s * SEC \in Int BY <1>1, <1>2
  <2>5. c \in Int /\ r \in Int /\ n \in Int
    <3>1. c \in Int
      <4> HIDE DEF frac
      <4> QED BY <1>2
    <3> QED BY <1>1, <1>2, <1>3, <3>1
  <2> DEFINE w == s * SEC
  <2>6. (w + n + ns + c) * FRAC = (w + n) * FRAC + ns * FRAC + c * FRAC
    <3> HIDE DEF w, c, n
    <3> QED BY <1>1, <2>4, <2>5 DEF w
  <2>7. (w + n) * FRAC \in Int /\ ns * FRAC \in Int /\ c * FRAC \in Int
    <3> HIDE DEF w, c, n
    <3> QED BY <1>1, <2>4, <2>5 DEF w
  <2> QED BY <1>1, <1>2, <2>1, <2>2, <2>3, <2>5, <2>6, <2>7
<1> QED BY <1>7, <1>8

\* div_s64_rem
LEMMA DeltaParts ==
    ASSUME NEW delta \in Int
    PROVE  /\ DeltaSeconds(delta) \in Int /\ DeltaNs(delta) \in Int
           /\ DeltaSeconds(delta) * SEC + DeltaNs(delta) = delta
           /\ -SEC < DeltaNs(delta) /\ DeltaNs(delta) < SEC
           /\ delta < 0 \/ DeltaNs(delta) >= 0
           /\ DeltaNs(delta) > 0 => delta >= 0
           /\ 0 <= delta /\ delta < SEC => DeltaNs(delta) = delta
<1>1. SEC \in Nat \ {0} BY TstampConstants
<1> DEFINE a == Abs(delta)
           q == a \div SEC
           r == a % SEC
<1>2. a \in Nat /\ a = (IF delta < 0 THEN -delta ELSE delta) BY DEF Abs
<1>3. q \in Int /\ r \in 0 .. SEC - 1 /\ a = SEC * q + r
  <2>1. a \in Int BY <1>2
  <2> HIDE DEF a
  <2> QED BY <1>1, <2>1, DivMod
<1>4. delta >= 0 /\ delta < SEC => r = delta
  <2>1. ASSUME delta >= 0, delta < SEC PROVE r = delta
    <3>1. a = delta /\ a \in 0 .. 2 * SEC - 1 BY <1>1, <1>2, <2>1
    <3> HIDE DEF a
    <3> QED BY <1>1, <2>1, <3>1, ModSmall
  <2> QED BY <2>1
<1>5. CASE delta < 0
  <2>1. DeltaSeconds(delta) = (-1) * q /\ DeltaNs(delta) = (-1) * r
    BY <1>5 DEF DeltaSeconds, DeltaNs, Sign
  <2> HIDE DEF q, r
  <2>2. DeltaSeconds(delta) = -q /\ DeltaNs(delta) = -r BY <1>1, <1>3, <2>1
  <2>3. (-q) * SEC = -(SEC * q) /\ SEC * q \in Int BY <1>1, <1>3
  <2> HIDE DEF a
  <2> QED BY <1>1, <1>2, <1>3, <1>5, <2>2, <2>3
<1>6. CASE ~(delta < 0)
  <2>1. DeltaSeconds(delta) = 1 * q /\ DeltaNs(delta) = 1 * r
    BY <1>6 DEF DeltaSeconds, DeltaNs, Sign
  <2> HIDE DEF q, r
  <2>2. DeltaSeconds(delta) = q /\ DeltaNs(delta) = r BY <1>1, <1>3, <2>1
  <2> HIDE DEF a
  <2> QED BY <1>1, <1>2, <1>3, <1>4, <1>6, <2>2
<1> QED BY <1>5, <1>6

\* The second half of _tod_adjtime
LEMMA AdjustExact ==
    ASSUME NEW u \in Tstamps, Normal(u), NEW delta \in Int
    PROVE  LET v == AdjustBy(u, delta)
           IN  /\ v \in Tstamps /\ Normal(v)
               /\ Instant(v) = Instant(u) + delta * FRAC \/ SecondsDropped(u, delta * FRAC)
<1> DEFINE s  == u.seconds
           n  == u.nanoseconds
           f  == u.frac_nanoseconds
           ds == DeltaSeconds(delta)
           ns == DeltaNs(delta)
           v  == AdjustBy(u, delta)
<1>1. SEC \in Nat \ {0} /\ FRAC \in Nat \ {0} BY TstampConstants
<1>2. s \in Int /\ n \in 0 .. SEC - 1 /\ f \in 0 .. FRAC - 1 BY DEF Tstamps, Normal
<1>3. /\ ds \in Int /\ ns \in Int /\ ds * SEC + ns = delta
      /\ -SEC < ns /\ ns < SEC
      /\ ns > 0 => delta >= 0
      /\ 0 <= delta /\ delta < SEC => ns = delta
  BY DeltaParts
<1>4. /\ (s + ds) * SEC = s * SEC + ds * SEC
      /\ (s - 1 + ds) * SEC = s * SEC - SEC + ds * SEC
      /\ (s + 1) * SEC = s * SEC + SEC
      /\ s * SEC \in Int /\ ds * SEC \in Int
  <2> HIDE DEF s, ds
  <2> QED BY <1>1, <1>2, <1>3
<1> HIDE DEF s, n, f, ds, ns
<1>5. SUFFICES \E a \in Int, b \in 0 .. SEC - 1 :
         /\ v = Tstamp(a, b, f)
         /\ a * SEC + b = s * SEC + n + delta \/ (delta >= SEC /\ n + ns >= SEC)
  <2>1. PICK a \in Int, b \in 0 .. SEC - 1 :
         /\ v = Tstamp(a, b, f)
         /\ a * SEC + b = s * SEC + n + delta \/ (delta >= SEC /\ n + ns >= SEC)
    BY <1>5
  <2>2. v \in Tstamps /\ Normal(v) BY <1>1, <1>2, <2>1 DEF Tstamps, Normal, Tstamp
  <2>3. ASSUME a * SEC + b = s * SEC + n + delta
        PROVE  Instant(v) = Instant(u) + delta * FRAC
    <3>1. Instant(v) = (s * SEC + n + delta) * FRAC + f BY <2>1, <2>3 DEF Instant, Tstamp
    <3>2. Instant(u) = (s * SEC + n) * FRAC + f BY DEF Instant, s, n, f
    <3> DEFINE w == s * SEC + n
    <3>3. w \in Int BY <1>1, <1>2, <1>4
    <3>4. (w + delta) * FRAC = w * FRAC + delta * FRAC /\ w * FRAC \in Int /\ delta * FRAC \in Int
      <4> HIDE DEF w
      <4> QED BY <1>1, <3>3
    <3> QED BY <1>1, <1>2, <3>1, <3>2, <3>3, <3>4
  <2>4. ASSUME delta >= SEC, n + ns >= SEC
        PROVE  SecondsDropped(u, delta * FRAC)
    <3>1. (delta * FRAC) \div FRAC = delta /\ (delta * FRAC) % FRAC = 0 BY <1>1
    <3> QED BY <2>4, <3>1 DEF SecondsDropped, n, ns
  <2> QED BY <2>1, <2>2, <2>3, <2>4
<1>6. CASE Borrows(ns, u)
  <2>1. ns < 0 /\ -ns > n BY <1>3, <1>6 DEF Borrows, Abs, n
  <2>2. NsAdded(u, delta) = Tstamp(s - 1, SEC + ns + n, f) BY <1>6 DEF NsAdded, s, n, f, ns
  <2>3. SEC + ns + n \in 0 .. SEC - 1 BY <1>1, <1>2, <1>3, <2>1
  <2>4. v = Tstamp(s - 1 + ds, SEC + ns + n, f)
    BY <1>1, <1>2, <1>3, <2>2, <2>3 DEF AdjustBy, Fits, Tstamp, ds
  <2>5. s - 1 + ds \in Int BY <1>2, <1>3
  <2>6. (s - 1 + ds) * SEC + (SEC + ns + n) = s * SEC + n + delta BY <1>1, <1>2, <1>3, <1>4
  <2> QED BY <2>3, <2>4, <2>5, <2>6
<1>7. CASE ~Borrows(ns, u)
  <2>1. n + ns >= 0 BY <1>2, <1>3, <1>7 DEF Borrows, Abs, n
  <2>2. NsAdded(u, delta) = Tstamp(s, n + ns, f) BY <1>7 DEF NsAdded, s, n, f, ns
  <2>3. CASE n + ns < SEC
    <3>1. v = Tstamp(s + ds, n + ns, f)
      BY <1>1, <1>2, <1>3, <2>2, <2>3 DEF AdjustBy, Fits, Tstamp, ds
    <3>2. s + ds \in Int /\ n + ns \in 0 .. SEC - 1 BY <1>1, <1>2, <1>3, <2>1, <2>3
    <3>3. (s + ds) * SEC + (n + ns) = s * SEC + n + delta BY <1>1, <1>2, <1>3, <1>4
    <3> QED BY <3>1, <3>2, <3>3
  <2>4. CASE ~(n + ns < SEC)
    <3>1. v = Tstamp(s + 1, n + ns - SEC, f)
      <4> DEFINE y == NsAdded(u, delta)
      <4>1. y.seconds = s /\ y.nanoseconds = n + ns /\ y.frac_nanoseconds = f
        BY <2>2 DEF Tstamp
      <4>2. ~Fits(y) BY <2>4, <4>1 DEF Fits
      <4>3. v = Tstamp(y.seconds + 1, y.nanoseconds - SEC, y.frac_nanoseconds)
        BY <4>2 DEF AdjustBy
      <4> QED BY <1>1, <1>2, <1>3, <4>1, <4>3
    <3>2. s + 1 \in Int /\ n + ns - SEC \in 0 .. SEC - 1 BY <1>1, <1>2, <1>3, <2>4
    <3>3. delta >= SEC \/ ns = delta BY <1>1, <1>2, <1>3, <2>4
    <3>4. (s + 1) * SEC + (n + ns - SEC) = s * SEC + n + ns BY <1>1, <1>2, <1>3, <1>4
    <3>5. n + ns >= SEC BY <1>1, <1>2, <1>3, <2>4
    <3> QED BY <3>1, <3>2, <3>3, <3>4, <3>5
  <2> QED BY <2>3, <2>4
<1> QED BY <1>6, <1>7

-----------------------------------------------------------------------------
LEMMA StepInvInit == StepInit => StepInv
  BY TstampConstants DEF StepInit, StepInv, Tstamps, Normal, Tstamp

\* A step keeps the invariant and adds what it should.
LEMMA StepKeeps ==
    ASSUME StepInv, StepNext
    PROVE  StepInv' /\ (Instant(t') = Instant(t) + added' \/ SecondsDropped(t, added'))
<1>1. SEC \in Nat \ {0} /\ FRAC \in Nat \ {0} BY TstampConstants
<1>2. t \in Tstamps /\ Normal(t) BY DEF StepInv
<1>3. CASE Delay
  <2>1. PICK ns \in 0 .. 2 * SEC, frac \in 0 .. FRAC - 1 :
           /\ t' = AddDelay(t, [ns |-> ns, frac_ns |-> frac])
           /\ added' = ns * FRAC + frac
    BY <1>3 DEF Delay
  <2>2. ns \in Nat /\ ns * FRAC \in Int BY <1>1
  <2>3. /\ t' \in Tstamps /\ Normal(t')
        /\ Instant(t') = Instant(t) + ns * FRAC + frac
    BY <1>2, <2>1, <2>2, DelayExact
  <2>4. Instant(t) \in Int BY <1>1, <1>2 DEF Instant, Tstamps
  <2> QED BY <1>1, <2>1, <2>2, <2>3, <2>4 DEF StepInv, Normal
<1>4. CASE Adjust
  <2>1. PICK delta \in -MaxDelta .. MaxDelta :
           t' = AdjustBy(t, delta) /\ added' = delta * FRAC
    BY <1>4 DEF Adjust
  <2>2. delta \in Int /\ delta * FRAC \in Int BY <1>1, StepConstants
  <2>3. /\ t' \in Tstamps /\ Normal(t')
        /\ Instant(t') = Instant(t) + delta * FRAC \/ SecondsDropped(t, delta * FRAC)
    BY <1>2, <2>1, <2>2, AdjustExact
  <2> QED BY <2>1, <2>2, <2>3 DEF StepInv, Normal
<1> QED BY <1>3, <1>4 DEF StepNext

LEMMA StepInvariant == StepSpec => []StepInv
<1>1. StepInv /\ [StepNext]_stepVars => StepInv'
  <2> SUFFICES ASSUME StepInv, [StepNext]_stepVars PROVE StepInv' OBVIOUS
  <2>1. CASE StepNext BY <2>1, StepKeeps
  <2>2. CASE UNCHANGED stepVars BY <2>2 DEF StepInv, stepVars, Normal
  <2> QED BY <2>1, <2>2
<1> QED BY StepInvInit, <1>1, PTL DEF StepSpec

\* Whatever is added to a timestamp, and whatever the radixes of seconds and
\* nanoseconds are, the result of the ToD arithmetic is in normal form.
THEOREM TstampNormal == StepSpec => []AlwaysNormal
<1>1. StepInv => AlwaysNormal BY DEF StepInv, AlwaysNormal
<1> QED BY StepInvariant, <1>1, PTL

\* Delays and adjustments add exactly what is asked for, except when
\* _tod_adjtime drops the seconds of a delta whose nanoseconds carry.
THEOREM TstampAddsUp == StepSpec => AddsUp
<1>1. StepInv /\ [StepNext]_stepVars
      => [Instant(t') = Instant(t) + added' \/ SecondsDropped(t, added')]_stepVars
  BY StepKeeps DEF stepVars
<1> QED BY StepInvariant, <1>1, PTL DEF StepSpec, AddsUp

\* With an even number of fractions in a nanosecond, as 2^16 is, the
\* conversion to a timespec is off by at most half a nanosecond.
THEOREM TstampRounds ==
    ASSUME FRAC % 2 = 0
    PROVE  StepSpec => []RoundsToNearest
<1>1. StepInv => RoundsToNearest
  <2> SUFFICES ASSUME StepInv PROVE RoundsToNearest OBVIOUS
  <2> DEFINE w == t.seconds * SEC + t.nanoseconds
             f == t.frac_nanoseconds
  <2>1. SEC \in Nat \ {0} /\ FRAC \in Nat \ {0} BY TstampConstants
  <2>2. w \in Int /\ f \in 0 .. FRAC - 1 /\ t.seconds * SEC \in Int /\ t.nanoseconds \in Int
    BY <2>1 DEF StepInv, Tstamps, Normal
  <2>3. 2 * (FRAC \div 2) = FRAC BY <2>1
  <2> DEFINE ts == ToTimespec(t)
             d  == (ts.tv_sec * SEC + ts.tv_nsec) * FRAC - Instant(t)
  <2>4. Instant(t) = w * FRAC + f BY DEF Instant
  <2>5. w * FRAC \in Int /\ (w + 1) * FRAC = w * FRAC + FRAC
    <3> HIDE DEF w
    <3> QED BY <2>1, <2>2
  <2>6. d = IF f < FRAC \div 2 THEN -f ELSE FRAC - f
    <3>1. CASE f < FRAC \div 2
      <4>1. ts.tv_sec * SEC + ts.tv_nsec = w BY <3>1 DEF ToTimespec, RoundDown
      <4> HIDE DEF w, ts
      <4> QED BY <2>1, <2>2, <2>4, <2>5, <3>1, <4>1
    <3>2. CASE ~(f < FRAC \div 2)
      <4>1. ts.tv_sec * SEC + ts.tv_nsec = w + 1 BY <2>2, <3>2 DEF ToTimespec, RoundDown
      <4> HIDE DEF w, ts
      <4> QED BY <2>1, <2>2, <2>4, <2>5, <3>2, <4>1
    <3> QED BY <3>1, <3>2
  <2>7. 2 * Abs(d) <= FRAC
    <3> HIDE DEF d
    <3> QED BY <2>1, <2>2, <2>3, <2>6 DEF Abs
  <2> QED BY <2>7 DEF RoundsToNearest
<1> QED BY StepInvariant, <1>1, PTL
=============================================================================
