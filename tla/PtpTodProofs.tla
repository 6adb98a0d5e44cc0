---------------------------- MODULE PtpTodProofs ----------------------------
(***************************************************************************)
(* The time-of-day operations of ptp_adi.c, for every length of a second,  *)
(* trigger delay and latency of the driver: what the ToD counter and the   *)
(* latched value are, at each step of a call, relative to the time the     *)
(* call should lead to.                                                    *)
(***************************************************************************)
EXTENDS PtpTod, PtpTstampProofs

\* How far the time b is behind the time a.
Gap(a, b) == (a - b) % Mod

\* An operation is armed.
Pending == pc \in {"delay", "poll", "late", "clear"}

\* The operation armed last was triggered and is not overruled by a timeout.
Effective == fired \/ (pc = "ret" /\ ~err)

\* The types that TodTypeOK leaves out.
CallType ==
    /\ tstamp \in Tstamps /\ tstamp.frac_nanoseconds = 0
    /\ arg \in Int /\ ref \in Int /\ age \in 0 .. MaxAge /\ timer \in Nat

\* The driver and the trigger: an operation is armed from Arm to Clear, the
\* status is DONE only while one is armed, and the poll ends with the status
\* DONE or with an error.
Handshake ==
    /\ armed = IF Pending THEN op ELSE "none"
    /\ fired => Pending
    /\ pc = "clear" => fired \/ err
    /\ err => pc \in {"clear", "ret"}
    /\ pc = "gc" => trigger_mode = "GC"
    /\ pc = "idle" => call = "get"
    /\ call = "get" => op = "RD"
    /\ call = "set" => op = "WR"
    /\ Returns("adj") => op = "WR"

\* adi_tod_gettimex: the counter runs on, and what a trigger latched is as
\* old as the trigger.
GetInv ==
    call = "get" /\ pc # "idle" =>
        /\ ref = tod
        /\ fired => Gap(ref, stat_tv) <= age
        /\ Returns("get") => Gap(ref, RegValueUnmasked(tstamp)) <= age

\* adi_tod_settime: the time to set ages with the call, and the counter shows
\* it from the trigger on.
SetInv ==
    call = "set" =>
        /\ arg \in Nat /\ tstamp = FromTicks(arg) /\ Gap(ref, arg) <= age
        /\ Effective => Gap(ref, tod) <= age

\* The parts of adi_tod_adjtime: up to the read, from there to the trigger of
\* the write, and after it.
AdjRead  == call = "adj" /\ op = "RD" /\ pc # "ret"
AdjWrite == call = "adj" /\ op = "WR" /\ pc # "ret" /\ ~fired
AdjDone  == call = "adj" /\ op = "WR" /\ Effective

\* Until the write is triggered the clock is delta away from where it should be.
AdjAhead == AdjRead \/ AdjWrite => Gap(ref, tod + arg) = 0

\* The value was latched e ticks ago, and a trigger delay before that the
\* call was already under way.
Since(e) == Gap(tod, stat_tv + e) = 0 /\ (e + DelayTick <= age \/ age = MaxAge)

\* With the GC trigger each of the two operations takes the trigger delay.
AdjGc ==
    trigger_mode = "GC" =>
        /\ AdjRead /\ pc # "gc" /\ ~fired => age + gcLeft >= DelayTick
        /\ AdjRead /\ fired => \E e \in Nat : Since(e)
        /\ AdjWrite => /\ RegValue(tstamp) = (stat_tv + DelayTick + arg) % Mod
                       /\ \E e \in Nat : Since(e) /\ (pc # "gc" => e + gcLeft >= DelayTick)
        /\ AdjDone => Gap(ref, tod) + 2 * DelayTick <= age

\* The latest PPS edge, and what the steps before this one may have taken
\* since the edge that triggered the read.
LastEdge == SEC * (tod \div SEC)
Budget == CASE pc = "poll"  -> MaxLat
            [] pc = "clear" -> 2 * MaxLat
            [] pc = "arm"   -> 3 * MaxLat
            [] OTHER        -> 0

\* With the PPS trigger the write is armed before the edge that follows the
\* one at which the time was read.
AdjPps ==
    trigger_mode = "PPS" =>
        /\ AdjRead /\ fired /\ ~err => stat_tv = LastEdge /\ tod % SEC <= Budget + lat
        /\ AdjWrite => /\ RegValue(tstamp) = (stat_tv + SEC + arg) % Mod
                       /\ stat_tv = LastEdge
                       /\ pc = "arm" => tod % SEC <= Budget + lat
        /\ AdjDone => Gap(ref, tod) = 0

TodBase == TodTypeOK /\ CallType /\ Handshake

-----------------------------------------------------------------------------
(***************************************************************************)
(* Times modulo the range of the counter.                                  *)
(***************************************************************************)

\* A remainder is determined by its range.
LEMMA ModUnique ==
    ASSUME NEW m \in Nat \ {0}, NEW a \in Int, NEW q \in Int, NEW r \in 0 .. m - 1, a = m * q + r
    PROVE  a % m = r
<1> DEFINE p == a \div m
           s == a % m
<1>1. p \in Int /\ s \in 0 .. m - 1 /\ a = m * p + s
  BY DivMod
<1> HIDE DEF p, s
<1>2. m * (q - p) = s - r
  BY <1>1
<1>3. CASE q - p >= 1
  <2>1. m * (q - p) >= m
    BY <1>1, <1>3
  <2> QED
    BY <1>1, <1>2, <2>1
<1>4. CASE q - p <= -1
  <2>1. m * (q - p) <= -m
    BY <1>1, <1>4
  <2> QED
    BY <1>1, <1>2, <2>1
<1>5. CASE q - p = 0
  BY <1>1, <1>2, <1>5 DEF s
<1> QED
  BY <1>1, <1>3, <1>4, <1>5

\* Numbers a multiple of m apart
LEMMA ModShift ==
    ASSUME NEW m \in Nat \ {0}, NEW a \in Int, NEW b \in Int, NEW k \in Int, b = a + m * k
    PROVE  b % m = a % m
<1> DEFINE p == a \div m
           s == a % m
           n == p + k
<1>1. p \in Int /\ s \in 0 .. m - 1 /\ a = m * p + s
  BY DivMod
<1> HIDE DEF p, s
<1>2. n \in Int /\ b = m * n + s
  BY <1>1
<1> HIDE DEF n
<1>3. b % m = s
  BY <1>1, <1>2, ModUnique
<1> QED
  BY <1>3 DEF s

\* The remainder of a term of a sum may be taken first.
LEMMA ModSum ==
    ASSUME NEW m \in Nat \ {0}, NEW a \in Int, NEW b \in Int
    PROVE  ((a % m) + b) % m = (a + b) % m /\ (b - (a % m)) % m = (b - a) % m
<1> DEFINE p == a \div m
           s == a % m
           u == s + b
           v == a + b
           w == b - s
           x == b - a
<1>1. p \in Int /\ s \in Int /\ a = m * p + s
  BY DivMod
<1> HIDE DEF p, s
<1>2. u \in Int /\ v \in Int /\ v = u + m * p
  BY <1>1
<1>3. w \in Int /\ x \in Int /\ w = x + m * p
  BY <1>1
<1> HIDE DEF u, v, w, x
<1>4. v % m = u % m
  BY <1>1, <1>2, ModShift
<1>5. w % m = x % m
  BY <1>1, <1>3, ModShift
<1> QED
  BY <1>4, <1>5 DEF s, u, v, w, x

\* One more
LEMMA ModNext ==
    ASSUME NEW m \in Nat \ {0}, NEW a \in Int, NEW b \in Int, b = a + 1
    PROVE  b % m = IF a % m = m - 1 THEN 0 ELSE (a % m) + 1
<1> DEFINE p == a \div m
           s == a % m
           n == p + 1
           r == s + 1
<1>1. p \in Int /\ s \in 0 .. m - 1 /\ a = m * p + s
  BY DivMod
<1> HIDE DEF p, s
<1>2. CASE s = m - 1
  <2> DEFINE z == 0
  <2>1. n \in Int /\ z \in 0 .. m - 1 /\ b = m * n + z
    BY <1>1, <1>2
  <2>2. b % m = z
    <3> HIDE DEF n, z
    <3> QED
      BY <2>1, ModUnique
  <2> QED
    BY <1>2, <2>2 DEF s
<1>3. CASE s # m - 1
  <2>1. r \in 0 .. m - 1 /\ b = m * p + r
    BY <1>1, <1>3
  <2>2. b % m = r
    <3> HIDE DEF r
    <3> QED
      BY <1>1, <2>1, ModUnique
  <2> QED
    BY <1>3, <2>2 DEF s
<1> QED
  BY <1>2, <1>3

LEMMA ModFacts ==
    /\ SEC \in Nat \ {0} /\ SECS \in Nat \ {0} /\ DelayTick \in Nat /\ MaxLat \in Nat
    /\ Mod \in Nat \ {0} /\ MaxAge \in Nat /\ MaxAge = Mod + 2 * DelayTick
<1>1. SEC \in Nat \ {0} /\ SECS \in Nat \ {0} /\ DelayTick \in Nat /\ MaxLat \in Nat
  BY TstampConstants, TodConstants
<1>2. SEC * SECS \in Nat /\ SEC * SECS >= 1
  BY <1>1
<1> QED
  BY <1>1, <1>2 DEF Mod, MaxAge

LEMMA GapFacts ==
    ASSUME NEW a \in Int, NEW b \in Int
    PROVE  /\ Gap(a, b) \in 0 .. Mod - 1
           /\ (a + 1) % Mod \in 0 .. Mod - 1
           /\ Gap((a + 1) % Mod, b) \in 0 .. Gap(a, b) + 1
           /\ Gap((a + 1) % Mod, (b + 1) % Mod) = Gap(a, b)
           /\ Gap(a, b % Mod) = Gap(a, b)
<1> DEFINE c == a + 1
           d == b + 1
           n == -b
           k == -d
           s == c % Mod
<1>1. Mod \in Nat \ {0}
  BY ModFacts
<1>2. a - b \in Int /\ c \in Int /\ d \in Int /\ n \in Int /\ k \in Int
  OBVIOUS
<1>3. Gap(a, b) \in 0 .. Mod - 1 /\ s \in 0 .. Mod - 1
  BY <1>1, <1>2, DivMod DEF Gap
<1>4. Gap(s, b) = (c + n) % Mod /\ Gap(s, d) = (c + k) % Mod
  <2>1. (s + n) % Mod = (c + n) % Mod /\ (s + k) % Mod = (c + k) % Mod
    <3> HIDE DEF c, n, k
    <3> QED
      BY <1>1, <1>2, ModSum
  <2>2. s + n = s - b /\ s + k = s - d
    <3> HIDE DEF s
    <3> QED
      BY <1>3
  <2> QED
    BY <2>1, <2>2 DEF Gap
<1>5. (c + n) % Mod = IF Gap(a, b) = Mod - 1 THEN 0 ELSE Gap(a, b) + 1
  <2> DEFINE x == a - b
             y == c + n
  <2>1. x \in Int /\ y \in Int /\ y = x + 1
    OBVIOUS
  <2> HIDE DEF x, y
  <2>2. y % Mod = IF x % Mod = Mod - 1 THEN 0 ELSE (x % Mod) + 1
    BY <1>1, <2>1, ModNext
  <2> QED
    BY <2>2 DEF x, y, Gap
<1>6. Gap(s, d % Mod) = Gap(s, d) /\ Gap(a, b % Mod) = Gap(a, b)
  <2> HIDE DEF s, d
  <2>1. s \in Int
    BY <1>1, <1>3
  <2>2. (s - (d % Mod)) % Mod = (s - d) % Mod /\ (a - (b % Mod)) % Mod = (a - b) % Mod
    BY <1>1, <1>2, <2>1, ModSum
  <2> QED
    BY <2>2 DEF Gap
<1>7. c + k = a - b
  OBVIOUS
<1>8. Gap(s, b) \in 0 .. Gap(a, b) + 1
  BY <1>1, <1>3, <1>4, <1>5
<1>9. Gap(s, d % Mod) = Gap(a, b)
  BY <1>4, <1>6, <1>7 DEF Gap
<1> QED
  BY <1>3, <1>6, <1>8, <1>9

-----------------------------------------------------------------------------
(***************************************************************************)
(* Times in the registers.                                                 *)
(***************************************************************************)

Times0 == {u \in Tstamps : Normal(u) /\ u.frac_nanoseconds = 0}

\* _tod_hw_settstamp_to_reg writes the time modulo the range of the counter.
LEMMA RegValueFacts ==
    ASSUME NEW u \in Tstamps, Normal(u)
    PROVE  /\ RegValueUnmasked(u) \in Int
           /\ RegValue(u) \in 0 .. Mod - 1
           /\ RegValue(u) = RegValueUnmasked(u) % Mod
<1> DEFINE s == u.seconds
           n == u.nanoseconds
           q == s \div SECS
           r == s % SECS
           v == r * SEC + n
           w == s * SEC + n
<1>1. SEC \in Nat \ {0} /\ SECS \in Nat \ {0} /\ s \in Int /\ n \in 0 .. SEC - 1
  BY ModFacts DEF Tstamps, Normal
<1>2. q \in Int /\ r \in 0 .. SECS - 1 /\ s = SECS * q + r
  BY <1>1, DivMod
<1>3. RegValue(u) = v /\ RegValueUnmasked(u) = w
  BY DEF RegValue, RegValueUnmasked
<1> HIDE DEF s, n, q, r
<1>4. Mod \in Nat \ {0} /\ Mod = SEC * SECS
  BY ModFacts DEF Mod
<1>5. v \in Int /\ w \in Int /\ v >= 0
  BY <1>1, <1>2
<1>6. v <= Mod - 1
  <2>1. r * SEC <= (SECS - 1) * SEC
    BY <1>1, <1>2
  <2>2. (SECS - 1) * SEC = Mod - SEC
    BY <1>1, <1>4
  <2> QED
    BY <1>1, <1>2, <1>4, <2>1, <2>2
<1>7. w = Mod * q + v
  BY <1>1, <1>2, <1>4
<1> HIDE DEF v, w
<1>8. w % Mod = v
  BY <1>2, <1>4, <1>5, <1>6, <1>7, ModUnique
<1> QED
  BY <1>3, <1>4, <1>5, <1>6, <1>8

\* A time in ticks as a timestamp.
LEMMA FromTicksFacts ==
    ASSUME NEW n \in Int
    PROVE  /\ FromTicks(n) \in Times0
           /\ FromTicks(n).nanoseconds = n % SEC
           /\ RegValueUnmasked(FromTicks(n)) = n
           /\ RegValue(FromTicks(n)) = n % Mod
<1>1. SEC \in Nat \ {0} /\ FRAC \in Nat \ {0}
  BY TstampConstants
<1>2. n \div SEC \in Int /\ n % SEC \in 0 .. SEC - 1 /\ n = SEC * (n \div SEC) + (n % SEC)
  BY <1>1, DivMod
<1>3. /\ FromTicks(n).seconds = n \div SEC /\ FromTicks(n).nanoseconds = n % SEC
      /\ FromTicks(n).frac_nanoseconds = 0
      /\ FromTicks(n) \in Tstamps
  BY <1>1, <1>2 DEF FromTicks, Tstamp, Tstamps
<1>4. Normal(FromTicks(n))
  BY <1>1, <1>2, <1>3 DEF Normal
<1>5. RegValueUnmasked(FromTicks(n)) = (n \div SEC) * SEC + (n % SEC)
  BY <1>3 DEF RegValueUnmasked
<1>6. RegValueUnmasked(FromTicks(n)) = n
  BY <1>1, <1>2, <1>5
<1> QED
  BY <1>3, <1>4, <1>6, RegValueFacts DEF Times0

\* Instants without a fraction
LEMMA WholeInstant ==
    ASSUME NEW u \in Times0
    PROVE  RegValueUnmasked(u) \in Int /\ Instant(u) = RegValueUnmasked(u) * FRAC
<1>1. u \in Tstamps /\ Normal(u) /\ u.frac_nanoseconds = 0
  BY DEF Times0
<1> DEFINE w == u.seconds * SEC + u.nanoseconds
<1>2. w \in Int /\ FRAC \in Int
  BY <1>1, TstampConstants DEF Tstamps
<1>3. Instant(u) = w * FRAC + 0
  BY <1>1 DEF Instant
<1>4. RegValueUnmasked(u) = w
  BY DEF RegValueUnmasked
<1> HIDE DEF w
<1> QED
  BY <1>2, <1>3, <1>4

\* A quotient without a remainder
LEMMA DivExact ==
    ASSUME NEW m \in Nat \ {0}, NEW a \in Int
    PROVE  (a * m) \div m = a
<1> DEFINE b == a * m
           z == 0
           p == b \div m
           s == b % m
<1>1. b \in Int /\ z \in 0 .. m - 1 /\ b = m * a + z
  OBVIOUS
<1>2. s = z
  <2> HIDE DEF b, z
  <2> QED
    BY <1>1, ModUnique
<1>3. p \in Int /\ b = m * p + s
  <2> HIDE DEF b
  <2> QED
    BY <1>1, DivMod
<1>4. a * m = m * p
  <2> HIDE DEF p, s
  <2> QED
    BY <1>2, <1>3
<1> HIDE DEF p
<1>5. m * (a - p) = 0
  BY <1>3, <1>4
<1>6. a - p = 0
  BY <1>3, <1>5
<1> QED
  BY <1>3, <1>6 DEF p

\* The time _tod_adjtime writes, for what it has read: the trigger delay (or
\* a second) and delta are added.  With the GC trigger a carry would drop the
\* seconds of delta, so there delta is less than a second; at a PPS edge
\* nothing carries.
LEMMA AdjustedTime ==
    ASSUME NEW n \in Int, NEW delta \in Int
    PROVE  LET u == AdjustBy(AtNextTrigger(FromTicks(n)), delta)
               h == IF trigger_mode = "GC" THEN DelayTick ELSE SEC
           IN  /\ u \in Times0
               /\ (IF trigger_mode = "GC" THEN delta < SEC ELSE n % SEC = 0)
                  => RegValue(u) = (n + h + delta) % Mod
<1> DEFINE f == FromTicks(n)
           g == AtNextTrigger(f)
           u == AdjustBy(g, delta)
           h == IF trigger_mode = "GC" THEN DelayTick ELSE SEC
<1>1. SEC \in Nat \ {0} /\ FRAC \in Nat \ {0} /\ DelayTick \in Nat /\ h \in Nat
  BY TstampConstants, TodConstants
<1>2. f \in Times0 /\ f.nanoseconds = n % SEC /\ RegValueUnmasked(f) = n
  BY FromTicksFacts
<1> HIDE DEF f
<1>3. g \in Times0 /\ RegValueUnmasked(g) = n + h
      /\ (trigger_mode # "GC" => g.nanoseconds = n % SEC)
  <2>1. CASE trigger_mode = "GC"
    <3> DEFINE z == 0
    <3>1. f \in Tstamps /\ Normal(f) /\ f.frac_nanoseconds = 0 /\ z \in 0 .. FRAC - 1
      BY <1>1, <1>2 DEF Times0
    <3>2. g = AddDelay(f, [ns |-> DelayTick, frac_ns |-> z])
      BY <2>1 DEF AtNextTrigger
    <3>3. g \in Tstamps /\ Normal(g) /\ Instant(g) = Instant(f) + DelayTick * FRAC + z
      <4> HIDE DEF z
      <4> QED
        BY <1>1, <3>1, <3>2, DelayExact
    <3>4. g.frac_nanoseconds = (0 + 0) % FRAC
      BY <3>1, <3>2 DEF AddDelay, Tstamp
    <3>5. g \in Times0
      BY <1>1, <3>3, <3>4 DEF Times0
    <3>6. RegValueUnmasked(g) * FRAC = n * FRAC + DelayTick * FRAC
      BY <1>1, <1>2, <3>3, <3>5, WholeInstant
    <3>7. RegValueUnmasked(g) \in Int
      BY <3>5, WholeInstant
    <3>8. RegValueUnmasked(g) = n + DelayTick
      <4> DEFINE x == RegValueUnmasked(g)
      <4> HIDE DEF x, g
      <4>1. x \in Int /\ x * FRAC = n * FRAC + DelayTick * FRAC
        BY <3>6, <3>7 DEF x
      <4>2. FRAC * (x - n - DelayTick) = 0
        BY <1>1, <4>1
      <4>3. x - n - DelayTick = 0
        BY <1>1, <4>1, <4>2
      <4>4. x = n + DelayTick
        BY <1>1, <4>1, <4>3
      <4> QED
        BY <4>4 DEF x
    <3> QED
      BY <2>1, <3>5, <3>8
  <2>2. CASE trigger_mode # "GC"
    <3>1. f \in Tstamps /\ Normal(f) /\ f.frac_nanoseconds = 0
      BY <1>2 DEF Times0
    <3>2. /\ g \in Tstamps /\ g.seconds = f.seconds + 1 /\ g.nanoseconds = f.nanoseconds
          /\ g.frac_nanoseconds = 0
      BY <2>2, <3>1 DEF AtNextTrigger, Tstamps
    <3>3. g \in Times0 /\ g.nanoseconds = n % SEC
      BY <1>2, <2>2, <3>1, <3>2 DEF Times0, Normal
    <3>4. RegValueUnmasked(g) = (f.seconds + 1) * SEC + f.nanoseconds
      BY <3>2 DEF RegValueUnmasked
    <3>5. RegValueUnmasked(g) = n + SEC
      <4>1. f.seconds \in Int /\ f.nanoseconds \in Int /\ n = f.seconds * SEC + f.nanoseconds
        BY <1>2, <3>1 DEF RegValueUnmasked, Tstamps
      <4> QED
        BY <1>1, <3>4, <4>1
    <3> QED
      BY <2>2, <3>3, <3>5
  <2> QED
    BY <2>1, <2>2
<1> HIDE DEF g
<1>4. g \in Tstamps /\ Normal(g) /\ g.frac_nanoseconds = 0
  BY <1>3 DEF Times0
<1>5. u \in Tstamps /\ Normal(u) /\ u.frac_nanoseconds = 0
  <2>1. u \in Tstamps /\ Normal(u)
    BY <1>4, AdjustExact
  <2>2. u.frac_nanoseconds = g.frac_nanoseconds
    BY DEF AdjustBy, NsAdded, Tstamp
  <2> QED
    BY <1>4, <2>1, <2>2
<1>6. u \in Times0
  BY <1>5 DEF Times0
<1> SUFFICES ASSUME IF trigger_mode = "GC" THEN delta < SEC ELSE n % SEC = 0
             PROVE  RegValue(u) = (n + h + delta) % Mod
  BY <1>6 DEF f, g
<1>7. ~SecondsDropped(g, delta * FRAC)
  <2>1. (delta * FRAC) \div FRAC = delta
    BY <1>1, DivExact
  <2>2. DeltaNs(delta) \in Int /\ DeltaNs(delta) < SEC
    BY DeltaParts
  <2>3. CASE trigger_mode = "GC"
    BY <1>1, <2>1, <2>3 DEF SecondsDropped
  <2>4. CASE trigger_mode # "GC"
    BY <1>1, <1>3, <2>2, <2>4 DEF SecondsDropped
  <2> QED
    BY <2>3, <2>4
<1>8. Instant(u) = Instant(g) + delta * FRAC
  BY <1>4, <1>7, AdjustExact
<1>9. RegValueUnmasked(u) = n + h + delta
  <2> DEFINE x == RegValueUnmasked(u)
  <2>1. x \in Int /\ x * FRAC = (n + h) * FRAC + delta * FRAC
    BY <1>3, <1>6, <1>8, WholeInstant
  <2> HIDE DEF x, h
  <2>2. FRAC * (x - n - h - delta) = 0
    BY <1>1, <2>1
  <2>3. x - n - h - delta = 0
    BY <1>1, <2>1, <2>2
  <2>4. x = n + h + delta
    BY <1>1, <2>1, <2>3
  <2> QED
    BY <2>4 DEF x
<1> QED
  BY <1>5, <1>9, RegValueFacts
-----------------------------------------------------------------------------
(***************************************************************************)
(* Types and the handshake with the trigger.                               *)
(***************************************************************************)

\* What a call has in tstamp is a time without a fraction.
LEMMA TstampTimes ==
    /\ TodTypeOK /\ CallType => tstamp \in Times0
    /\ \A u \in Times0 : /\ u \in Tstamps /\ Normal(u)
                         /\ u.nanoseconds \in 0 .. SEC - 1 /\ u.frac_nanoseconds = 0
<1>1. FRAC \in Nat \ {0}
  BY TstampConstants
<1> QED
  BY <1>1 DEF TodTypeOK, CallType, Times0, Normal

\* TodTypeOK in two parts: numbers, and the rest.
TodRange ==
    /\ tod \in 0 .. Mod - 1 /\ stat_tv \in 0 .. Mod - 1
    /\ gcLeft \in 0 .. DelayTick
    /\ tstamp.nanoseconds \in 0 .. SEC - 1
    /\ lat \in 0 .. MaxLat

TodModes ==
    /\ trigger_mode \in TrigModes
    /\ armed \in {"none", "RD", "WR"} /\ op \in {"RD", "WR"}
    /\ fired \in BOOLEAN /\ err \in BOOLEAN
    /\ pc \in {"idle", "gc", "arm", "delay", "poll", "late", "clear", "ret"}
    /\ call \in {"get", "set", "adj"}

LEMMA TodTypeParts == /\ TodTypeOK <=> TodRange /\ TodModes
                      /\ TodTypeOK' <=> TodRange' /\ TodModes'
BY DEF TodTypeOK, TodRange, TodModes

LEMMA TodInitBase == TodInit => TodBase
<1> SUFFICES ASSUME TodInit PROVE TodBase
  OBVIOUS
<1>1. FromTicks(0) \in Times0
  BY FromTicksFacts
<1>2. tstamp \in Tstamps /\ tstamp.nanoseconds \in 0 .. SEC - 1 /\ tstamp.frac_nanoseconds = 0
  BY <1>1, TstampTimes DEF TodInit
<1>3. TodTypeOK
  <2>1. TodRange
    BY <1>2, ModFacts DEF TodInit, TodRange
  <2>2. TodModes
    BY DEF TodInit, TodModes
  <2> QED
    BY <2>1, <2>2, TodTypeParts
<1>4. CallType
  BY <1>2, ModFacts DEF TodInit, CallType
<1>5. Handshake
  BY DEF TodInit, Handshake, Pending, Returns
<1> QED
  BY <1>3, <1>4, <1>5 DEF TodBase

\* The arguments of the calls
LEMMA CallCases ==
    ASSUME TodNext
    PROVE  \/ Tick \/ SetGc \/ Arm \/ PollStart \/ PollRead \/ PollLate \/ Clear \/ Return
           \/ \E c \in {"get", "set", "adj"}, x \in Int :
                 /\ Call(c, x)
                 /\ c = "get" => x = 0
                 /\ c = "set" => x \in Nat
                 /\ c = "adj" => x \in Deltas \/ -x \in Deltas
BY TodConstants DEF TodNext, Step

LEMMA TodBaseStep == TodBase /\ [TodNext]_todVars => TodBase'
<1> SUFFICES ASSUME TodBase, [TodNext]_todVars PROVE TodBase'
  OBVIOUS
<1> USE DEF hwVars, drvVars
<1>1. TodTypeOK /\ TodRange /\ TodModes /\ CallType /\ Handshake
  BY TodTypeParts DEF TodBase
<1>2. tstamp \in Times0 /\ FromTicks(0) \in Times0
  BY <1>1, TstampTimes, FromTicksFacts
<1>3. CASE Tick
  <2>1. /\ tod' \in 0 .. Mod - 1 /\ stat_tv' \in 0 .. Mod - 1
    <3>1. tod + 1 \in Int /\ Mod \in Nat \ {0}
      BY <1>1, ModFacts DEF TodRange
    <3>2. (tod + 1) % Mod \in 0 .. Mod - 1
      BY <3>1, DivMod
    <3>3. RegValue(tstamp) \in 0 .. Mod - 1
      BY <1>2, TstampTimes, RegValueFacts
    <3> QED
      BY <1>1, <1>3, <3>2, <3>3 DEF Tick, TodRange
  <2>2. fired' \in BOOLEAN /\ (fired' => Pending)
    BY <1>1, <1>3 DEF Tick, Triggered, Handshake, TodTypeOK, Pending
  <2>3. gcLeft' \in 0 .. DelayTick /\ lat' \in 0 .. MaxLat
    BY <1>1, <1>3, ModFacts DEF Tick, TodTypeOK
  <2>4. ref' \in Int /\ age' \in 0 .. MaxAge /\ timer' \in Nat
    <3>1. (ref + 1) % Mod \in Int
      BY <1>1, ModFacts, DivMod DEF CallType
    <3> QED
      BY <1>1, <1>3, <3>1, ModFacts DEF Tick, CallType
  <2>5. TodTypeOK'
    <3>1. TodRange'
      BY <1>1, <1>3, <2>1, <2>3 DEF Tick, TodRange
    <3>2. TodModes'
      BY <1>1, <1>3, <2>2 DEF Tick, TodModes
    <3> QED
      BY <3>1, <3>2, TodTypeParts
  <2>6. CallType'
    BY <1>1, <1>3, <2>4 DEF Tick, CallType
  <2>7. fired => fired'
    BY <1>3 DEF Tick
  <2>8. Handshake'
    BY <1>1, <1>3, <2>2, <2>7 DEF Tick, Handshake, Pending, Returns
  <2> QED
    BY <2>5, <2>6, <2>8 DEF TodBase
<1>4. CASE SetGc
  <2>1. TodTypeOK' /\ CallType'
    <3>1. TodRange' /\ CallType'
      BY <1>1, <1>4, ModFacts DEF SetGc, TargetIn, TodRange, CallType
    <3>2. TodModes'
      BY <1>1, <1>4 DEF SetGc, TodModes
    <3> QED
      BY <3>1, <3>2, TodTypeParts
  <2>2. Handshake'
    BY <1>1, <1>4 DEF SetGc, Handshake, Pending, Returns
  <2> QED
    BY <2>1, <2>2 DEF TodBase
<1>5. CASE Arm
  <2>1. TodTypeOK' /\ CallType'
    <3>1. TodRange' /\ CallType'
      BY <1>1, <1>5, ModFacts DEF Arm, TodRange, CallType
    <3>2. TodModes'
      BY <1>1, <1>5 DEF Arm, TodModes
    <3> QED
      BY <3>1, <3>2, TodTypeParts
  <2>2. Handshake'
    BY <1>1, <1>5 DEF Arm, Handshake, Pending, Returns
  <2> QED
    BY <2>1, <2>2 DEF TodBase
<1>6. CASE PollStart \/ PollRead \/ PollLate
  <2>1. TodTypeOK' /\ CallType'
    <3>1. TodRange' /\ CallType'
      BY <1>1, <1>6, ModFacts DEF PollStart, PollRead, PollLate, TodRange, CallType
    <3>2. TodModes'
      BY <1>1, <1>6 DEF PollStart, PollRead, PollLate, TodModes
    <3> QED
      BY <3>1, <3>2, TodTypeParts
  <2>2. Handshake'
    BY <1>1, <1>6 DEF PollStart, PollRead, PollLate, Going, Handshake, Pending, Returns
  <2> QED
    BY <2>1, <2>2 DEF TodBase
<1>7. CASE Clear
  <2>1. stat_tv \in Int /\ arg \in Int
    BY <1>1 DEF TodTypeOK, CallType
  <2>2. tstamp' \in Times0
    BY <1>2, <1>7, <2>1, AdjustedTime, FromTicksFacts DEF Clear
  <2>3. /\ tstamp' \in Tstamps /\ tstamp'.nanoseconds \in 0 .. SEC - 1
        /\ tstamp'.frac_nanoseconds = 0
    BY <2>2, TstampTimes
  <2>4. TodTypeOK'
    <3>1. TodRange'
      BY <1>1, <1>7, <2>3, ModFacts DEF Clear, TodRange
    <3>2. TodModes'
      BY <1>1, <1>7 DEF Clear, FirstStep, TodModes
    <3> QED
      BY <3>1, <3>2, TodTypeParts
  <2>5. CallType'
    BY <1>1, <1>7, <2>3, ModFacts DEF Clear, CallType
  <2>6. Handshake'
    BY <1>1, <1>7 DEF Clear, FirstStep, Handshake, Pending, Returns, TodTypeOK
  <2> QED
    BY <2>4, <2>5, <2>6 DEF TodBase
<1>8. CASE Return
  <2>1. /\ FromTicks(0) \in Tstamps /\ FromTicks(0).nanoseconds \in 0 .. SEC - 1
        /\ FromTicks(0).frac_nanoseconds = 0
    BY <1>2, TstampTimes
  <2>2. TodTypeOK' /\ CallType'
    <3>1. TodRange' /\ CallType'
      BY <1>1, <1>8, <2>1, ModFacts DEF Return, TodRange, CallType
    <3>2. TodModes'
      BY <1>1, <1>8 DEF Return, TodModes
    <3> QED
      BY <3>1, <3>2, TodTypeParts
  <2>3. Handshake'
    BY <1>1, <1>8 DEF Return, Handshake, Pending, Returns
  <2> QED
    BY <2>2, <2>3 DEF TodBase
<1>9. ASSUME NEW c \in {"get", "set", "adj"}, NEW x \in Int, Call(c, x)
      PROVE  TodBase'
  <2>1. tstamp' \in Times0
    BY <1>9, FromTicksFacts DEF Call
  <2>2. /\ tstamp' \in Tstamps /\ tstamp'.nanoseconds \in 0 .. SEC - 1
        /\ tstamp'.frac_nanoseconds = 0
    BY <2>1, TstampTimes
  <2>3. ref' \in Int
    <3>1. (tod + x) % Mod \in Int
      BY <1>1, ModFacts, DivMod DEF TodTypeOK
    <3> QED
      BY <1>9, <3>1 DEF Call
  <2>4. TodTypeOK'
    <3>1. TodRange'
      BY <1>1, <1>9, <2>2, ModFacts DEF Call, TodRange
    <3>2. TodModes'
      BY <1>1, <1>9 DEF Call, FirstStep, TodModes
    <3> QED
      BY <3>1, <3>2, TodTypeParts
  <2>5. CallType'
    BY <1>1, <1>9, <2>2, <2>3, ModFacts DEF Call, CallType
  <2>6. Handshake'
    BY <1>1, <1>9 DEF Call, FirstStep, Handshake, Pending, Returns, TodTypeOK
  <2> QED
    BY <2>4, <2>5, <2>6 DEF TodBase
<1>10. CASE UNCHANGED todVars
  BY <1>1, <1>10 DEF todVars, TodBase, TodTypeOK, CallType, Handshake, Pending, Returns
<1> QED
  BY <1>3, <1>4, <1>5, <1>6, <1>7, <1>8, <1>9, <1>10, CallCases

LEMMA TodBaseAlways == TodSpec => []TodBase
BY TodInitBase, TodBaseStep, PTL DEF TodSpec

\* The counter and the latched time stay in their range, the nanoseconds of
\* a timestamp below a second, and the trigger within its delay, whatever
\* the order of calls, triggers and timeouts.
THEOREM TodTypes == TodSpec => []TodTypeOK
<1>1. TodBase => TodTypeOK
  BY DEF TodBase
<1> QED
  BY <1>1, TodBaseAlways, PTL
-----------------------------------------------------------------------------
(***************************************************************************)
(* A tick.                                                                 *)
(***************************************************************************)

\* Congruence as a multiple of the range.
LEMMA GapZero ==
    ASSUME NEW a \in Int, NEW b \in Int
    PROVE  Gap(a, b) = 0 <=> \E k \in Int : a = b + Mod * k
<1>1. Mod \in Nat \ {0}
  BY ModFacts
<1> DEFINE d == a - b
           p == d \div Mod
           s == d % Mod
<1>2. d \in Int /\ p \in Int /\ s \in Int /\ d = Mod * p + s
  <2>1. d \in Int
    OBVIOUS
  <2> HIDE DEF d
  <2> QED
    BY <1>1, <2>1, DivMod
<1>3. ASSUME Gap(a, b) = 0 PROVE \E k \in Int : a = b + Mod * k
  <2>1. s = 0
    BY <1>3 DEF Gap
  <2> HIDE DEF p, s
  <2>2. a = b + Mod * p
    BY <1>1, <1>2, <2>1
  <2> QED
    BY <1>2, <2>2
<1>4. ASSUME NEW k \in Int, a = b + Mod * k PROVE Gap(a, b) = 0
  <2> DEFINE z == 0
  <2>1. z \in 0 .. Mod - 1 /\ d = Mod * k + z
    BY <1>1, <1>4
  <2>2. d % Mod = z
    <3> HIDE DEF d, z
    <3> QED
      BY <1>1, <1>2, <2>1, ModUnique
  <2> QED
    BY <2>2 DEF Gap
<1> QED
  BY <1>3, <1>4

\* A gap does not change when its ends move together, nor by multiples of
\* the range.
LEMMA GapMoves ==
    ASSUME NEW a \in Int, NEW b \in Int, NEW c \in Int
    PROVE  /\ Gap(a, a) = 0
           /\ Gap((a + 1) % Mod, ((b + 1) % Mod) + c) = Gap(a, b + c)
           /\ Gap((a + 1) % Mod, b + (c + 1)) = Gap(a, b + c)
<1>1. Mod \in Nat \ {0}
  BY ModFacts
<1>2. Gap(a, a) = 0
  <2>1. a = a + Mod * 0
    BY <1>1
  <2> QED
    BY <2>1, GapZero
<1> DEFINE e == a + 1
           f == b + 1
           r == e % Mod
           s == f % Mod
           p == e \div Mod
           q == f \div Mod
           x == a - (b + c)
           y == r - (s + c)
           w == r - (b + (c + 1))
<1>3. e \in Int /\ f \in Int
  OBVIOUS
<1>4. p \in Int /\ r \in Int /\ e = Mod * p + r /\ q \in Int /\ s \in Int /\ f = Mod * q + s
  <2> HIDE DEF e, f
  <2> QED
    BY <1>1, <1>3, DivMod
<1>5. r = a + 1 - Mod * p /\ s = b + 1 - Mod * q
  <2> HIDE DEF p, q, r, s
  <2> QED
    BY <1>1, <1>4
<1> HIDE DEF p, q, r, s
<1>6. x \in Int /\ y \in Int /\ w \in Int /\ q - p \in Int /\ -p \in Int
  BY <1>4
<1>7. y = x + Mod * (q - p) /\ w = x + Mod * (-p)
  BY <1>1, <1>4, <1>5
<1>8. y % Mod = x % Mod /\ w % Mod = x % Mod
  <2> DEFINE k == q - p
             l == -p
  <2>1. k \in Int /\ l \in Int /\ y = x + Mod * k /\ w = x + Mod * l
    BY <1>6, <1>7
  <2> HIDE DEF x, y, w, k, l
  <2> QED
    BY <1>1, <1>6, <2>1, ModShift
<1> QED
  BY <1>2, <1>8 DEF Gap, r, s

\* What a tick does.
TickRuns  == fired' = fired /\ tod' = (tod + 1) % Mod /\ stat_tv' = stat_tv
TickReads ==
    /\ Pending /\ op = "RD" /\ ~fired /\ fired'
    /\ tod' = (tod + 1) % Mod /\ stat_tv' = (tod + 1) % Mod
TickWrites ==
    /\ Pending /\ op = "WR" /\ ~fired /\ fired'
    /\ tod' = RegValue(tstamp) /\ stat_tv' = stat_tv
TriggerNow == IF trigger_mode = "GC" THEN gcLeft = 1 ELSE ((tod + 1) % Mod) % SEC = 0

LEMMA TickFacts ==
    ASSUME TodBase, Tick
    PROVE  /\ UNCHANGED <<trigger_mode, pc, op, call, arg, tstamp, err>>
           /\ \/ TickRuns /\ (Pending /\ ~fired => ~TriggerNow)
              \/ (TickReads \/ TickWrites) /\ TriggerNow
           /\ pc # "idle" => /\ ref' = (ref + 1) % Mod
                             /\ age' = age + 1 \/ age' = MaxAge
                             /\ age' \in Nat /\ age' >= age /\ age' <= MaxAge
           /\ gcLeft' \in Nat /\ gcLeft' + 1 >= gcLeft /\ (gcLeft > 0 => gcLeft' = gcLeft - 1)
<1> USE DEF hwVars, drvVars
<1>1. TodRange /\ TodModes /\ CallType /\ Handshake
  BY TodTypeParts DEF TodBase
<1>2. UNCHANGED <<trigger_mode, pc, op, call, arg, tstamp, err>>
  BY DEF Tick
<1>3. pc # "idle" => /\ ref' = (ref + 1) % Mod
                     /\ age' = age + 1 \/ age' = MaxAge
                     /\ age' \in Nat /\ age' >= age /\ age' <= MaxAge
  BY <1>1, ModFacts DEF Tick, CallType
<1>4. gcLeft' \in Nat /\ gcLeft' + 1 >= gcLeft /\ (gcLeft > 0 => gcLeft' = gcLeft - 1)
  BY <1>1, ModFacts DEF Tick, TodRange
<1>5. \/ TickRuns /\ (Pending /\ ~fired => ~TriggerNow)
      \/ (TickReads \/ TickWrites) /\ TriggerNow
  <2> DEFINE next == (tod + 1) % Mod
  <2>1. Triggered(next) <=> Pending /\ ~fired /\ TriggerNow
    BY <1>1 DEF Triggered, TriggerNow, Handshake, TodModes
  <2>2. /\ tod' = IF Triggered(next) /\ armed = "WR" THEN RegValue(tstamp) ELSE next
        /\ stat_tv' = IF Triggered(next) /\ armed = "RD" THEN next ELSE stat_tv
        /\ fired' = (fired \/ Triggered(next))
    BY DEF Tick
  <2> HIDE DEF next
  <2>3. CASE Triggered(next)
    <3>1. armed = op /\ op \in {"RD", "WR"}
      BY <1>1, <2>1, <2>3 DEF Handshake, TodModes
    <3> QED
      BY <2>1, <2>2, <2>3, <3>1 DEF TickReads, TickWrites, next
  <2>4. CASE ~Triggered(next)
    <3>1. fired' = fired
      BY <1>1, <2>2, <2>4 DEF TodModes
    <3> QED
      BY <2>1, <2>2, <2>4, <3>1 DEF TickRuns, next
  <2> QED
    BY <2>3, <2>4
<1> QED
  BY <1>2, <1>3, <1>4, <1>5

\* A time that was passed at most age ticks ago
LEMMA GapAges ==
    ASSUME TodBase, Tick, pc # "idle", NEW x \in Int, Gap(ref, x) <= age
    PROVE  Gap(ref', x) <= age'
<1>1. ref \in Int /\ age \in Nat /\ Gap(ref, x) \in Nat /\ age' \in Nat
  BY ModFacts, GapFacts, TickFacts DEF TodBase, CallType
<1>2. ref' = (ref + 1) % Mod /\ (age' = age + 1 \/ age' = MaxAge)
  BY TickFacts
<1>3. Gap(ref', x) \in 0 .. Gap(ref, x) + 1
  BY <1>1, <1>2, GapFacts
<1>4. Gap(ref', x) \in 0 .. Mod - 1
  <2>1. ref' \in Int
    BY <1>1, <1>2, ModFacts, GapFacts
  <2> QED
    BY <2>1, GapFacts
<1> QED
  BY <1>1, <1>2, <1>3, <1>4, ModFacts

\* The counter runs with the time of the call.
LEMMA GapRuns ==
    ASSUME TodBase, Tick, pc # "idle", tod' = (tod + 1) % Mod
    PROVE  /\ Gap(ref', tod') = Gap(ref, tod)
           /\ Gap(ref', tod' + arg) = Gap(ref, tod + arg)
<1>1. ref \in Int /\ tod \in Int /\ arg \in Int
  BY TodTypeParts, ModFacts DEF TodBase, CallType, TodRange
<1>2. ref' = (ref + 1) % Mod
  BY TickFacts
<1> QED
  BY <1>1, <1>2, GapFacts, GapMoves
-----------------------------------------------------------------------------
(***************************************************************************)
(* adi_tod_gettimex and adi_tod_settime.                                   *)
(***************************************************************************)

\* Steps of the driver on its way to Clear: nothing but pc, the trigger and
\* the timeout.
Polling == SetGc \/ Arm \/ PollStart \/ PollRead \/ PollLate

LEMMA PollingFacts ==
    ASSUME TodBase, Polling
    PROVE  /\ UNCHANGED <<trigger_mode, tod, stat_tv, fired, op, call, arg, tstamp, age, ref>>
           /\ pc \notin {"idle", "ret"} /\ pc' \notin {"idle", "ret", "gc"}
           /\ ~fired => pc' # "arm" \/ pc = "gc"
BY DEF Polling, SetGc, Arm, PollStart, PollRead, PollLate, hwVars

LEMMA GetStep ==
    ASSUME TodBase, TodBase', GetInv, [TodNext]_todVars
    PROVE  GetInv'
<1> USE DEF hwVars, drvVars
<1>1. TodRange /\ TodModes /\ CallType /\ Handshake
  BY TodTypeParts DEF TodBase
<1>2. ref \in Int /\ tod \in Int /\ stat_tv \in Int /\ age \in Nat
  BY <1>1, ModFacts DEF TodRange, CallType
<1> SUFFICES ASSUME call' = "get", pc' # "idle"
             PROVE  /\ ref' = tod'
                    /\ fired' => Gap(ref', stat_tv') <= age'
                    /\ pc' = "ret" /\ ~err' => Gap(ref', RegValueUnmasked(tstamp')) <= age'
  BY DEF GetInv, Returns, RegValueUnmasked, Gap
<1>3. CASE Tick
  <2>1. call = "get" /\ pc # "idle" /\ op = "RD" /\ UNCHANGED <<pc, op, call, tstamp, err>>
    BY <1>1, <1>3, TickFacts DEF Handshake
  <2>2. ref = tod /\ (fired => Gap(ref, stat_tv) <= age)
        /\ (pc = "ret" /\ ~err => Gap(ref, RegValueUnmasked(tstamp)) <= age)
    BY <2>1 DEF GetInv, Returns
  <2>3. ref' = (ref + 1) % Mod /\ age' \in Nat
    BY <1>3, <2>1, TickFacts
  <2>4. ref' = tod'
    BY <1>3, <2>1, <2>2, <2>3, TickFacts DEF TickRuns, TickReads, TickWrites
  <2>5. ASSUME fired' PROVE Gap(ref', stat_tv') <= age'
    <3>1. CASE TickReads
      <4>1. stat_tv' = ref' /\ ref' \in Int
        BY <1>2, <2>2, <2>3, <3>1, GapFacts, ModFacts DEF TickReads
      <4>2. Gap(ref', ref') = 0
        BY <4>1, GapMoves
      <4> QED
        BY <2>3, <4>1, <4>2
    <3>2. CASE TickRuns
      BY <1>2, <1>3, <2>1, <2>2, <2>5, <3>2, GapAges DEF TickRuns
    <3> QED
      BY <1>3, <2>1, <3>1, <3>2, TickFacts DEF TickWrites
  <2>6. ASSUME pc' = "ret", ~err' PROVE Gap(ref', RegValueUnmasked(tstamp')) <= age'
    <3>1. RegValueUnmasked(tstamp) \in Int /\ tstamp' = tstamp
      BY <1>1, <2>1, TodTypeParts, TstampTimes, RegValueFacts
    <3> QED
      BY <1>3, <2>1, <2>2, <2>6, <3>1, GapAges
  <2> QED
    BY <2>4, <2>5, <2>6
<1>4. CASE Polling
  BY <1>4, PollingFacts DEF GetInv
<1>5. CASE Clear
  <2>1. call = "get" /\ op = "RD" /\ UNCHANGED <<call, tod, stat_tv, err, age, ref>> /\ ~fired'
        /\ pc = "clear" /\ (~err => tstamp' = FromTicks(stat_tv))
    BY <1>1, <1>5 DEF Clear, Handshake
  <2>2. RegValueUnmasked(FromTicks(stat_tv)) = stat_tv
    BY <1>2, FromTicksFacts
  <2> QED
    BY <1>1, <2>1, <2>2 DEF GetInv, Handshake
<1>6. CASE Return
  BY <1>6 DEF Return
<1>7. ASSUME NEW c \in {"get", "set", "adj"}, NEW x \in Int, Call(c, x), c = "get" => x = 0
      PROVE  /\ ref' = tod'
             /\ fired' => Gap(ref', stat_tv') <= age'
             /\ pc' = "ret" /\ ~err' => Gap(ref', RegValueUnmasked(tstamp')) <= age'
  <2>1. c = "get" /\ x = 0 /\ pc = "idle" /\ ref' = (tod + x) % Mod /\ tod' = tod
        /\ fired' = fired /\ pc' \in {"gc", "arm"}
    BY <1>7 DEF Call, FirstStep
  <2>2. ~fired
    BY <1>1, <2>1 DEF Handshake, Pending
  <2>3. tod % Mod = tod
    BY <1>1, ModFacts DEF TodRange
  <2>4. tod + x = tod
    BY <1>2, <2>1
  <2> QED
    BY <2>1, <2>2, <2>3, <2>4
<1>8. CASE UNCHANGED todVars
  BY <1>8 DEF todVars, GetInv, Returns
<1> QED
  BY <1>3, <1>4, <1>5, <1>6, <1>7, <1>8, CallCases DEF Polling

LEMMA SetStep ==
    ASSUME TodBase, TodBase', SetInv, [TodNext]_todVars
    PROVE  SetInv'
<1> USE DEF hwVars, drvVars
<1>1. TodRange /\ TodModes /\ CallType /\ Handshake
  BY TodTypeParts DEF TodBase
<1>2. ref \in Int /\ tod \in Int /\ age \in Nat
  BY <1>1, ModFacts DEF TodRange, CallType
<1> SUFFICES ASSUME call' = "set"
             PROVE  /\ arg' \in Nat /\ tstamp' = FromTicks(arg') /\ Gap(ref', arg') <= age'
                    /\ Effective' => Gap(ref', tod') <= age'
  BY DEF SetInv, FromTicks, Gap
<1>3. CASE Tick
  <2>1. call = "set" /\ pc # "idle" /\ op = "WR"
        /\ UNCHANGED <<pc, op, call, arg, tstamp, err>>
    BY <1>1, <1>3, TickFacts DEF Handshake
  <2>2. /\ arg \in Nat /\ tstamp = FromTicks(arg) /\ Gap(ref, arg) <= age
        /\ Effective => Gap(ref, tod) <= age
    BY <2>1 DEF SetInv
  <2>3. Gap(ref', arg) <= age'
    BY <1>3, <2>1, <2>2, GapAges
  <2>4. ref' \in Int /\ age' \in Nat /\ age' >= age
    BY <1>2, <1>3, <2>1, TickFacts, GapFacts, ModFacts
  <2>5. ASSUME Effective' PROVE Gap(ref', tod') <= age'
    <3>1. CASE TickWrites
      <4>1. tod' = arg % Mod
        BY <2>2, <3>1, FromTicksFacts DEF TickWrites
      <4> QED
        BY <2>2, <2>3, <2>4, <4>1, GapFacts
    <3>2. CASE TickRuns
      <4>1. Effective
        BY <2>1, <2>5, <3>2 DEF Effective, TickRuns
      <4>2. Gap(ref', tod') = Gap(ref, tod)
        BY <1>3, <2>1, <3>2, GapRuns DEF TickRuns
      <4>3. Gap(ref, tod) \in Int
        BY <1>2, GapFacts, ModFacts
      <4> QED
        BY <1>2, <2>2, <2>4, <4>1, <4>2, <4>3
    <3> QED
      BY <1>3, <2>1, <3>1, <3>2, TickFacts DEF TickReads
  <2> QED
    BY <2>1, <2>2, <2>3, <2>5
<1>4. CASE Polling
  <2>1. Effective' => Effective
    BY <1>4, PollingFacts DEF Effective
  <2> QED
    BY <1>4, <2>1, PollingFacts DEF SetInv
<1>5. CASE Clear
  <2>1. call = "set" /\ op = "WR" /\ UNCHANGED <<call, arg, tstamp, tod, err, age, ref>>
        /\ ~fired' /\ pc = "clear"
    BY <1>1, <1>5 DEF Clear, Handshake
  <2>2. Effective' => Effective
    BY <1>1, <2>1 DEF Effective, Handshake
  <2> QED
    BY <2>1, <2>2 DEF SetInv
<1>6. CASE Return
  BY <1>6 DEF Return
<1>7. ASSUME NEW c \in {"get", "set", "adj"}, NEW x \in Int, Call(c, x), c = "set" => x \in Nat
      PROVE  /\ arg' \in Nat /\ tstamp' = FromTicks(arg') /\ Gap(ref', arg') <= age'
             /\ Effective' => Gap(ref', tod') <= age'
  <2>1. c = "set" /\ x \in Nat /\ pc = "idle" /\ ref' = x /\ arg' = x /\ tstamp' = FromTicks(x)
        /\ fired' = fired /\ pc' \in {"gc", "arm"} /\ age' = 0
    BY <1>7 DEF Call, FirstStep
  <2>2. ~Effective'
    BY <1>1, <2>1 DEF Handshake, Pending, Effective
  <2>3. Gap(x, x) = 0
    BY GapMoves
  <2> QED
    BY <2>1, <2>2, <2>3
<1>8. CASE UNCHANGED todVars
  BY <1>8 DEF todVars, SetInv, Effective
<1> QED
  BY <1>3, <1>4, <1>5, <1>6, <1>7, <1>8, CallCases DEF Polling

LEMMA CallsAlways == TodSpec => [](TodBase /\ GetInv /\ SetInv)
<1>1. TodInit => GetInv /\ SetInv
  BY DEF TodInit, GetInv, SetInv
<1>2. TodBase /\ GetInv /\ SetInv /\ [TodNext]_todVars => TodBase' /\ GetInv' /\ SetInv'
  BY TodBaseStep, GetStep, SetStep
<1> QED
  BY <1>1, <1>2, TodInitBase, PTL DEF TodSpec

\* adi_tod_gettimex never returns a time latched for an earlier call, or one
\* that the clock did not show during the call, for any timing of triggers
\* and timeouts.  (With a single fraction the timestamp would be rounded up.)
THEOREM TodReadFresh ==
    ASSUME FRAC > 1
    PROVE  TodSpec => []ReadFresh
<1>1. TodBase /\ GetInv => ReadFresh
  <2> SUFFICES ASSUME TodBase, GetInv, Returns("get")
               PROVE  LET ts == ToTimespec(tstamp)
                      IN  Behind(ts.tv_sec * SEC + ts.tv_nsec) <= age
    BY DEF ReadFresh
  <2>1. tstamp.frac_nanoseconds = 0 /\ FRAC \in Nat
    BY TstampConstants DEF TodBase, CallType
  <2>2. 0 < FRAC \div 2
    BY <2>1
  <2>3. ToTimespec(tstamp).tv_sec = tstamp.seconds /\ ToTimespec(tstamp).tv_nsec = tstamp.nanoseconds
    BY <2>1, <2>2 DEF ToTimespec, RoundDown
  <2>4. Gap(ref, RegValueUnmasked(tstamp)) <= age
    BY DEF GetInv, Returns
  <2> QED
    BY <2>3, <2>4 DEF RegValueUnmasked, Behind, Gap
<1> QED
  BY <1>1, CallsAlways, PTL

\* When adi_tod_settime returns without an error the ToD counter was set
\* during this call and has only run since.
THEOREM TodSetTakesEffect == TodSpec => []SetTakesEffect
<1>1. SetInv => SetTakesEffect
  BY DEF SetInv, SetTakesEffect, Returns, Effective, Behind, Gap
<1> QED
  BY <1>1, CallsAlways, PTL
-----------------------------------------------------------------------------
(***************************************************************************)
(* adi_tod_adjtime.                                                        *)
(***************************************************************************)

\* With the GC trigger a delta of seconds may be lost to a carry.
AdjArg == call = "adj" /\ trigger_mode = "GC" => arg < SEC

\* A time and its remainder
LEMMA GapMod ==
    ASSUME NEW a \in Int
    PROVE  a % Mod \in Int /\ Gap(a % Mod, a) = 0
<1> DEFINE r == a % Mod
           p == a \div Mod
           k == -p
<1>1. Mod \in Nat \ {0}
  BY ModFacts
<1>2. p \in Int /\ r \in Int /\ a = Mod * p + r
  BY <1>1, DivMod
<1> HIDE DEF p, r
<1>3. k \in Int /\ r = a + Mod * k
  BY <1>1, <1>2
<1> HIDE DEF k
<1>4. Gap(r, a) = 0
  BY <1>2, <1>3, GapZero
<1> QED
  BY <1>2, <1>4 DEF r

LEMMA AdjAheadStep ==
    ASSUME TodBase, AdjAhead, [TodNext]_todVars
    PROVE  AdjAhead'
<1> USE DEF hwVars, drvVars
<1>1. TodRange /\ TodModes /\ CallType /\ Handshake
  BY TodTypeParts DEF TodBase
<1>2. ref \in Int /\ tod \in Int /\ arg \in Int
  BY <1>1, ModFacts DEF TodRange, CallType
<1> SUFFICES ASSUME (AdjRead \/ AdjWrite)' PROVE Gap(ref', tod' + arg') = 0
  BY DEF AdjAhead, Gap
<1>3. CASE Tick
  <2>1. pc # "idle" /\ UNCHANGED <<pc, op, call, arg>>
    BY <1>1, <1>3, TickFacts DEF Handshake, AdjRead, AdjWrite
  <2>2. AdjRead \/ AdjWrite
    BY <1>3, <2>1, TickFacts DEF AdjRead, AdjWrite, TickRuns, TickReads, TickWrites
  <2>3. tod' = (tod + 1) % Mod
    BY <1>3, <2>1, TickFacts DEF AdjRead, AdjWrite, TickRuns, TickReads, TickWrites
  <2> QED
    BY <1>3, <2>1, <2>2, <2>3, GapRuns DEF AdjAhead
<1>4. CASE Polling
  BY <1>4, PollingFacts DEF AdjAhead, AdjRead, AdjWrite
<1>5. CASE Clear
  <2>1. call = "adj" /\ op = "RD" /\ pc = "clear" /\ UNCHANGED <<tod, ref, arg>>
    BY <1>5 DEF Clear, AdjRead, AdjWrite
  <2> QED
    BY <2>1 DEF AdjAhead, AdjRead
<1>6. CASE Return
  BY <1>6 DEF Return, AdjRead, AdjWrite
<1>7. ASSUME NEW c \in {"get", "set", "adj"}, NEW x \in Int, Call(c, x)
      PROVE  Gap(ref', tod' + arg') = 0
  <2>1. ref' = (tod + x) % Mod /\ tod' = tod /\ arg' = x
    BY <1>7 DEF Call, AdjRead, AdjWrite
  <2>2. tod + x \in Int
    BY <1>2
  <2> QED
    BY <2>1, <2>2, GapMod
<1>8. CASE UNCHANGED todVars
  BY <1>8 DEF todVars, AdjAhead, AdjRead, AdjWrite
<1> QED
  BY <1>3, <1>4, <1>5, <1>6, <1>7, <1>8, CallCases DEF Polling

\* A natural number is not less than its remainder.
LEMMA ModLess ==
    ASSUME NEW m \in Nat \ {0}, NEW a \in Nat
    PROVE  a % m \in 0 .. a
<1> DEFINE p == a \div m
           r == a % m
<1>1. p \in Int /\ r \in 0 .. m - 1 /\ a = m * p + r
  BY DivMod
<1> HIDE DEF p, r
<1>2. CASE p >= 0
  <2>1. m * p >= 0
    BY <1>1, <1>2
  <2> QED
    BY <1>1, <2>1 DEF r
<1>3. CASE p <= -1
  <2>1. m * p <= -m
    BY <1>1, <1>3
  <2> QED
    BY <1>1, <2>1
<1> QED
  BY <1>1, <1>2, <1>3

\* The time written with the GC trigger, seen from the tick that writes it:
\* the clock has lost what passed since the read besides the delay.
LEMMA GapAtWrite ==
    ASSUME NEW a \in Int, NEW b \in Int, NEW c \in Int, NEW d \in Int, NEW e \in Nat, NEW h \in Nat,
           Gap(a, b + d) = 0, Gap(b, c + e) = 0, e + 1 >= h
    PROVE  Gap((a + 1) % Mod, (c + h + d) % Mod) <= e + 1 - h
<1>1. Mod \in Nat \ {0}
  BY ModFacts
<1>2. PICK k \in Int : a = (b + d) + Mod * k
  <2>1. b + d \in Int
    OBVIOUS
  <2> QED
    BY <2>1, GapZero
<1>3. PICK l \in Int : b = (c + e) + Mod * l
  <2>1. c + e \in Int
    OBVIOUS
  <2> QED
    BY <2>1, GapZero
<1> DEFINE x == a + 1
           y == c + h + d
           r == x % Mod
           p == x \div Mod
           v == r - y
           w == e + 1 - h
           n == k + l - p
<1>4. x \in Int /\ y \in Int /\ w \in Nat
  OBVIOUS
<1>5. p \in Int /\ r \in Int /\ x = Mod * p + r
  <2> HIDE DEF x
  <2> QED
    BY <1>1, <1>4, DivMod
<1>6. Gap(r, y % Mod) = Gap(r, y)
  <2> HIDE DEF r, y
  <2> QED
    BY <1>4, <1>5, GapFacts
<1> HIDE DEF p, r
<1>7. v \in Int /\ n \in Int /\ v = w + Mod * n
  BY <1>1, <1>2, <1>3, <1>5
<1>8. v % Mod = w % Mod
  <2>1. w \in Int
    BY <1>4
  <2> HIDE DEF v, w, n, x, y
  <2> QED
    BY <1>1, <1>7, <2>1, ModShift
<1>9. w % Mod <= w
  <2> HIDE DEF w
  <2> QED
    BY <1>1, <1>4, ModLess
<1> QED
  BY <1>6, <1>8, <1>9 DEF Gap, r

LEMMA AdjGcTick ==
    ASSUME TodBase, AdjAhead, AdjGc, Tick
    PROVE  AdjGc'
<1>1. TodRange /\ TodModes /\ CallType /\ Handshake
  BY TodTypeParts DEF TodBase
<1>2. /\ ref \in Int /\ tod \in Int /\ arg \in Int /\ stat_tv \in Int /\ age \in Nat
      /\ gcLeft \in Nat
  BY <1>1, ModFacts DEF TodRange, CallType
<1>3. UNCHANGED <<trigger_mode, pc, op, call, arg, tstamp, err>>
  BY TickFacts
<1> SUFFICES ASSUME trigger_mode = "GC", call = "adj", pc # "idle"
             PROVE  AdjGc'
  BY <1>1, <1>3 DEF AdjGc, AdjRead, AdjWrite, AdjDone, Handshake
<1>4. ref' = (ref + 1) % Mod
  BY TickFacts
<1>5. /\ age' = age + 1 \/ age' = MaxAge
      /\ age' \in Nat /\ age' >= age /\ age' <= MaxAge
      /\ gcLeft' \in Nat /\ gcLeft' + 1 >= gcLeft /\ (gcLeft > 0 => gcLeft' = gcLeft - 1)
  BY TickFacts
<1>6. ref' \in Int /\ (tod + 1) % Mod \in Int
  BY <1>2, <1>4, GapFacts, ModFacts
<1>7. (AdjRead /\ pc # "gc" /\ ~fired)' => age' + gcLeft' >= DelayTick
  <2> SUFFICES ASSUME (AdjRead /\ pc # "gc" /\ ~fired)' PROVE age' + gcLeft' >= DelayTick
    OBVIOUS
  <2>1. AdjRead /\ pc # "gc" /\ ~fired
    BY <1>3, TickFacts DEF AdjRead, TickRuns, TickReads, TickWrites
  <2>2. age + gcLeft >= DelayTick
    BY <2>1 DEF AdjGc
  <2>3. DelayTick \in Nat /\ MaxAge \in Nat /\ MaxAge >= DelayTick
    BY ModFacts
  <2>4. \A a, b, c, d \in Nat : a + b >= DelayTick /\ (c = a + 1 \/ c >= DelayTick) /\ d + 1 >= b
                                => c + d >= DelayTick
    BY <2>3
  <2> QED
    BY <1>2, <1>5, <2>2, <2>3, <2>4
<1>8. ASSUME NEW e \in Nat, Since(e), tod' = (tod + 1) % Mod, stat_tv' = stat_tv
      PROVE  e + 1 \in Nat /\ Since(e + 1)'
  <2>1. Gap(tod, stat_tv + e) = 0 /\ (e + DelayTick <= age \/ age = MaxAge)
    BY <1>8 DEF Since
  <2>2. Gap(tod', stat_tv' + (e + 1)) = 0
    BY <1>2, <1>8, <2>1, GapMoves
  <2>3. (e + 1) + DelayTick <= age' \/ age' = MaxAge
    BY <1>1, <1>2, <1>5, <2>1, ModFacts DEF CallType
  <2> QED
    BY <2>2, <2>3 DEF Since, Gap
<1>9. (AdjRead /\ fired)' => \E e \in Nat : Since(e)'
  <2> SUFFICES ASSUME (AdjRead /\ fired)' PROVE \E e \in Nat : Since(e)'
    OBVIOUS
  <2>1. AdjRead
    BY <1>3 DEF AdjRead
  <2>2. CASE TickReads
    <3>1. pc # "gc" /\ ~fired /\ gcLeft = 1
      BY <2>2, TickFacts DEF TickReads, TickRuns, Pending, TriggerNow
    <3>2. age + 1 >= DelayTick
      BY <1>2, <2>1, <3>1 DEF AdjGc
    <3>3. 0 + DelayTick <= age' \/ age' = MaxAge
      BY <1>2, <1>5, <3>2, ModFacts
    <3>4. tod' = stat_tv' /\ tod' \in Int
      BY <1>6, <2>2 DEF TickReads
    <3>5. Gap(tod', stat_tv' + 0) = 0
      <4>1. \A z \in Int : Gap(z, z + 0) = 0
        <5>1. \A z \in Int : z + 0 = z
          OBVIOUS
        <5> QED
          BY <5>1, GapMoves
      <4> QED
        BY <3>4, <4>1
    <3>6. Since(0)'
      BY <3>3, <3>5 DEF Since, Gap
    <3> QED
      BY <3>6
  <2>3. CASE TickRuns
    <3>1. fired
      BY <2>3 DEF TickRuns
    <3>2. PICK e \in Nat : Since(e)
      BY <2>1, <3>1 DEF AdjGc
    <3> QED
      BY <1>8, <2>3, <3>2 DEF TickRuns
  <2> QED
    BY <2>1, <2>2, <2>3, TickFacts DEF TickWrites, AdjRead
<1>10. AdjWrite' => /\ RegValue(tstamp)' = ((stat_tv + DelayTick + arg) % Mod)'
                   /\ \E e \in Nat : Since(e)' /\ (pc' # "gc" => e + gcLeft' >= DelayTick)
  <2> SUFFICES ASSUME AdjWrite'
               PROVE  /\ RegValue(tstamp)' = ((stat_tv + DelayTick + arg) % Mod)'
                      /\ \E e \in Nat : Since(e)' /\ (pc' # "gc" => e + gcLeft' >= DelayTick)
    OBVIOUS
  <2>1. AdjWrite /\ TickRuns
    BY <1>3, TickFacts DEF AdjWrite, TickRuns, TickReads, TickWrites
  <2>2. RegValue(tstamp) = (stat_tv + DelayTick + arg) % Mod
    BY <2>1 DEF AdjGc
  <2>3. PICK e \in Nat : Since(e) /\ (pc # "gc" => e + gcLeft >= DelayTick)
    BY <2>1 DEF AdjGc
  <2>4. e + 1 \in Nat /\ Since(e + 1)'
    BY <1>8, <2>1, <2>3 DEF TickRuns
  <2>5. pc' # "gc" => (e + 1) + gcLeft' >= DelayTick
    <3>1. \A a, b, c \in Nat : a + b >= DelayTick /\ c + 1 >= b => (a + 1) + c >= DelayTick
      BY ModFacts
    <3> QED
      BY <1>2, <1>3, <1>5, <2>3, <3>1
  <2>6. RegValue(tstamp)' = ((stat_tv + DelayTick + arg) % Mod)'
    BY <1>3, <2>1, <2>2 DEF RegValue, TickRuns
  <2> QED
    BY <2>4, <2>5, <2>6
<1>11. AdjDone' => Gap(ref', tod') + 2 * DelayTick <= age'
  <2> SUFFICES ASSUME AdjDone' PROVE Gap(ref', tod') + 2 * DelayTick <= age'
    OBVIOUS
  <2>1. CASE TickWrites
    <3>1. AdjWrite /\ pc # "gc" /\ gcLeft = 1 /\ tod' = RegValue(tstamp)
      BY <2>1, TickFacts DEF AdjWrite, TickWrites, TickRuns, Pending, TriggerNow
    <3>2. PICK e \in Nat : Since(e) /\ e + gcLeft >= DelayTick
      BY <3>1 DEF AdjGc
    <3>3. tod' = (stat_tv + DelayTick + arg) % Mod
      BY <3>1 DEF AdjGc
    <3>4. Gap(ref, tod + arg) = 0
      BY <3>1 DEF AdjAhead
    <3>5. e + 1 >= DelayTick
      BY <3>1, <3>2
    <3>6. Gap(ref', tod') <= e + 1 - DelayTick
      BY <1>2, <1>4, <3>2, <3>3, <3>4, <3>5, GapAtWrite, ModFacts DEF Since
    <3>7. tod' \in Int /\ Gap(ref', tod') \in 0 .. Mod - 1
      <4>1. stat_tv + DelayTick + arg \in Int
        BY <1>2, ModFacts
      <4>2. tod' \in Int
        BY <3>3, <4>1, GapMod
      <4> QED
        BY <1>6, <4>2, GapFacts
    <3>8. e + DelayTick <= age \/ age = MaxAge
      BY <3>2 DEF Since
    <3> QED
      BY <1>1, <1>2, <1>5, <3>5, <3>6, <3>7, <3>8, ModFacts DEF CallType
  <2>2. CASE TickRuns
    <3>1. AdjDone
      BY <1>3, <2>2 DEF AdjDone, Effective, TickRuns
    <3>2. Gap(ref, tod) + 2 * DelayTick <= age
      BY <3>1 DEF AdjGc
    <3>3. Gap(ref', tod') = Gap(ref, tod) /\ Gap(ref, tod) \in 0 .. Mod - 1
      BY <1>2, <2>2, GapRuns, GapFacts DEF TickRuns
    <3> QED
      BY <1>2, <1>5, <3>2, <3>3, ModFacts
  <2> QED
    BY <1>3, <2>1, <2>2, TickFacts DEF TickReads, AdjDone
<1> QED
  BY <1>7, <1>9, <1>10, <1>11 DEF AdjGc, Gap

LEMMA AdjGcStep ==
    ASSUME TodBase, AdjArg, AdjAhead, AdjGc, [TodNext]_todVars
    PROVE  AdjGc'
<1> USE DEF hwVars, drvVars
<1>1. TodRange /\ TodModes /\ CallType /\ Handshake
  BY TodTypeParts DEF TodBase
<1>2. stat_tv \in Int /\ arg \in Int /\ age \in Nat /\ DelayTick \in Nat
  BY <1>1, ModFacts DEF TodRange, CallType
<1>3. CASE Tick
  BY <1>3, AdjGcTick
<1>4. CASE Polling
  <2>1. /\ UNCHANGED <<trigger_mode, tod, stat_tv, fired, op, call, arg, tstamp, age, ref>>
        /\ pc \notin {"idle", "ret"} /\ pc' \notin {"idle", "ret", "gc"}
    BY <1>4, PollingFacts
  <2>2. \A e : Since(e)' <=> Since(e)
    BY <2>1 DEF Since
  <2>3. IF pc = "gc" THEN gcLeft' = DelayTick ELSE gcLeft' = gcLeft
    BY <1>4 DEF Polling, SetGc, TargetIn, Arm, PollStart, PollRead, PollLate
  <2> SUFFICES ASSUME trigger_mode = "GC" PROVE AdjGc'
    BY <2>1 DEF AdjGc
  <2>4. (AdjRead /\ pc # "gc" /\ ~fired)' => age' + gcLeft' >= DelayTick
    BY <1>2, <2>1, <2>3 DEF AdjGc, AdjRead
  <2>5. (AdjRead /\ fired)' => \E e \in Nat : Since(e)'
    BY <2>1, <2>2 DEF AdjGc, AdjRead
  <2>6. AdjWrite' => /\ RegValue(tstamp)' = ((stat_tv + DelayTick + arg) % Mod)'
                     /\ \E e \in Nat : Since(e)' /\ (pc' # "gc" => e + gcLeft' >= DelayTick)
    <3> SUFFICES ASSUME AdjWrite'
                 PROVE  /\ RegValue(tstamp)' = ((stat_tv + DelayTick + arg) % Mod)'
                        /\ \E e \in Nat : Since(e)' /\ (pc' # "gc" => e + gcLeft' >= DelayTick)
      OBVIOUS
    <3>1. AdjWrite
      BY <2>1 DEF AdjWrite
    <3>2. RegValue(tstamp)' = ((stat_tv + DelayTick + arg) % Mod)'
      BY <2>1, <3>1 DEF AdjGc, RegValue
    <3>3. PICK e \in Nat : Since(e) /\ (pc # "gc" => e + gcLeft >= DelayTick)
      BY <3>1 DEF AdjGc
    <3>4. e + DelayTick >= DelayTick
      BY <1>2
    <3>5. e + gcLeft' >= DelayTick
      BY <2>3, <3>3, <3>4
    <3> QED
      BY <2>2, <3>2, <3>3, <3>5
  <2>7. AdjDone' => (Gap(ref, tod) + 2 * DelayTick <= age)'
    BY <2>1 DEF AdjGc, AdjDone, Effective, Gap
  <2> QED
    BY <2>4, <2>5, <2>6, <2>7 DEF AdjGc
<1>5. CASE Clear
  <2>1. /\ pc = "clear" /\ ~fired'
        /\ UNCHANGED <<trigger_mode, tod, stat_tv, call, arg, err, age, ref>>
    BY <1>5 DEF Clear
  <2> SUFFICES ASSUME trigger_mode = "GC", call = "adj" PROVE AdjGc'
    BY <2>1 DEF AdjGc, AdjRead, AdjWrite, AdjDone
  <2>2. CASE op = "RD" /\ ~err
    <3>1. /\ tstamp' = AdjustBy(AtNextTrigger(FromTicks(stat_tv)), arg)
          /\ op' = "WR" /\ pc' = "gc"
      BY <1>5, <2>2 DEF Clear, FirstStep
    <3>2. AdjRead /\ fired
      BY <1>1, <2>1, <2>2 DEF AdjRead, Handshake
    <3>3. arg < SEC
      BY DEF AdjArg
    <3>4. RegValue(tstamp') = (stat_tv + DelayTick + arg) % Mod
      BY <1>2, <3>1, <3>3, AdjustedTime
    <3>5. PICK e \in Nat : Since(e)
      BY <3>2 DEF AdjGc
    <3>6. Since(e)'
      BY <2>1, <3>5 DEF Since
    <3>7. RegValue(tstamp)' = ((stat_tv + DelayTick + arg) % Mod)'
      BY <2>1, <3>4 DEF RegValue
    <3>8. ~AdjRead' /\ ~AdjDone'
      BY <2>1, <3>1 DEF AdjRead, AdjDone, Effective
    <3> QED
      BY <3>1, <3>6, <3>7, <3>8 DEF AdjGc
  <2>3. CASE ~(op = "RD" /\ ~err)
    <3>1. pc' = "ret" /\ op' = op
      BY <1>5, <2>3 DEF Clear
    <3>2. ~AdjRead' /\ ~AdjWrite'
      BY <3>1 DEF AdjRead, AdjWrite
    <3>3. AdjDone' => AdjDone
      BY <1>1, <2>1, <3>1 DEF AdjDone, Effective, Handshake
    <3> QED
      BY <2>1, <3>2, <3>3 DEF AdjGc, Gap
  <2> QED
    BY <2>2, <2>3
<1>6. CASE Return
  BY <1>6 DEF Return, AdjGc, AdjRead, AdjWrite, AdjDone
<1>7. ASSUME NEW c \in {"get", "set", "adj"}, NEW x \in Int, Call(c, x)
      PROVE  AdjGc'
  <2>1. /\ pc = "idle" /\ call' = c /\ fired' = fired /\ trigger_mode' = trigger_mode
        /\ pc' = IF trigger_mode = "GC" THEN "gc" ELSE "arm"
        /\ c = "adj" => op' = "RD"
    BY <1>7 DEF Call, FirstStep
  <2>2. ~fired'
    BY <1>1, <2>1 DEF Handshake, Pending
  <2> QED
    BY <2>1, <2>2 DEF AdjGc, AdjRead, AdjWrite, AdjDone, Effective
<1>8. CASE UNCHANGED todVars
  <2>1. UNCHANGED <<trigger_mode, tod, stat_tv, fired, gcLeft, pc, op, call, arg, tstamp, err, age, ref>>
    BY <1>8 DEF todVars
  <2>2. \A e : Since(e)' <=> Since(e)
    BY <2>1 DEF Since
  <2>3. (AdjRead' <=> AdjRead) /\ (AdjWrite' <=> AdjWrite)
    BY <2>1 DEF AdjRead, AdjWrite
  <2>4. AdjDone' <=> AdjDone
    BY <2>1 DEF AdjDone, Effective
  <2> QED
    BY <2>1, <2>2, <2>3, <2>4 DEF AdjGc, Gap, RegValue, AdjRead, AdjWrite
<1> QED
  BY <1>3, <1>4, <1>5, <1>6, <1>7, <1>8, CallCases DEF Polling

\* A quotient is determined by the range of the remainder.
LEMMA DivUnique ==
    ASSUME NEW m \in Nat \ {0}, NEW a \in Int, NEW q \in Int, NEW r \in 0 .. m - 1, a = m * q + r
    PROVE  a \div m = q
<1> DEFINE p == a \div m
<1>1. p \in Int /\ a = m * p + (a % m)
  BY DivMod
<1>2. a % m = r
  BY ModUnique
<1> HIDE DEF p
<1>3. m * (p - q) = 0
  BY <1>1, <1>2
<1>4. p - q = 0
  BY <1>1, <1>3
<1>5. p = q
  BY <1>1, <1>4
<1> QED
  BY <1>5 DEF p

\* The counter passes a second, or runs on within one.
LEMMA NextEdge ==
    ASSUME NEW x \in 0 .. Mod - 1
    PROVE  IF x % SEC = SEC - 1
           THEN /\ ((x + 1) % Mod) % SEC = 0
                /\ (x + 1) % Mod = (SEC * (x \div SEC) + SEC) % Mod
           ELSE /\ ((x + 1) % Mod) % SEC = (x % SEC) + 1
                /\ ((x + 1) % Mod) \div SEC = x \div SEC
<1> DEFINE p == x \div SEC
           s == x % SEC
           y == x + 1
           n == y % Mod
           k == y \div Mod
           z == 0
<1>1. SEC \in Nat \ {0} /\ SECS \in Nat \ {0} /\ Mod \in Nat \ {0} /\ Mod = SEC * SECS
  BY ModFacts DEF Mod
<1>2. x \in Int /\ y \in Int /\ x >= 0 /\ x <= Mod - 1
  BY <1>1
<1>3. p \in Int /\ s \in 0 .. SEC - 1 /\ x = SEC * p + s
  BY <1>1, <1>2, DivMod
<1>4. n \in 0 .. Mod - 1 /\ k \in Int /\ y = Mod * k + n
  <2> HIDE DEF y
  <2> QED
    BY <1>1, <1>2, DivMod
<1>5. CASE s = SEC - 1
  <2> DEFINE q == p + 1 - SECS * k
             w == SEC * p + SEC
  <2>1. y = w /\ q \in Int /\ n \in Int
    <3> HIDE DEF p, s, k, n
    <3> QED
      BY <1>1, <1>2, <1>3, <1>4, <1>5
  <2>2. n = SEC * q + z
    <3>1. n = y - Mod * k
      <4> HIDE DEF k, n
      <4> QED
        BY <1>1, <1>2, <1>4
    <3>2. Mod * k = SEC * (SECS * k)
      <4> HIDE DEF k
      <4> QED
        BY <1>1, <1>4
    <3> HIDE DEF p, k, n
    <3> QED
      BY <1>1, <1>3, <1>4, <2>1, <3>1, <3>2
  <2>3. n % SEC = z
    <3>1. z \in 0 .. SEC - 1
      BY <1>1
    <3> HIDE DEF n, q, z
    <3> QED
      BY <1>1, <2>1, <2>2, <3>1, ModUnique
  <2> QED
    BY <1>5, <2>1, <2>3
<1>6. CASE s # SEC - 1
  <2> DEFINE r == s + 1
  <2>1. r \in 0 .. SEC - 1 /\ r > 0 /\ y = SEC * p + r
    <3> HIDE DEF p, s
    <3> QED
      BY <1>1, <1>2, <1>3, <1>6
  <2>2. y # Mod
    <3> SUFFICES ASSUME y = Mod PROVE FALSE
      OBVIOUS
    <3>1. y = SEC * SECS + z /\ z \in 0 .. SEC - 1
      BY <1>1
    <3>2. y % SEC = z
      <4>1. SEC \in Nat \ {0} /\ SECS \in Int /\ y \in Int
        BY <1>1, <1>2
      <4> HIDE DEF y, z
      <4> QED
        BY <3>1, <4>1, ModUnique
    <3>3. y % SEC = r
      <4> HIDE DEF y, r, p
      <4> QED
        BY <1>1, <1>2, <1>3, <2>1, ModUnique
    <3> HIDE DEF y, r
    <3> QED
      BY <2>1, <3>2, <3>3
  <2>3. n = y
    <3>1. y \in 0 .. Mod - 1
      BY <1>1, <1>2, <2>2
    <3> HIDE DEF y
    <3> QED
      BY <1>1, <3>1
  <2>4. y % SEC = r /\ y \div SEC = p
    <3> HIDE DEF y, r, p
    <3> QED
      BY <1>1, <1>2, <1>3, <2>1, ModUnique, DivUnique
  <2> QED
    BY <1>6, <2>3, <2>4
<1> QED
  BY <1>5, <1>6

LEMMA AdjPpsTick ==
    ASSUME 4 * MaxLat < SEC, TodBase, AdjAhead, AdjPps, Tick
    PROVE  AdjPps'
<1>1. TodRange /\ TodModes /\ CallType /\ Handshake
  BY TodTypeParts DEF TodBase
<1>2. /\ ref \in Int /\ tod \in Int /\ arg \in Int /\ stat_tv \in Int /\ lat \in Nat
      /\ tod \in 0 .. Mod - 1
  BY <1>1, ModFacts DEF TodRange, CallType
<1>3. UNCHANGED <<trigger_mode, pc, op, call, arg, tstamp, err>>
  BY TickFacts
<1>4. SEC \in Nat \ {0} /\ MaxLat \in Nat /\ Mod \in Nat \ {0}
  BY ModFacts
<1> SUFFICES ASSUME trigger_mode = "PPS", call = "adj", pc # "idle"
             PROVE  AdjPps'
  BY <1>1, <1>3 DEF AdjPps, AdjRead, AdjWrite, AdjDone, Handshake
<1>5. ref' = (ref + 1) % Mod
  BY TickFacts
<1>6. lat < MaxLat /\ lat' = lat + 1
  BY <1>1 DEF Tick, Ready, PollDelay, CallType
<1>7. /\ Budget \in Nat /\ Budget <= 3 * MaxLat /\ Budget' = Budget
  BY <1>3, <1>4 DEF Budget
<1>8. tod % SEC \in 0 .. SEC - 1
  BY <1>2, <1>4, DivMod
\* Within the budget no edge is passed.
<1>9. ASSUME tod % SEC <= Budget + lat, tod' = (tod + 1) % Mod
      PROVE  LastEdge' = LastEdge /\ tod' % SEC <= Budget' + lat'
  <2>1. tod % SEC # SEC - 1
    BY <1>2, <1>4, <1>6, <1>7, <1>8, <1>9
  <2>2. tod' % SEC = (tod % SEC) + 1 /\ tod' \div SEC = tod \div SEC
    BY <1>2, <1>9, <2>1, NextEdge
  <2>3. (tod % SEC) + 1 <= Budget' + lat'
    BY <1>2, <1>4, <1>6, <1>7, <1>8, <1>9
  <2> QED
    BY <2>2, <2>3 DEF LastEdge
<1>10. (AdjRead /\ fired /\ ~err)' => (stat_tv = LastEdge /\ tod % SEC <= Budget + lat)'
  <2> SUFFICES ASSUME (AdjRead /\ fired /\ ~err)'
               PROVE  stat_tv' = LastEdge' /\ tod' % SEC <= Budget' + lat'
    OBVIOUS
  <2>1. AdjRead /\ ~err
    BY <1>3 DEF AdjRead
  <2>2. CASE TickReads
    <3>1. tod' = (tod + 1) % Mod /\ stat_tv' = tod'
      BY <2>2 DEF TickReads
    <3>2. tod' % SEC = 0
      BY <2>2, <3>1, TickFacts DEF TriggerNow, TickReads, TickRuns
    <3>3. tod' \in Int
      BY <1>2, <3>1, GapFacts, <1>4
    <3>4. tod' = SEC * (tod' \div SEC) + 0
      BY <1>4, <3>2, <3>3, DivMod
    <3>5. tod' \div SEC \in Int
      BY <1>4, <3>3, DivMod
    <3>6. tod' = LastEdge'
      <4> DEFINE w == tod' \div SEC
      <4>1. w \in Int /\ tod' = SEC * w + 0
        BY <3>4, <3>5
      <4> HIDE DEF w
      <4>2. tod' = SEC * w
        BY <1>4, <4>1
      <4> QED
        BY <4>2 DEF w, LastEdge
    <3>7. 0 <= Budget' + lat'
      BY <1>2, <1>6, <1>7
    <3> QED
      BY <3>1, <3>2, <3>6, <3>7
  <2>3. CASE TickRuns
    <3>1. fired /\ tod' = (tod + 1) % Mod /\ stat_tv' = stat_tv
      BY <2>3 DEF TickRuns
    <3>2. stat_tv = LastEdge /\ tod % SEC <= Budget + lat
      BY <2>1, <3>1 DEF AdjPps
    <3> QED
      BY <1>9, <3>1, <3>2
  <2> QED
    BY <2>1, <2>2, <2>3, TickFacts DEF TickWrites, AdjRead
<1>11. AdjWrite' => (/\ RegValue(tstamp) = (stat_tv + SEC + arg) % Mod
                     /\ stat_tv = LastEdge
                     /\ pc = "arm" => tod % SEC <= Budget + lat)'
  <2> SUFFICES ASSUME AdjWrite'
               PROVE  /\ RegValue(tstamp)' = ((stat_tv + SEC + arg) % Mod)'
                      /\ stat_tv' = LastEdge'
                      /\ pc' = "arm" => tod' % SEC <= Budget' + lat'
    OBVIOUS
  <2>1. AdjWrite /\ TickRuns /\ (Pending => ~TriggerNow)
    BY <1>3, TickFacts DEF AdjWrite, TickRuns, TickReads, TickWrites
  <2>2. tod' = (tod + 1) % Mod /\ stat_tv' = stat_tv
    BY <2>1 DEF TickRuns
  <2>3. /\ RegValue(tstamp) = (stat_tv + SEC + arg) % Mod /\ stat_tv = LastEdge
        /\ pc = "arm" => tod % SEC <= Budget + lat
    BY <2>1 DEF AdjPps
  <2>4. RegValue(tstamp)' = ((stat_tv + SEC + arg) % Mod)'
    BY <1>3, <2>2, <2>3 DEF RegValue
  <2>5. CASE pc = "arm"
    BY <1>9, <2>2, <2>3, <2>4, <2>5
  <2>6. CASE pc # "arm"
    <3>1. Pending
      BY <1>1, <2>1, <2>6 DEF Pending, AdjWrite, Handshake, TodModes
    <3>2. tod' % SEC # 0
      BY <2>1, <2>2, <3>1 DEF TriggerNow
    <3>3. tod' \div SEC = tod \div SEC
      BY <1>2, <2>2, <3>2, NextEdge
    <3> QED
      BY <1>3, <2>2, <2>3, <2>4, <2>6, <3>3 DEF LastEdge
  <2> QED
    BY <2>5, <2>6
<1>12. AdjDone' => (Gap(ref, tod) = 0)'
  <2> SUFFICES ASSUME AdjDone' PROVE Gap(ref', tod') = 0
    BY DEF Gap
  <2>1. CASE TickWrites
    <3> DEFINE next == (tod + 1) % Mod
               edge == stat_tv + SEC
               goal == next + arg
    <3>1. AdjWrite /\ next % SEC = 0 /\ tod' = RegValue(tstamp)
      BY <2>1, TickFacts DEF AdjWrite, TickWrites, TickRuns, Pending, TriggerNow
    <3>2. RegValue(tstamp) = (edge + arg) % Mod /\ stat_tv = LastEdge
      BY <3>1 DEF AdjPps
    <3>3. tod % SEC = SEC - 1
      <4>1. CASE tod % SEC # SEC - 1
        <5>1. next % SEC = (tod % SEC) + 1
          BY <1>2, <4>1, NextEdge
        <5> QED
          BY <1>4, <1>8, <3>1, <5>1
      <4> QED
        BY <4>1
    <3>4. next = edge % Mod
      BY <1>2, <3>2, <3>3, NextEdge DEF LastEdge
    <3>5. edge \in Int /\ next \in Int
      BY <1>2, <1>4, GapFacts
    <3>6. (edge + arg) % Mod = goal % Mod
      <4> HIDE DEF edge, next
      <4>1. ((edge % Mod) + arg) % Mod = (edge + arg) % Mod
        BY <1>2, <1>4, <3>5, ModSum
      <4> QED
        BY <3>4, <4>1
    <3>7. Gap(ref', goal) = 0
      <4>1. Gap(ref, tod + arg) = 0
        BY <3>1 DEF AdjAhead
      <4> QED
        BY <1>2, <1>5, <4>1, GapMoves
    <3>8. ref' \in Int /\ goal \in Int
      BY <1>2, <1>4, <1>5, <3>5, GapFacts
    <3>9. tod' = goal % Mod
      BY <3>1, <3>2, <3>6
    <3> HIDE DEF goal
    <3> QED
      BY <3>7, <3>8, <3>9, GapFacts
  <2>2. CASE TickRuns
    <3>1. AdjDone
      BY <1>3, <2>2 DEF AdjDone, Effective, TickRuns
    <3> QED
      BY <2>2, <3>1, GapRuns DEF AdjPps, TickRuns
  <2> QED
    BY <1>3, <2>1, <2>2, TickFacts DEF TickReads, AdjDone
<1> QED
  BY <1>10, <1>11, <1>12 DEF AdjPps

LEMMA AdjPpsStep ==
    ASSUME 4 * MaxLat < SEC, TodBase, AdjAhead, AdjPps, [TodNext]_todVars
    PROVE  AdjPps'
<1> USE DEF hwVars, drvVars
<1>1. TodRange /\ TodModes /\ CallType /\ Handshake
  BY TodTypeParts DEF TodBase
<1>2. /\ stat_tv \in Int /\ arg \in Int /\ lat \in 0 .. MaxLat /\ MaxLat \in Nat
      /\ tod % SEC \in Int /\ tod \div SEC \in Int /\ SEC \in Nat \ {0}
  BY <1>1, ModFacts, DivMod DEF TodRange, CallType
<1>3. CASE Tick
  BY <1>3, AdjPpsTick
<1>4. CASE Polling
  <2>1. /\ UNCHANGED <<trigger_mode, tod, stat_tv, fired, op, call, arg, tstamp, age, ref>>
        /\ pc \notin {"idle", "ret"} /\ pc' \notin {"idle", "ret", "gc"}
    BY <1>4, PollingFacts
  <2> SUFFICES ASSUME trigger_mode = "PPS" PROVE AdjPps'
    BY <2>1 DEF AdjPps
  <2>2. pc # "gc" /\ pc' # "arm" /\ lat' = 0
    BY <1>1, <1>4 DEF Handshake, Polling, SetGc, Arm, PollStart, PollRead, PollLate
  <2>3. ASSUME (AdjRead /\ fired /\ ~err)'
        PROVE  stat_tv' = LastEdge' /\ tod' % SEC <= Budget' + lat'
    <3>1. AdjRead /\ fired /\ ~err /\ Pending /\ pc # "clear"
      BY <1>1, <1>4, <2>1, <2>3
      DEF AdjRead, Handshake, Polling, SetGc, Arm, PollStart, PollRead, PollLate
    <3>2. stat_tv = LastEdge /\ tod % SEC <= Budget + lat
      BY <3>1 DEF AdjPps
    <3>3. \/ pc \in {"delay", "late"} /\ pc' = "poll"
          \/ pc = "poll" /\ pc' = "clear"
      BY <1>4, <2>3, <3>1
      DEF Polling, SetGc, Arm, PollStart, PollRead, PollLate, Going, Pending
    <3>4. Budget + MaxLat <= Budget' /\ Budget \in Nat /\ Budget' \in Nat
      BY <1>2, <3>3 DEF Budget
    <3>5. tod' % SEC <= Budget' + lat'
      BY <1>2, <2>1, <2>2, <3>2, <3>4
    <3> QED
      BY <2>1, <3>2, <3>5 DEF LastEdge
  <2>4. ASSUME AdjWrite'
        PROVE  RegValue(tstamp)' = ((stat_tv + SEC + arg) % Mod)' /\ stat_tv' = LastEdge'
    <3>1. AdjWrite
      BY <2>1, <2>4 DEF AdjWrite
    <3> QED
      BY <2>1, <3>1 DEF AdjPps, RegValue, LastEdge
  <2>5. ASSUME AdjDone' PROVE (Gap(ref, tod) = 0)'
    <3>1. AdjDone
      BY <2>1, <2>5 DEF AdjDone, Effective
    <3> QED
      BY <2>1, <3>1 DEF AdjPps, Gap
  <2> QED
    BY <2>2, <2>3, <2>4, <2>5 DEF AdjPps
<1>5. CASE Clear
  <2>1. /\ pc = "clear" /\ ~fired' /\ lat' = 0
        /\ UNCHANGED <<trigger_mode, tod, stat_tv, call, arg, err, age, ref>>
    BY <1>5 DEF Clear
  <2> SUFFICES ASSUME trigger_mode = "PPS", call = "adj" PROVE AdjPps'
    BY <2>1 DEF AdjPps, AdjRead, AdjWrite, AdjDone
  <2>2. CASE op = "RD" /\ ~err
    <3>1. /\ tstamp' = AdjustBy(AtNextTrigger(FromTicks(stat_tv)), arg)
          /\ op' = "WR" /\ pc' = "arm"
      BY <1>5, <2>2 DEF Clear, FirstStep
    <3>2. AdjRead /\ fired
      BY <1>1, <2>1, <2>2 DEF AdjRead, Handshake
    <3>3. stat_tv = LastEdge /\ tod % SEC <= Budget + lat
      BY <2>2, <3>2 DEF AdjPps
    <3>4. stat_tv % SEC = 0
      <4> DEFINE w == tod \div SEC
                 z == 0
      <4>1. w \in Int /\ z \in 0 .. SEC - 1
        BY <1>2
      <4>2. stat_tv = SEC * w
        BY <3>3 DEF LastEdge
      <4> HIDE DEF w
      <4>3. stat_tv = SEC * w + z
        BY <1>2, <4>1, <4>2
      <4>4. stat_tv % SEC = z
        <5> HIDE DEF z
        <5> QED
          BY <1>2, <4>1, <4>3, ModUnique
      <4> QED
        BY <4>4
    <3>5. RegValue(tstamp') = (stat_tv + SEC + arg) % Mod
      BY <1>2, <3>1, <3>4, AdjustedTime
    <3>6. RegValue(tstamp)' = ((stat_tv + SEC + arg) % Mod)'
      BY <2>1, <3>5 DEF RegValue
    <3>7. stat_tv' = LastEdge' /\ tod' % SEC <= Budget' + lat'
      <4>1. Budget = 2 * MaxLat /\ Budget' = 3 * MaxLat
        BY <2>1, <3>1 DEF Budget
      <4>2. tod' % SEC <= Budget' + lat'
        BY <1>2, <2>1, <3>3, <4>1
      <4> QED
        BY <2>1, <3>3, <4>2 DEF LastEdge
    <3>8. ~AdjRead' /\ ~AdjDone'
      BY <2>1, <3>1 DEF AdjRead, AdjDone, Effective
    <3> QED
      BY <3>6, <3>7, <3>8 DEF AdjPps
  <2>3. CASE ~(op = "RD" /\ ~err)
    <3>1. pc' = "ret" /\ op' = op
      BY <1>5, <2>3 DEF Clear
    <3>2. ~AdjRead' /\ ~AdjWrite'
      BY <3>1 DEF AdjRead, AdjWrite
    <3>3. AdjDone' => AdjDone
      BY <1>1, <2>1, <3>1 DEF AdjDone, Effective, Handshake
    <3> QED
      BY <2>1, <3>2, <3>3 DEF AdjPps, Gap
  <2> QED
    BY <2>2, <2>3
<1>6. CASE Return
  BY <1>6 DEF Return, AdjPps, AdjRead, AdjWrite, AdjDone
<1>7. ASSUME NEW c \in {"get", "set", "adj"}, NEW x \in Int, Call(c, x)
      PROVE  AdjPps'
  <2>1. /\ pc = "idle" /\ call' = c /\ fired' = fired /\ trigger_mode' = trigger_mode
        /\ pc' \in {"gc", "arm"} /\ (c = "adj" => op' = "RD")
    BY <1>7 DEF Call, FirstStep
  <2>2. ~fired'
    BY <1>1, <2>1 DEF Handshake, Pending
  <2> QED
    BY <2>1, <2>2 DEF AdjPps, AdjRead, AdjWrite, AdjDone, Effective
<1>8. CASE UNCHANGED todVars
  <2>1. UNCHANGED <<trigger_mode, tod, stat_tv, fired, pc, op, call, arg, tstamp, err, lat, ref>>
    BY <1>8 DEF todVars
  <2> QED
    BY <2>1 DEF AdjPps, AdjRead, AdjWrite, AdjDone, Effective, Gap, RegValue, LastEdge, Budget
<1> QED
  BY <1>3, <1>4, <1>5, <1>6, <1>7, <1>8, CallCases DEF Polling

\* adi_tod_adjtime moves the clock by delta: exactly with the PPS trigger,
\* and with the GC trigger it loses no more than the call took besides its
\* two delays.  The four steps of the driver from the edge at which the time
\* was read to the arming of the write must fit into a second, and with the
\* GC trigger a delta of a second or more can be lost to a carry.
THEOREM TodAdjPhase ==
    ASSUME 4 * MaxLat < SEC, "GC" \in TrigModes => Deltas \subseteq 0 .. SEC - 1
    PROVE  TodSpec => []AdjPhase
<1> DEFINE AdjInv == TodBase /\ AdjArg /\ AdjAhead /\ AdjGc /\ AdjPps
<1>1. TodInit => AdjInv
  <2> SUFFICES ASSUME TodInit PROVE AdjInv
    OBVIOUS
  <2>1. call = "get"
    BY DEF TodInit
  <2> QED
    BY <2>1, TodInitBase DEF AdjArg, AdjAhead, AdjGc, AdjPps, AdjRead, AdjWrite, AdjDone
<1>2. AdjInv /\ [TodNext]_todVars => AdjInv'
  <2> SUFFICES ASSUME AdjInv, [TodNext]_todVars PROVE AdjInv'
    OBVIOUS
  <2> USE DEF hwVars, drvVars
  <2>1. TodBase' /\ AdjAhead' /\ AdjGc' /\ AdjPps'
    BY TodBaseStep, AdjAheadStep, AdjGcStep, AdjPpsStep
  <2>2. ASSUME Tick PROVE AdjArg'
    BY <2>2, TickFacts DEF AdjArg
  <2>3. ASSUME Polling \/ Clear \/ Return PROVE AdjArg'
    BY <2>3 DEF Polling, SetGc, Arm, PollStart, PollRead, PollLate, Clear, Return, AdjArg
  <2>4. ASSUME NEW c \in {"get", "set", "adj"}, NEW x \in Int, Call(c, x),
               c = "adj" => x \in Deltas \/ -x \in Deltas
        PROVE  AdjArg'
    <3> SUFFICES ASSUME c = "adj", trigger_mode = "GC" PROVE x < SEC
      BY <2>4 DEF Call, AdjArg
    <3>1. trigger_mode \in TrigModes
      BY TodTypeParts DEF TodBase, TodModes
    <3>2. x \in 0 .. SEC - 1 \/ -x \in 0 .. SEC - 1
      BY <2>4, <3>1
    <3> QED
      BY <3>2, ModFacts
  <2>5. ASSUME UNCHANGED todVars PROVE AdjArg'
    BY <2>5 DEF todVars, AdjArg
  <2>6. AdjArg'
    BY <2>2, <2>3, <2>4, <2>5, CallCases DEF Polling
  <2> QED
    BY <2>1, <2>6
<1>3. AdjInv => AdjPhase
  <2> SUFFICES ASSUME AdjInv, Returns("adj")
               PROVE  IF trigger_mode = "PPS" THEN Behind(tod) = 0
                                              ELSE Behind(tod) + 2 * DelayTick <= age
    BY DEF AdjPhase
  <2>1. AdjDone
    BY DEF Returns, AdjDone, Effective, TodBase, Handshake
  <2>2. trigger_mode \in {"GC", "PPS"}
    BY TodTypeParts, TodConstants DEF TodBase, TodModes
  <2> QED
    BY <2>1, <2>2 DEF AdjGc, AdjPps, Behind, Gap
<1> HIDE DEF AdjInv
<1> QED
  BY <1>1, <1>2, <1>3, PTL DEF TodSpec
=============================================================================
