----------------------------- MODULE PtpTstamp -----------------------------
(***************************************************************************)
(* Timestamp arithmetic of the ToD driver (ptp_adi.c): struct tod_tstamp   *)
(* with seconds, nanoseconds and fractions of a nanosecond.  The radixes   *)
(* are parameters, so that every carry occurs among few values.            *)
(***************************************************************************)
EXTENDS Integers

CONSTANTS
    SEC,        \* TOD_1_SEC_IN_NANO
    FRAC        \* TOD_FRAC_NANO_NUM, the modulus of the u16 frac_nanoseconds

ASSUME TstampConstants ==
    /\ SEC \in Nat \ {0}
    /\ FRAC \in Nat \ {0}

Tstamp(s, n, f) == [seconds |-> s, nanoseconds |-> n, frac_nanoseconds |-> f]

\* The instant a timestamp stands for, in fractions of a nanosecond.
Instant(t) == (t.seconds * SEC + t.nanoseconds) * FRAC + t.frac_nanoseconds

Normal(t) == t.nanoseconds \in 0 .. SEC - 1 /\ t.frac_nanoseconds \in 0 .. FRAC - 1

\* The carry out of the 16-bit fraction, whose sum wraps by itself.
FracCarry(frac) == IF frac < FRAC THEN 0 ELSE 1

\* _tod_hw_tstamp_add_delay, for the delay trig_delay = [ns, frac_ns]
AddDelay(t, d) ==
    LET frac == t.frac_nanoseconds + d.frac_ns
        ns   == t.nanoseconds + d.ns + FracCarry(frac)
    IN  IF ns >= SEC
        THEN Tstamp(t.seconds + ns \div SEC, ns % SEC, frac % FRAC)
        ELSE Tstamp(t.seconds, ns, frac % FRAC)

Abs(n) == IF n < 0 THEN -n ELSE n
Sign(n) == IF n < 0 THEN -1 ELSE 1

\* div_s64_rem(delta, TOD_1_SEC_IN_NANO, &ns): both truncate toward zero.
DeltaSeconds(delta) == Sign(delta) * (Abs(delta) \div SEC)
DeltaNs(delta)      == Sign(delta) * (Abs(delta) % SEC)

BorrowsAtEqual(ns, t) == ns < 0 /\ Abs(ns) >= t.nanoseconds
Borrows(ns, t) == ns < 0 /\ Abs(ns) > t.nanoseconds

\* The timestamp with the nanoseconds of delta added: borrowed if needed.
NsAdded(t, delta) ==
    LET ns == DeltaNs(delta)
    IN  IF Borrows(ns, t) THEN Tstamp(t.seconds - 1, SEC + ns + t.nanoseconds, t.frac_nanoseconds)
                          ELSE Tstamp(t.seconds, t.nanoseconds + ns, t.frac_nanoseconds)

FitsAtEqual(u) == u.nanoseconds <= SEC

\* The nanoseconds do not carry into the seconds.
Fits(u) == u.nanoseconds < SEC

\* The second half of _tod_adjtime.  When the nanoseconds carry, the seconds
\* of delta are not added.
AdjustBy(t, delta) ==
    LET u == NsAdded(t, delta)
    IN  IF Fits(u)
        THEN [u EXCEPT !.seconds = @ + DeltaSeconds(delta)]
        ELSE Tstamp(u.seconds + 1, u.nanoseconds - SEC, u.frac_nanoseconds)

RoundsDown(t) == TRUE

\* tstamp_to_timespec: fractions are rounded to the nearest nanosecond.
RoundDown(t) == t.frac_nanoseconds < FRAC \div 2
ToTimespec(t) ==
    [tv_sec  |-> t.seconds,
     tv_nsec |-> IF RoundDown(t) THEN t.nanoseconds ELSE t.nanoseconds + 1]
=============================================================================
