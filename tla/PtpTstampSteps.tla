-------------------------- MODULE PtpTstampSteps --------------------------
(***************************************************************************)
(* The timestamp arithmetic against the reference: any sequence of delays  *)
(* and adjustments of a timestamp.                                         *)
(***************************************************************************)
EXTENDS PtpTstamp

CONSTANTS
    MaxSeconds,   \* bound on the seconds of the timestamps considered
    MaxDelta      \* bound on the adjustments, in nanoseconds

ASSUME StepConstants == MaxSeconds \in Nat /\ MaxDelta \in Nat

VARIABLES t,      \* the timestamp
          added   \* what the last operation should have added, in fractions

stepVars == <<t, added>>

StepInit == t = Tstamp(1, 0, 0) /\ added = 0

Delay ==
    \E ns \in 0 .. 2 * SEC, frac \in 0 .. FRAC - 1 :
        /\ t' = AddDelay(t, [ns |-> ns, frac_ns |-> frac])
        /\ added' = ns * FRAC + frac

Adjust ==
    \E delta \in -MaxDelta .. MaxDelta :
        /\ t' = AdjustBy(t, delta)
        /\ added' = delta * FRAC

StepNext == (Delay \/ Adjust) /\ t'.seconds \in 0 .. MaxSeconds

StepSpec == StepInit /\ [][StepNext]_stepVars

\* The adjustment carries and has seconds: _tod_adjtime does not add these.
SecondsDropped(u, add) ==
    LET delta == add \div FRAC
    IN  /\ add % FRAC = 0 /\ delta >= SEC
        /\ u.nanoseconds + DeltaNs(delta) >= SEC

\* Timestamps stay normalised whatever is added to them: what is written to
\* the ToD registers by settime and adjtime is a time.
AlwaysNormal == Normal(t)

\* _tod_hw_tstamp_add_delay and _tod_adjtime add exactly what they are asked
\* to, whatever carries and borrows occur, but for seconds that a carry drops.
AddsUp == [][Instant(t') = Instant(t) + added' \/ SecondsDropped(t, added')]_stepVars

\* tstamp_to_timespec is off by at most half a nanosecond.
RoundsToNearest ==
    LET ts == ToTimespec(t)
        d  == (ts.tv_sec * SEC + ts.tv_nsec) * FRAC - Instant(t)
    IN  2 * Abs(d) <= FRAC
=============================================================================
