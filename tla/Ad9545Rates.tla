---------------------------- MODULE Ad9545Rates ----------------------------
(***************************************************************************)
(* The arithmetic of rates, phases and frequency adjustments: outputs with *)
(* their Q dividers, auxiliary TDCs and auxiliary NCOs (clk-ad9545.c), and *)
(* adjfine (ptp_adi_clk.c).  Widths and units are constants, so that all   *)
(* their boundaries are in reach.                                          *)
(*                                                                         *)
(* clk_set_rate asks for the rounded rate, sets it, and records what the   *)
(* registers give; the rate of the parent may change at any time.          *)
(***************************************************************************)
EXTENDS Integers

CONSTANTS
    U8, U16,      \* values of a u8 (2^8) and of a u16 (2^16)
    U32,          \* values of a 32-bit register (2^32)
    HZ,           \* units of an NCO frequency in a hertz (2^40)
    CIRCLE,       \* degrees (360)
    PPM,          \* units of scaled_ppm in one ppm (2^16)
    MILLION,
    MaxParent, MaxRate, MaxPpm, MaxTuning    \* bounds

ASSUME RateConstants ==
    /\ U8 \in Nat /\ U8 > 1 /\ U16 \in Nat /\ U16 > 1
    /\ U32 \in Nat \ {0} /\ HZ \in Nat \ {0} /\ CIRCLE \in Nat \ {0}
    /\ PPM \in Nat \ {0} /\ MILLION \in Nat \ {0}
    /\ MaxParent \in Nat \ {0} /\ MaxRate \in Nat \ {0}
    /\ MaxPpm \in Nat /\ MaxTuning \in Nat

VARIABLES
    kind,      \* of the clock: "out", "tdc" or "nco", or "fine" for adjfine
    parent,    \* rate of the parent
    reg,       \* Q divider, TDC divider less one, or NCO frequency
    rounded,   \* what the rate was rounded to, 0 if the parent has changed
    half,      \* AD9545_QX_HALF_DIV_MSK
    phase,     \* AD9545_QX_PHASE
    degrees,   \* phase asked for with the present divider, -1 if none
    tuned      \* frequency, scaled_ppm and result of the last adjfine

rateVars == <<kind, parent, reg, rounded, half, phase, degrees, tuned>>

\* DIV_ROUND_UP, DIV_ROUND_CLOSEST
CeilDiv(a, b)    == (a + b - 1) \div b
ClosestDiv(a, b) == (a + b \div 2) \div b

\* clamp_t of an unsigned type with so many values, from 1 to the largest: it
\* converts first.
ClampT(values, x) == IF x % values = 0 THEN 1 ELSE x % values

-----------------------------------------------------------------------------
\* The divider of ad9545_out_clk_round_rate and ad9545_out_clk_set_rate
QDiv(p, rate) == IF p \div rate = 0 THEN 1 ELSE p \div rate

\* The divider of ad9545_tdc_clk_round_rate and ad9545_tdc_clk_set_rate
TdcDiv(p, rate) == ClampT(U8, CeilDiv(p, rate))

OutRoundRate(p, rate) == p \div QDiv(p, rate)
TdcRoundRate(p, rate) == CeilDiv(p, TdcDiv(p, rate))
NcoRoundRate(rate)    == ClampT(U16, rate)

\* What set_rate leaves in the register: Q divider, TDC divider less one, and
\* the centre frequency of an NCO, for the rates that rounding can give.
OutSetRate(p, rate) == QDiv(p, rate)
TdcSetFloor(p, rate) == ClampT(U8, p \div rate) - 1
TdcSetRate(p, rate) == TdcDiv(p, rate) - 1
NcoSetRate(rate)    == rate * HZ

OutRecalcRate(p, r) == p \div r
TdcRecalcRate(p, r) == CeilDiv(p, r + 1)
NcoRecalcRate(r)    == ClosestDiv(r, HZ)

\* The clock operations by kind
RoundRate(k, p, rate) ==
    CASE k = "out" -> OutRoundRate(p, rate)
      [] k = "tdc" -> TdcRoundRate(p, rate)
      [] k = "nco" -> NcoRoundRate(rate)

SetRateReg(k, p, rate) ==
    CASE k = "out" -> OutSetRate(p, rate)
      [] k = "tdc" -> TdcSetRate(p, rate)
      [] k = "nco" -> NcoSetRate(rate)

RecalcRate(k, p, r) ==
    CASE k = "out" -> OutRecalcRate(p, r)
      [] k = "tdc" -> TdcRecalcRate(p, r)
      [] k = "nco" -> NcoRecalcRate(r)

\* Input edges in a period of an output
Edges == 2 * reg + half

\* ad9545_out_clk_set_phase: the lower 32 bits are what get_phase uses
PhaseCode(d) == (Edges * d) \div CIRCLE

\* Without the half cycle
WholeEdges(code) == (code * CIRCLE) \div (2 * reg)

\* ad9545_out_clk_get_phase, which counts the edges in 32 bits
GetPhase(code) == (code * CIRCLE) \div (Edges % U32)

Magnitude(x) == IF x < 0 THEN -x ELSE x

Truncated(freq, ppm) ==
    LET adj == ((freq * Magnitude(ppm)) \div PPM) \div MILLION
    IN  IF ppm < 0 THEN freq - adj ELSE freq + adj

\* ad9545_adjfine
Adjusted(freq, ppm) ==
    LET adj == ClosestDiv((freq * Magnitude(ppm)) \div PPM, MILLION)
    IN  IF ppm < 0 THEN freq - adj ELSE freq + adj

-----------------------------------------------------------------------------
NoTuning == [freq |-> 0, ppm |-> 0, result |-> 0]

RateInit ==
    /\ kind \in {"out", "tdc", "nco", "fine"} /\ half \in {0, 1}
    /\ parent = 1 /\ rounded = 0
    /\ reg = IF kind = "out" THEN 1 ELSE 0
    /\ phase = 0 /\ degrees = -1
    /\ tuned = NoTuning

\* clk_set_rate; the phase register is left alone.
SetRate ==
    \E rate \in 1 .. MaxRate :
        /\ kind # "fine"
        /\ rounded' = RoundRate(kind, parent, rate)
        /\ reg' = SetRateReg(kind, parent, rounded')
        /\ degrees' = IF reg' = reg THEN degrees ELSE -1
        /\ UNCHANGED <<kind, parent, half, phase, tuned>>

ParentRate ==
    /\ kind # "fine"
    /\ parent' \in 1 .. MaxParent
    /\ rounded' = 0
    /\ UNCHANGED <<kind, reg, half, phase, degrees, tuned>>

\* clk_set_phase
SetPhase ==
    /\ kind = "out"
    /\ degrees' \in 0 .. CIRCLE - 1
    /\ phase' = PhaseCode(degrees') % U32
    /\ UNCHANGED <<kind, parent, reg, rounded, half, tuned>>

\* ad9545_adjfine of the base frequency
Tune ==
    /\ kind = "fine"
    /\ \E freq \in 0 .. MaxTuning, ppm \in -MaxPpm .. MaxPpm :
          tuned' = [freq |-> freq, ppm |-> ppm, result |-> Adjusted(freq, ppm)]
    /\ UNCHANGED <<kind, parent, reg, rounded, half, phase, degrees>>

RateNext == SetRate \/ ParentRate \/ SetPhase \/ Tune

RateSpec == RateInit /\ [][RateNext]_rateVars

-----------------------------------------------------------------------------
\* The rate the registers give is the one that was announced by rounding:
\* setting a rounded rate does not round once more.
RateAsRounded == rounded # 0 => RecalcRate(kind, parent, reg) = rounded

\* The phase read back is less than an input edge and a degree below the one set, as long
\* as the edges of a period can be counted in 32 bits.
PhaseReadsBack ==
    degrees >= 0 /\ Edges < U32 =>
        /\ GetPhase(phase) <= degrees
        /\ (degrees - GetPhase(phase)) * Edges < CIRCLE + Edges

\* adjfine, up or down, gives freq * (1 + ppm / (PPM * MILLION)) to within
\* half a unit and what the shift loses, a millionth.  The product is not cut
\* to the 64 bits of mul_u64_u64_shr, which hold it up to 256 ppm.
AdjfineRounds ==
    LET off == (tuned.result - tuned.freq) * PPM * MILLION - tuned.freq * tuned.ppm
    IN  2 * Magnitude(off) <= PPM * (MILLION + 2)
=============================================================================
