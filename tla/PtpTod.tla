------------------------------- MODULE PtpTod -------------------------------
(***************************************************************************)
(* Reading, setting and adjusting the time of day (ptp_adi.c).  The driver *)
(* arms an operation, the hardware carries it out at a trigger - when the  *)
(* golden counter (GC) reaches a value, or at the next edge of the PPS     *)
(* output, which the ToD counter makes itself - and the driver polls for   *)
(* it.  reg_lock admits one call at a time and disables interrupts.        *)
(*                                                                         *)
(* Time advances in ticks, SEC of them a second.  The driver takes up to   *)
(* MaxLat ticks for each of its steps; tod_tstamp fractions stay zero.     *)
(***************************************************************************)
EXTENDS PtpTstamp

CONSTANTS
    TrigModes,    \* the trigger modes considered: "GC", "PPS"
    SECS,         \* modulus of the seconds (48 bits)
    DelayTick,    \* trig_delay_tick
    MaxLat,       \* ticks a step of the driver may take
    Times,        \* arguments of settime, in ticks
    Deltas        \* arguments of adjtime without their sign, in ticks

ASSUME TodConstants ==
    /\ TrigModes \subseteq {"GC", "PPS"}
    /\ SECS \in Nat \ {0} /\ DelayTick \in Nat /\ MaxLat \in Nat
    /\ Times \subseteq Nat /\ Deltas \subseteq Nat

Mod == SEC * SECS

\* Bound on the age of a call: more says nothing about times modulo Mod.
MaxAge == Mod + 2 * DelayTick

\* (1 / 20), in integers
TOD_TIMEOUT_RATIO == 1 \div 20

VARIABLES
    trigger_mode, \* from the device tree
    tod,          \* the ToD counter
    stat_tv,      \* ADI_TOD_STAT_TV_*: the value latched by a read
    armed,        \* ADI_TOD_CFG_TOD_OP: "none", "RD" or "WR"
    fired,        \* ADI_TOD_STAT_TOD_OP: HW_TOD_TRIG_OP_FLAG_DONE
    gcLeft,       \* ticks until the GC reaches the value set, 0 once it has
    pc, op,       \* position in the driver, and the operation
    call, arg,    \* the call being served and its argument
    tstamp,       \* the local variable of the call
    err,          \* -ETIMEDOUT
    timer,        \* ticks since the operation was armed, then since polling
    lat,          \* ticks the current step has taken
    age, ref      \* ticks since the call, up to MaxAge; the time it should lead to

hwVars  == <<tod, stat_tv, fired, gcLeft>>
drvVars == <<pc, op, call, arg, tstamp, err>>
todVars == <<trigger_mode, hwVars, armed, drvVars, timer, lat, age, ref>>

\* poll_delay_ns and poll_timeout_us of adi_tod_probe.
PollDelay   == IF trigger_mode = "GC" THEN DelayTick ELSE 0
PollTimeout == IF trigger_mode = "GC" THEN PollDelay * TOD_TIMEOUT_RATIO
                                  ELSE SEC + SEC * TOD_TIMEOUT_RATIO

FromTicks(n) == Tstamp(n \div SEC, n % SEC, 0)

RegValueUnmasked(t) == t.seconds * SEC + t.nanoseconds

\* _tod_hw_settstamp_to_reg: ADI_TOD_CFG_TV_* while the write is
\* armed, with 48 bits of the seconds.
RegValue(t) == (t.seconds % SECS) * SEC + t.nanoseconds

TodInit ==
    /\ trigger_mode \in TrigModes
    /\ tod = 0 /\ stat_tv = 0
    /\ armed = "none" /\ fired = FALSE /\ gcLeft = 0
    /\ pc = "idle" /\ op = "RD" /\ call = "get" /\ arg = 0
    /\ tstamp = FromTicks(0) /\ err = FALSE
    /\ timer = 0 /\ lat = 0 /\ age = 0 /\ ref = 0

-----------------------------------------------------------------------------
(***************************************************************************)
(* Time and the hardware.                                                  *)
(***************************************************************************)

\* The driver can take its next step.
Ready == pc # "idle" /\ (pc = "delay" => timer >= PollDelay)

\* mdelay, udelay or the timeout are under way.
Timed == pc = "delay" \/ (pc \in {"poll", "late"} /\ PollTimeout # 0)

Triggered(next) ==
    /\ armed # "none" /\ ~fired
    /\ IF trigger_mode = "GC" THEN gcLeft = 1 ELSE next % SEC = 0

Tick ==
    /\ Ready => lat < MaxLat
    /\ LET next == (tod + 1) % Mod
           hit  == Triggered(next)
       IN  /\ tod' = IF hit /\ armed = "WR" THEN RegValue(tstamp) ELSE next
           /\ stat_tv' = IF hit /\ armed = "RD" THEN next ELSE stat_tv
           /\ fired' = (fired \/ hit)
    /\ gcLeft' = IF gcLeft > 0 THEN gcLeft - 1 ELSE 0
    /\ IF pc = "idle"
       THEN UNCHANGED <<timer, lat, age, ref>>
       ELSE /\ timer' = IF Timed THEN timer + 1 ELSE timer
            /\ lat' = IF Ready THEN lat + 1 ELSE 0
            /\ age' = IF age < MaxAge THEN age + 1 ELSE age
            /\ ref' = (ref + 1) % Mod
    /\ UNCHANGED <<trigger_mode, armed, drvVars>>

-----------------------------------------------------------------------------
(***************************************************************************)
(* The driver.                                                             *)
(***************************************************************************)

\* The start of _tod_hw_settstamp and _tod_hw_gettstamp.
FirstStep == IF trigger_mode = "GC" THEN "gc" ELSE "arm"

\* adi_tod_gettimex, adi_tod_settime and adi_tod_adjtime
Call(c, x) ==
    /\ pc = "idle"
    /\ pc' = FirstStep
    /\ op' = IF c = "set" THEN "WR" ELSE "RD"
    /\ call' = c /\ arg' = x
    /\ tstamp' = IF c = "set" THEN FromTicks(x) ELSE FromTicks(0)
    /\ err' = FALSE
    /\ lat' = 0 /\ timer' = 0 /\ age' = 0
    /\ ref' = IF c = "set" THEN x ELSE (tod + x) % Mod
    /\ UNCHANGED <<trigger_mode, hwVars, armed>>

TargetNow == 0

\* gc_cnt += tod->trig_delay_tick
TargetIn == DelayTick

\* _gc_get_cnt and _gc_set_cnt
SetGc ==
    /\ pc = "gc"
    /\ gcLeft' = TargetIn
    /\ pc' = "arm" /\ lat' = 0
    /\ UNCHANGED <<trigger_mode, tod, stat_tv, fired, armed, op, call, arg,
                   tstamp, err, timer, age, ref>>

\* Write the registers and set the trigger, HW_TOD_TRIG_SET_FLAG_TRIG.
Arm ==
    /\ pc = "arm"
    /\ armed' = op
    /\ timer' = 0
    /\ pc' = "delay" /\ lat' = 0
    /\ UNCHANGED <<trigger_mode, hwVars, op, call, arg, tstamp, err, age, ref>>

\* _tod_hw_op_poll: mdelay and udelay, then the start of the timeout.
PollStart ==
    /\ pc = "delay" /\ Ready
    /\ timer' = 0
    /\ pc' = "poll" /\ lat' = 0
    /\ UNCHANGED <<trigger_mode, hwVars, armed, op, call, arg, tstamp, err, age, ref>>

NotGoing == fired

\* HW_TOD_TRIG_OP_FLAG_GOING
Going == ~fired

PollRead ==
    /\ pc = "poll"
    /\ pc' = IF Going THEN "late" ELSE "clear"
    /\ lat' = 0
    /\ UNCHANGED <<trigger_mode, hwVars, armed, op, call, arg, tstamp, err, timer, age, ref>>

\* A timeout of zero is none.
PollLate ==
    /\ pc = "late"
    /\ IF PollTimeout # 0 /\ timer > PollTimeout
       THEN err' = TRUE /\ pc' = "clear"
       ELSE err' = FALSE /\ pc' = "poll"
    /\ lat' = 0
    /\ UNCHANGED <<trigger_mode, hwVars, armed, op, call, arg, tstamp, timer, age, ref>>

NoCompensation(t) == t

\* _tod_adjtime: the time at which the write will be triggered.
AtNextTrigger(t) ==
    IF trigger_mode = "GC" THEN AddDelay(t, [ns |-> DelayTick, frac_ns |-> 0])
                       ELSE [t EXCEPT !.seconds = @ + 1]

\* Fetch what was read, clear the trigger, and go on with the call.
Clear ==
    /\ pc = "clear"
    /\ armed' = "none" /\ fired' = FALSE
    /\ LET read == IF op = "RD" /\ ~err THEN FromTicks(stat_tv) ELSE tstamp
       IN  IF call = "adj" /\ op = "RD" /\ ~err
           THEN /\ tstamp' = AdjustBy(AtNextTrigger(read), arg)
                /\ op' = "WR" /\ pc' = FirstStep
           ELSE /\ tstamp' = read
                /\ UNCHANGED op /\ pc' = "ret"
    /\ lat' = 0 /\ timer' = 0
    /\ UNCHANGED <<trigger_mode, tod, stat_tv, gcLeft, call, arg, err, age, ref>>

\* Release reg_lock; the local variables, age and ref end with the call.
Return ==
    /\ pc = "ret"
    /\ pc' = "idle"
    /\ tstamp' = FromTicks(0) /\ err' = FALSE
    /\ op' = "RD" /\ call' = "get" /\ arg' = 0
    /\ lat' = 0 /\ age' = 0 /\ ref' = 0
    /\ UNCHANGED <<trigger_mode, hwVars, armed, timer>>

Step == SetGc \/ Arm \/ PollStart \/ PollRead \/ PollLate \/ Clear \/ Return

TodNext ==
    \/ Tick \/ Step
    \/ Call("get", 0)
    \/ \E t \in Times : Call("set", t)
    \/ \E d \in Deltas : Call("adj", d) \/ Call("adj", -d)

\* Time passes and the driver, with interrupts disabled, goes on.
TodSpec     == TodInit /\ [][TodNext]_todVars
TodFairSpec == TodSpec /\ WF_todVars(Tick) /\ WF_todVars(Step)

-----------------------------------------------------------------------------
(***************************************************************************)
(* Properties.                                                             *)
(***************************************************************************)

Returns(c) == pc = "ret" /\ call = c /\ ~err

\* How far the time x is behind the time the call should lead to.
Behind(x) == (ref - x) % Mod

TodTypeOK ==
    /\ trigger_mode \in TrigModes
    /\ tod \in 0 .. Mod - 1 /\ stat_tv \in 0 .. Mod - 1
    /\ armed \in {"none", "RD", "WR"} /\ op \in {"RD", "WR"}
    /\ fired \in BOOLEAN /\ err \in BOOLEAN
    /\ gcLeft \in 0 .. DelayTick
    /\ pc \in {"idle", "gc", "arm", "delay", "poll", "late", "clear", "ret"}
    /\ call \in {"get", "set", "adj"}
    /\ tstamp.nanoseconds \in 0 .. SEC - 1
    /\ lat \in 0 .. MaxLat

\* adi_tod_gettimex returns a time the clock showed during the call: never
\* one latched for an earlier call.
ReadFresh ==
    Returns("get") =>
        LET ts == ToTimespec(tstamp) IN Behind(ts.tv_sec * SEC + ts.tv_nsec) <= age

\* When adi_tod_settime returns, the clock has been set during the call and
\* has run since.
SetTakesEffect == Returns("set") => Behind(tod) <= age

\* adi_tod_adjtime moves the clock by delta.  With the PPS trigger it is
\* exact, although two triggers and up to two seconds pass.  With the GC
\* trigger the clock loses the time between the two operations, which is no
\* more than the call took besides the two delays, and never gains.
AdjPhase ==
    Returns("adj") =>
        IF trigger_mode = "PPS" THEN Behind(tod) = 0
                            ELSE Behind(tod) + 2 * DelayTick <= age

\* A call returns: the poll with interrupts disabled ends.
CallReturns == (pc # "idle") ~> (pc = "idle")

\* One second and a twentieth is enough to wait for a PPS edge.
NoSpuriousTimeout == ~err
=============================================================================
