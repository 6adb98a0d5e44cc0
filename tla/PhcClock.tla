------------------------------ MODULE PhcClock ------------------------------
(***************************************************************************)
(* The PTP driver as a consumer of the AD9545: adi_ptp_probe, which makes  *)
(* an auxiliary NCO the source of the PLL behind its system clock, and     *)
(* adjfine, which tunes that NCO (ptp_adi.c, ptp_adi_clk.c).  It runs as   *)
(* soon as the clocks are published, beside the rest of ad9545_probe and   *)
(* beside a chip that switches by itself.  Only clk_set_parent runs under  *)
(* the prepare lock of the clock framework, which unregistering takes too. *)
(***************************************************************************)
EXTENDS Ad9545Probe

CONSTANT MaxFreq    \* the largest centre frequency of an NCO (2^56 - 1)

ASSUME TreeFreqs ==
    /\ MaxFreq \in Nat \ {0}
    /\ \A tree \in DeviceTrees : /\ tree.freqs \in [NCOs -> 0 .. MaxFreq]
                                /\ tree.offset \in [NCOs -> 0 .. MaxFreq]

VARIABLES
    ppc,      \* position in adi_ptp_probe, or "up", "adj", "orphan", "error", ...
    clk_ok,   \* adi_phc_clk_probe has succeeded
    want,     \* profile in ad9545_pll_set_parent
    polls,    \* count in ad9545_pll_set_parent
    hw_freq,  \* hw_clk->freq
    asked,    \* history: the frequency last asked of the tuning NCO, by
              \* adjfine or by the device tree
    erred     \* the last call of adjfine returned an error

phcVars == <<ppc, clk_ok, want, polls, hw_freq, asked, erred>>

clockVars == <<chipVars, probeVars, phcVars>>

NotAsked == -1

Tuning   == <<"nco", TuningNco>>
SteerPll == OutputPll(SysClk)

\* With auto-init the chip may be anywhere in what its EEPROM lets it do.
ClockInit ==
    /\ dt \in DeviceTrees
    /\ buf = IF dt.auto THEN EepromRegs ELSE ResetRegs
    /\ live = buf
    /\ valid = Sources
    /\ active = [p \in PLLs |-> 0] /\ idle = [p \in PLLs |-> TRUE]
    /\ used = {} /\ tables = {}
    /\ profiles = [p \in PLLs |-> [j \in Profiles |-> NoPlan]]
    /\ parents = [p \in PLLs |-> <<>>]
    /\ nco_requested = [n \in NCOs |-> 0]
    /\ registered = {} /\ cached = [p \in PLLs |-> NoClk] /\ published = FALSE
    /\ drv = "run" /\ pos = 1 /\ tries = 0 /\ post = NoProfile
    /\ ppc = "wait" /\ clk_ok = FALSE /\ want = NoProfile /\ polls = 0
    /\ hw_freq = 0 /\ asked = NotAsked /\ erred = FALSE

-----------------------------------------------------------------------------
(***************************************************************************)
(* adi_ptp_probe.                                                          *)
(***************************************************************************)

PtpAt(where) == ppc = where

PtpGoes(where) ==
    /\ ppc' = where
    /\ want' = NoProfile /\ polls' = 0
    /\ UNCHANGED <<hw_freq, asked, erred>>

\* adi_phc_clk_probe returns -ENODEV, whatever the error was.
ClkProbeFails == PtpGoes("register") /\ clk_ok' = FALSE

\* Chip memory is used after ad9545_probe has failed and freed it.
Gone == drv = "failed" /\ PtpGoes("gone") /\ UNCHANGED <<chipVars, clk_ok>>

\* devm_clk_get of sys_clk is deferred until the clocks are published, and
\* gives NULL for an output that is not used; the result of adi_tod_probe is
\* forgotten.  Memory or registers may be missing.
PtpStart ==
    /\ PtpAt("wait") /\ published
    /\ \/ PtpGoes("clk")
       \/ AccessMayFail /\ PtpGoes("error")
    /\ UNCHANGED <<chipVars, clk_ok>>

\* phc_clk_i2c_probe: the tuning clock, which is NULL when it is not used,
\* and the PLL that is the parent of the system clock.
PtpGetClks ==
    /\ PtpAt("clk")
    /\ IF published /\ {<<"out", SysClk>>, <<"pll", SteerPll>>} \subseteq registered
       THEN PtpGoes("parent") /\ UNCHANGED clk_ok
       ELSE ClkProbeFails
    /\ UNCHANGED chipVars

\* The profile for a clock: clk_set_parent looks for its index among the
\* parents, and ad9545_pll_set_parent for a profile with that index.
ProfileOf(p, c) ==
    LET places == {k \in 1 .. Len(parents[p]) : parents[p][k] = c}
    IN  IF places = {} THEN NoProfile
        ELSE ProfileFor(p, (CHOOSE k \in places : \A i \in places : k <= i) - 1)

\* clk_set_parent up to the poll of ad9545_pll_set_parent.  Without a clock
\* to be the parent nothing but the framework's record changes.
PtpSetParent ==
    LET p       == SteerPll
        profile == ProfileOf(p, Tuning)
    IN  /\ PtpAt("parent")
        /\ \/ /\ drv # "failed" /\ Tuning \notin registered
              /\ cached' = [cached EXCEPT ![p] = NoClk]
              /\ PtpGoes("tune")
              /\ UNCHANGED <<dt, buf, live, hwState, stState, registered, published, clk_ok>>
           \/ /\ drv # "failed" /\ Tuning \in registered /\ cached[p] = Tuning
              /\ PtpGoes("tune") /\ UNCHANGED <<chipVars, clk_ok>>
           \/ /\ drv # "failed" /\ Tuning \in registered /\ cached[p] # Tuning
              /\ profile # NoProfile
              /\ buf' = [buf EXCEPT !.mode[0] = profile]
              /\ ppc' = "poll" /\ want' = profile /\ polls' = 0
              /\ UNCHANGED <<dt, live, hwState, stState, clkState, clk_ok, hw_freq, asked, erred>>
           \/ /\ \/ drv = "failed" \/ AccessMayFail
                 \/ Tuning \in registered /\ cached[p] # Tuning /\ profile = NoProfile
              /\ ClkProbeFails /\ UNCHANGED chipVars

\* One look too many.
MorePollsLate == polls < MaxPolls

\* while (count < 100)
MorePolls == polls + 1 < MaxPolls

\* One round of the poll.  The active profile is read whether or not the PLL
\* is in holdover.
PtpPoll ==
    /\ PtpAt("poll")
    /\ \/ /\ Commit(buf)
          /\ UNCHANGED <<dt, hwState, stState, registered, published>>
          /\ IF active[0] = want
             THEN /\ cached' = [cached EXCEPT ![SteerPll] = Tuning]
                  /\ PtpGoes("tune") /\ UNCHANGED clk_ok
             ELSE /\ UNCHANGED cached
                  /\ IF MorePolls
                     THEN polls' = polls + 1 /\ UNCHANGED <<ppc, clk_ok, want, hw_freq, asked, erred>>
                     ELSE ClkProbeFails
       \/ AccessMayFail /\ ClkProbeFails /\ UNCHANGED chipVars

\* ad9545_get_aux_nco_tuning_freq
PtpGetTuning ==
    /\ PtpAt("tune")
    /\ \/ Gone
       \/ drv # "failed" /\ Tuning \notin registered
          /\ PtpGoes("oops") /\ UNCHANGED <<chipVars, clk_ok>>
       \/ /\ drv # "failed" /\ Tuning \in registered
          /\ Commit(buf)
          /\ hw_freq' = NcoFreq(buf, TuningNco)
          /\ ppc' = "register" /\ clk_ok' = TRUE
          /\ UNCHANGED <<dt, hwState, stState, clkState, want, polls, asked, erred>>
       \/ AccessMayFail /\ ClkProbeFails /\ UNCHANGED chipVars

\* ptp_clock_register, whatever adi_phc_clk_probe has returned.  When that
\* was an error the probe returns it, with the clock registered.
PtpRegister ==
    /\ PtpAt("register")
    /\ \/ PtpGoes(IF clk_ok THEN "up" ELSE "orphan")
       \/ AccessMayFail /\ PtpGoes("error")
    /\ UNCHANGED <<chipVars, clk_ok>>

-----------------------------------------------------------------------------
(***************************************************************************)
(* Calls.                                                                  *)
(***************************************************************************)

\* ad9545_adjfine and ad9545_set_aux_nco_tuning_freq up to the update.  The
\* adjustment d is a fraction of the frequency that was read.  Only the centre
\* frequency is written, although the offset was counted in; one that does not
\* fit into the register is refused.
AdjFine(d) ==
    /\ PtpAt("up") /\ (hw_freq = 0 => d = 0)
    /\ \/ Gone
       \/ /\ drv # "failed" /\ hw_freq + d <= MaxFreq
          /\ buf' = [buf EXCEPT !.nco[TuningNco] = hw_freq + d]
          /\ asked' = hw_freq + d /\ ppc' = "adj"
          /\ UNCHANGED <<dt, live, hwState, stState, clkState, clk_ok, want, polls, hw_freq, erred>>
       \/ /\ drv # "failed" /\ (hw_freq + d > MaxFreq \/ AccessMayFail)
          /\ erred' = TRUE
          /\ UNCHANGED <<chipVars, ppc, clk_ok, want, polls, hw_freq, asked>>

\* Only the registers are written.
NoUpdate == UNCHANGED <<buf, live>>

\* The ad9545_io_update at the end of ad9545_set_aux_nco_tuning_freq
TuningUpdate == Commit(buf)

AdjFineUpdate ==
    /\ PtpAt("adj")
    /\ \/ Gone
       \/ /\ drv # "failed"
          /\ TuningUpdate
          /\ erred' = FALSE /\ ppc' = "up"
          /\ UNCHANGED <<dt, hwState, stState, clkState, clk_ok, want, polls, hw_freq, asked>>
       \/ /\ drv # "failed" /\ AccessMayFail
          /\ erred' = TRUE /\ ppc' = "up"
          /\ UNCHANGED <<chipVars, clk_ok, want, polls, hw_freq, asked>>

\* adi_ptp_remove; the NCO keeps its frequency.
PtpRemove ==
    /\ PtpAt("up")
    /\ PtpGoes("removed")
    /\ UNCHANGED <<chipVars, clk_ok>>

-----------------------------------------------------------------------------
\* ad9545_aux_ncos_post_setup sets the frequency the device tree asks for.
TrackAsked ==
    asked' = IF At("ncos_post") /\ drv' # "failed" /\ nco_requested[TuningNco] # 0
             THEN nco_requested[TuningNco] ELSE asked

ProbeThread ==
    /\ ProbeStep
    /\ drv' = "failed" => ~PtpAt("poll")
    /\ TrackAsked
    /\ UNCHANGED <<ppc, clk_ok, want, polls, hw_freq, erred>>

PtpThread ==
    /\ PtpStart \/ PtpGetClks \/ PtpSetParent \/ PtpPoll \/ PtpGetTuning \/ PtpRegister
       \/ AdjFineUpdate
    /\ UNCHANGED probeVars

ClockNext ==
    \/ ProbeThread
    \/ PtpThread
    \/ (PtpRemove \/ \E d \in {0, 1} : AdjFine(d)) /\ UNCHANGED probeVars
    \/ (HwSource \/ \E p \in PLLs : HwSelect(p) \/ HwHold(p)) /\ UNCHANGED <<probeVars, phcVars>>

\* Both probes run in kernel threads that go on; nobody has to call.
ClockSpec == ClockInit /\ [][ClockNext]_clockVars
                       /\ WF_clockVars(ProbeThread) /\ WF_clockVars(PtpThread)

-----------------------------------------------------------------------------
(***************************************************************************)
(* Properties.                                                             *)
(***************************************************************************)

ChipTypeOK ==
    /\ dt \in DeviceTrees
    /\ drv \in {"run", "done", "failed", "oops"} /\ pos \in 1 .. Len(Stages)
    /\ \A p \in PLLs : /\ active[p] \in Profiles
                       /\ live.mode[p] \in Profiles \cup {NoProfile}
                       /\ Len(parents[p]) <= MAX_DPLL_PROFILES
    /\ ppc \in {"wait", "clk", "parent", "poll", "tune", "register",
                "up", "adj", "removed", "orphan", "error", "oops", "gone"}
    /\ polls \in 0 .. MaxPolls - 1 /\ hw_freq \in 0 .. 2 * MaxFreq

\* A consumer that finds the provider finds all clocks: the rows of clks[]
\* that ad9545_clk_hw_twocell_get looks into are there, and every clock in
\* use is registered (references are not given out).
PublishedComplete ==
    published => /\ tables = {"out", "pll", "nco", "tdc"}
                 /\ {c \in used : c[1] # "ref"} \subseteq registered

\* The clock the framework takes for the parent of a PLL after a change is
\* the source of the profile that the chip has made active, although the
\* post setup rewrites profiles and the chip switches meanwhile.  (A PLL
\* with a single parent is registered under it without a look at the chip.)
ParentIsSource ==
    [][\A p \in PLLs :
          /\ cached'[p] # cached[p] /\ cached'[p] # NoClk
          /\ published \/ Len(parents[p]) > 1
          => live'.prof[p][active'[p]].source = cached'[p]]_clockVars

\* An offset frequency from the EEPROM that no frequency of the device tree
\* has replaced.
LeftOffset == IF dt.auto /\ dt.freqs[TuningNco] = 0 THEN dt.offset[TuningNco] ELSE 0

\* When the set-up has ended, no call is under way and the last succeeded, all
\* that was written is in effect, and the NCO runs at the frequency that was
\* asked for last, by adjfine or by the device tree, with nothing added but
\* the offset that the EEPROM left there.
AllInEffect ==
    drv = "done" /\ ppc \in {"wait", "up", "removed"} /\ ~erred =>
        /\ buf = live
        /\ asked # NotAsked => NcoFreq(live, TuningNco) = asked + LeftOffset

PtpBusy == ppc \in {"clk", "parent", "poll", "tune", "register", "adj"}

\* The probe of the chip ends, whatever locks or does not, and so do the
\* probe of the PTP clock and adjfine.
ProbesEnd == <>(drv # "run") /\ (PtpBusy ~> ~PtpBusy)
=============================================================================
