----------------------------- MODULE Ad9545Probe -----------------------------
(***************************************************************************)
(* ad9545_probe: check the chip, parse the device tree, then set the chip  *)
(* up or read how its EEPROM has set it up, register the clocks, publish   *)
(* the provider, and the post setup.  Until the provider is published      *)
(* nobody else has access to the chip; the rest runs with consumers        *)
(* around, and without the framework's lock.                               *)
(*                                                                         *)
(* A stage is a function of the driver.  A stage that fails ends the probe *)
(* and the device resources are released; what it had written so far is    *)
(* left out, as nobody looks at the chip from then on.                     *)
(***************************************************************************)
EXTENDS Ad9545, SequencesExt

VARIABLES
    drv,       \* "run", or how the probe ended: "done", "failed", "oops"
    pos,       \* the stage
    tries,     \* of the calibration of the system clock
    post       \* active_profile in ad9545_plls_post_setup

probeVars == <<drv, pos, tries, post>>

S(name) == <<name, 0>>

PllStages(profs) == <<<<profs, 0>>, S("register"), <<profs, 1>>, <<"register", 1>>>>

\* ad9545_parse_dt
ParseStages == <<S("parse_sys"), S("parse_inputs"), S("parse_plls"), S("parse_outputs"),
                 S("parse_ncos"), S("parse_tdcs"), S("parse_aux")>>

\* Published before the outputs are there.
SetupEarly ==
    <<S("reset"), S("sys_clk"), S("refs"), S("ncos"), S("calib_sys"), S("tdcs"),
      S("aux_dpll"), S("calib_aplls"), S("io_update")>> \o PllStages("profiles") \o
    <<S("provider"), S("outputs"), S("calib_aplls"), S("check_locks")>>

\* ad9545_setup
SetupStages ==
    <<S("reset"), S("sys_clk"), S("refs"), S("ncos"), S("calib_sys"), S("tdcs"),
      S("aux_dpll"), S("calib_aplls"), S("io_update")>> \o PllStages("profiles") \o
    <<S("outputs"), S("provider"), S("calib_aplls"), S("check_locks")>>

\* ad9545_read_setup
ReadStages ==
    <<S("io_update"), S("sys_clk_read"), S("refs_read"), S("ncos_read"), S("tdcs_read"),
      S("aux_dpll_read")>> \o PllStages("profiles_read") \o
    <<S("outputs_read"), S("provider"), S("check_locks")>>

\* ad9545_post_setup
PostStages ==
    <<S("nco_freqs"), S("nco_profiles"), S("ncos_post"), S("post_read"), S("post_write"),
      <<"post_read", 1>>, <<"post_write", 1>>>>

\* ad9545_probe
Stages == <<S("check_id")>> \o (IF dt.auto THEN ReadStages ELSE ParseStages \o SetupStages)
                            \o PostStages

At(name) == drv = "run" /\ Stages[pos][1] = name
Arg      == Stages[pos][2]

Ends(how) == drv' = how /\ UNCHANGED <<pos, tries, post>>

GoOn ==
    /\ IF pos < Len(Stages) THEN pos' = pos + 1 /\ UNCHANGED drv
                            ELSE drv' = "done" /\ UNCHANGED pos
    /\ tries' = 0 /\ post' = NoProfile

Quiet == UNCHANGED <<dt, hwState>>

\* An error is returned: the provider goes and then the clocks.
Fail ==
    /\ Ends("failed")
    /\ published' = FALSE /\ registered' = {} /\ tables' = {}
    /\ cached' = [p \in PLLs |-> NoClk]
    /\ UNCHANGED <<dt, buf, live, hwState, used, profiles, parents, nco_requested>>

\* A register access, an allocation, devm_clk_get or a registration fails.
\* ad9545_check_locks forgets the result of its first read, and
\* ad9545_plls_post_setup that of ad9545_pll_get_active_freq.
AccessError ==
    /\ AccessMayFail /\ drv = "run"
    /\ Stages[pos][1] # "post_read"
    /\ Stages[pos][1] = "check_locks" => <<"aux", 0>> \in used
    /\ Fail

\* A stage that only looks.
Looks(name) == At(name) /\ GoOn /\ UNCHANGED chipVars

CheckId    == Looks("check_id")
SysClkRead == Looks("sys_clk_read")
CheckLocks == Looks("check_locks")

-----------------------------------------------------------------------------
(***************************************************************************)
(* Parsing.  A node is "none", "ok" or "bad": one without a property it    *)
(* needs or with a value out of range, which ends the probe.               *)
(***************************************************************************)

ParseSys ==
    /\ At("parse_sys")
    /\ IF dt.sys = "missing" THEN Fail ELSE GoOn /\ UNCHANGED chipVars

ParseNodes(name, kind, nodes) ==
    /\ At(name)
    /\ IF \E i \in DOMAIN nodes : nodes[i] = "bad" THEN Fail
       ELSE /\ used' = used \cup {<<kind, i>> : i \in {k \in DOMAIN nodes : nodes[k] # "none"}}
            /\ GoOn /\ Quiet
            /\ UNCHANGED <<buf, live, profiles, parents, nco_requested, tables, clkState>>

ParseInputs  == ParseNodes("parse_inputs", "ref", dt.ref)
ParseOutputs == ParseNodes("parse_outputs", "out", dt.out)
ParseNcos    == ParseNodes("parse_ncos", "nco", dt.nco)
ParseTdcs    == ParseNodes("parse_tdcs", "tdc", dt.tdc)
ParseAux     == ParseNodes("parse_aux", "aux", dt.aux)

\* Where the parsing of the profiles of a PLL stops.
FirstFault(p) ==
    LET faults == {j \in Profiles : dt.prof[p][j] \in {"bad", "bad_fb_path"}}
    IN  IF faults = {} THEN NoProfile ELSE CHOOSE j \in faults : \A i \in faults : j <= i

Faulty(p) == dt.pll[p] = "ok" /\ FirstFault(p) # NoProfile /\ dt.prof[p][FirstFault(p)] = "bad"

\* ad9545_parse_dt_pll_profiles: an invalid internal-zero-delay-fb-path ends
\* the loop without an error, with the profile enabled and its source unset.
ParsedProfile(p, j) ==
    IF dt.pll[p] # "ok" \/ dt.prof[p][j] = "off" \/ j > FirstFault(p) THEN NoPlan
    ELSE [NoPlan EXCEPT !.en = TRUE,
                        !.source = IF j = FirstFault(p) THEN @ ELSE dt.source[p][j]]

\* ad9545_parse_dt_plls
ParsePlls ==
    /\ At("parse_plls")
    /\ IF \E p \in PLLs : dt.pll[p] = "bad" \/ Faulty(p) THEN Fail
       ELSE /\ used' = used \cup {<<"pll", p>> : p \in {q \in PLLs : dt.pll[q] = "ok"}}
            /\ profiles' = [p \in PLLs |-> [j \in Profiles |-> ParsedProfile(p, j)]]
            /\ GoOn /\ Quiet
            /\ UNCHANGED <<buf, live, parents, nco_requested, tables, clkState>>

-----------------------------------------------------------------------------
(***************************************************************************)
(* Setting up the chip.                                                    *)
(***************************************************************************)

UsedOf(kind) == {c \in used : c[1] = kind}

\* AD9545_RESET_REGS
ResetChip ==
    /\ At("reset") /\ GoOn /\ Commit(ResetRegs)
    /\ idle' = [p \in PLLs |-> TRUE]
    /\ UNCHANGED <<dt, active, valid, stState, clkState>>

\* ad9545_sys_clk_setup
SysClkSetup ==
    /\ At("sys_clk")
    /\ IF dt.sys = "no_divider" THEN Fail
       ELSE GoOn /\ Quiet /\ Stage(Written(buf, "sys_clk")) /\ UNCHANGED <<stState, clkState>>

\* The dividers are set for all references, and that of an unused one is 0:
\* -EINVAL.  clk_get_rate may give 0.
RefsRejected ==
    \E r \in Refs : <<"ref", r>> \notin used \/ dt.ref[r] = "no_rate"

\* ad9545_input_refs_setup: set_r_div updates, the rest is only buffered.
InputRefsSetup ==
    /\ At("refs")
    /\ IF RefsRejected THEN Fail
       ELSE /\ buf' = Written(Written(buf, "r_div"), "ref")
            /\ live' = Written(buf, "r_div")
            /\ registered' = registered \cup UsedOf("ref")
            /\ GoOn /\ Quiet /\ UNCHANGED <<stState, cached, published>>

\* Allocate a row of clks[], write what the clocks need and register them.
RegisterKind(name, kind, group) ==
    /\ At(name) /\ GoOn /\ Quiet
    /\ tables' = tables \cup {kind}
    /\ Stage(IF UsedOf(kind) = {} THEN buf ELSE Written(buf, group))
    /\ registered' = registered \cup UsedOf(kind)
    /\ UNCHANGED <<used, profiles, parents, nco_requested, cached, published>>

AuxNcosSetup == RegisterKind("ncos", "nco", "nco_thresh")
AuxTdcsSetup == RegisterKind("tdcs", "tdc", "mx_pin")

\* A loop without an end.
TriesForever == FALSE

\* i < 2 in ad9545_calib_system_clock: no try is left.
LastTry == tries = 1

\* ad9545_calib_system_clock: one of two tries; the system PLL locks or not.
CalibSystemClock ==
    /\ At("calib_sys")
    /\ \/ GoOn /\ Quiet /\ Commit(buf) /\ UNCHANGED <<stState, clkState>>
       \/ LastTry /\ Fail
       \/ /\ ~LastTry /\ tries' = 1 - tries
          /\ Commit(buf) /\ Quiet
          /\ UNCHANGED <<drv, pos, post, stState, clkState>>

\* ad9545_aux_dpll_setup
AuxDpllSetup ==
    /\ At("aux_dpll")
    /\ IF dt.aux[0] = "no_source" THEN Fail
       ELSE /\ Stage(IF UsedOf("aux") = {} THEN buf ELSE Written(buf, "aux_dpll"))
            /\ registered' = registered \cup UsedOf("aux")
            /\ GoOn /\ Quiet /\ UNCHANGED <<stState, cached, published>>

\* ad9545_calib_aplls: of every PLL used.  Two tries without a lock are no
\* error.
CalibAplls ==
    /\ At("calib_aplls") /\ GoOn /\ Quiet
    /\ IF UsedOf("pll") = {} THEN UNCHANGED <<buf, live>> ELSE Commit(Written(buf, "calib"))
    /\ UNCHANGED <<stState, clkState>>

IoUpdate == At("io_update") /\ GoOn /\ Quiet /\ Commit(buf) /\ UNCHANGED <<stState, clkState>>

\* ad9545_plls_setup, the profiles of a PLL that is used: the parents, the
\* profile registers, each written and updated, and fast acquisition
\* (ad9545_pll_fast_acq_setup), which refuses times it does not know.
PllProfiles ==
    LET p     == Arg
        plans == Numbered(profiles[p])
        regs  == [buf EXCEPT !.prof[p] = [j \in Profiles |->
                     IF plans[j].en THEN ProfileRegs(buf, p, j, plans[j]).prof[p][j] ELSE @[j]]]
    IN  /\ At("profiles")
        /\ IF <<"pll", p>> \notin used
           THEN GoOn /\ UNCHANGED <<chipVars>>
           ELSE IF dt.fast = "wrong" /\ (\E j \in Profiles : plans[j].en)
           THEN Fail
           ELSE /\ profiles' = [profiles EXCEPT ![p] = plans]
                /\ parents' = [parents EXCEPT ![p] = Parents(plans)]
                /\ buf' = IF dt.fast = "ok" THEN Written(regs, "fast_acq") ELSE regs
                /\ live' = IF regs = buf THEN live ELSE regs
                /\ GoOn /\ Quiet
                /\ UNCHANGED <<used, nco_requested, tables, clkState>>

\* devm_clk_hw_register of a PLL, in both kinds of setup: the framework asks
\* for the parent and the rate, and both answers begin with an io_update.
RegisterPll ==
    LET p == Arg
    IN  /\ At("register") /\ GoOn /\ Quiet
        /\ tables' = tables \cup {"pll"}
        /\ IF <<"pll", p>> \notin used THEN UNCHANGED <<buf, live, registered, cached>>
           ELSE /\ Commit(buf)
                /\ registered' = registered \cup {<<"pll", p>>}
                /\ cached' = [cached EXCEPT ![p] = InitialParent(p)]
        /\ UNCHANGED <<used, profiles, parents, nco_requested, published>>

\* ad9545_outputs_setup
OutputsSetup ==
    /\ At("outputs") /\ GoOn /\ Quiet
    /\ tables' = tables \cup {"out"}
    /\ registered' = registered \cup UsedOf("out")
    /\ Commit(Written(Written(buf, "driver"), "sync"))
    /\ UNCHANGED <<used, profiles, parents, nco_requested, cached, published>>

\* devm_of_clk_add_hw_provider
Provider ==
    /\ At("provider") /\ GoOn /\ Quiet
    /\ published' = TRUE
    /\ UNCHANGED <<buf, live, stState, registered, cached>>

-----------------------------------------------------------------------------
(***************************************************************************)
(* Reading how the chip has been set up.                                   *)
(***************************************************************************)

\* Clocks of a kind that the registers show, or that the driver always
\* takes as used, are marked used and registered.
ReadKind(name, kind, found) ==
    /\ At(name) /\ GoOn /\ Quiet
    /\ used' = used \cup {<<kind, i>> : i \in found}
    /\ registered' = registered \cup {<<kind, i>> : i \in found}
    /\ tables' = IF kind = "aux" THEN tables ELSE tables \cup {kind}
    /\ UNCHANGED <<buf, live, profiles, parents, nco_requested, cached, published>>

Powered(nodes) == {i \in DOMAIN nodes : nodes[i] # "none"}

\* ad9545_input_refs_read_setup: the period in the register must be that of
\* the clock.  From the hysteresis on a failing read returns 0, and the
\* references that remain are not registered.
InputRefsReadSetup ==
    /\ At("refs_read")
    /\ IF \E r \in Powered(dt.ref) : dt.ref[r] \in {"bad", "no_rate"} THEN Fail
       ELSE \E r \in Powered(dt.ref) \cup {MAX_REFS} :
               /\ r # MAX_REFS => AccessMayFail
               /\ used' = used \cup {<<"ref", i>> : i \in Powered(dt.ref)}
               /\ registered' = registered \cup
                                {<<"ref", i>> : i \in {k \in Powered(dt.ref) : k < r}}
               /\ GoOn /\ Quiet
               /\ UNCHANGED <<buf, live, profiles, parents, nco_requested, tables, cached, published>>

AuxNcosReadSetup == ReadKind("ncos_read", "nco", NCOs)
AuxTdcsReadSetup == ReadKind("tdcs_read", "tdc", TDCs)

\* The two outputs of a divider share the power-down bit of the first.
PoweredPairs(nodes) == {i \in DOMAIN nodes : nodes[i - (i % 2)] # "none"}

OutputsReadSetup == ReadKind("outputs_read", "out", PoweredPairs(dt.out))

\* ad9545_aux_dpll_read_setup
AuxDpllReadSetup ==
    IF At("aux_dpll_read") /\ dt.aux[0] = "no_source" THEN Fail
    ELSE ReadKind("aux_dpll_read", "aux", {0})

\* ad9545_plls_read_setup, the profiles of a PLL.
PllProfilesRead ==
    LET p     == Arg
        plans == Numbered([j \in Profiles |-> ReadProfile(p, j)])
    IN  /\ At("profiles_read")
        /\ IF \E j \in Profiles : plans[j].en /\ plans[j].source[1] = "feedback" THEN Fail
           ELSE /\ used' = used \cup {<<"pll", p>>}
                /\ profiles' = [profiles EXCEPT ![p] = plans]
                /\ parents' = [parents EXCEPT ![p] = Parents(plans)]
                /\ Commit(buf) /\ GoOn /\ Quiet
                /\ UNCHANGED <<nco_requested, tables, clkState>>

-----------------------------------------------------------------------------
(***************************************************************************)
(* The post setup.                                                         *)
(***************************************************************************)

\* adi,set-aux-nco-frequencies
SetNcoFreqs ==
    /\ At("nco_freqs")
    /\ IF dt.lists = "bad" THEN Fail
       ELSE /\ nco_requested' = dt.freqs
            /\ GoOn /\ Quiet
            /\ UNCHANGED <<buf, live, used, profiles, parents, tables, clkState>>

IsNco(source) == source[1] = "nco"

\* "find an unused profile"
Unused(profs) ==
    LET free == {j \in Profiles : ~profs[j].en /\ ~IsNco(profs[j].source)}
    IN  IF free = {} THEN NoProfile ELSE CHOOSE j \in free : \A i \in free : j <= i

\* One pair of adi,add-dpll-aux-nco-profiles; full once no profile is free.
AddNcoProfile(sofar, pair) ==
    LET j == Unused(sofar.profiles[pair[1]])
    IN  IF sofar.full \/ j = NoProfile THEN [sofar EXCEPT !.full = TRUE]
        ELSE [sofar EXCEPT !.profiles[pair[1]][j].source = <<"nco", pair[2]>>]

AddNcoProfiles ==
    LET added == FoldLeft(AddNcoProfile, [full |-> FALSE, profiles |-> profiles], dt.adds)
    IN  /\ At("nco_profiles")
        /\ IF added.full THEN Fail
           ELSE /\ profiles' = added.profiles
                /\ GoOn /\ Quiet
                /\ UNCHANGED <<buf, live, used, parents, nco_requested, tables, clkState>>

\* ad9545_aux_ncos_post_setup: ad9545_nco_clk_setup for a requested rate,
\* without an offset.
AuxNcosPostSetup ==
    /\ At("ncos_post") /\ GoOn /\ Quiet
    /\ IF \A n \in NCOs : nco_requested[n] = 0 THEN UNCHANGED <<buf, live>>
       ELSE Commit([buf EXCEPT !.nco = [n \in NCOs |->
                       IF nco_requested[n] = 0 THEN @[n] ELSE nco_requested[n]],
                                       !.off = [n \in NCOs |->
                       IF nco_requested[n] = 0 THEN @[n] ELSE 0]])
    /\ UNCHANGED <<stState, clkState>>

\* ad9545_pll_get_active_freq succeeds: locked to a reference without the
\* hitless mode.
HasActiveFreq(p) ==
    /\ ActiveProfile(p) # NoProfile
    /\ ~dt.hitless
    /\ live.prof[p][active[p]].source[1] = "ref"

\* The head of the loop of ad9545_plls_post_setup.  pll->st is only set for
\* a PLL that is used.  Without an active frequency the function returns 0,
\* and the other PLL is not looked at.
PostRead ==
    LET p == Arg
    IN  /\ At("post_read")
        /\ IF <<"pll", p>> \notin used THEN Ends("oops") /\ UNCHANGED chipVars
           ELSE /\ Commit(buf) /\ Quiet
                /\ UNCHANGED <<tries, stState, clkState>>
                /\ \/ /\ HasActiveFreq(p)
                      /\ post' = active[p] /\ pos' = pos + 1 /\ UNCHANGED drv
                   \/ /\ ~HasActiveFreq(p) \/ AccessMayFail
                      /\ drv' = "done" /\ UNCHANGED <<pos, post>>

\* Profiles of NCOs become copies of the active one: *p = profiles[active].
NcoProfiles(p) == {j \in Profiles : IsNco(profiles[p][j].source)}

Requested(p, j) == nco_requested[profiles[p][j].source[2]] # 0

PostWriteFails(p) ==
    \E j \in NcoProfiles(p) :
        IF Requested(p, j) THEN profiles[p][j].source \notin valid ELSE ~profiles[p][j].en

PostCopies(p) ==
    [j \in Profiles |->
        IF j \in NcoProfiles(p) /\ Requested(p, j)
        THEN [profiles[p][post] EXCEPT !.source = profiles[p][j].source]
        ELSE profiles[p][j]]

PostRegs(p) ==
    [buf EXCEPT !.prof[p] = [j \in Profiles |->
        IF j \in NcoProfiles(p) /\ Requested(p, j)
        THEN [en |-> PostCopies(p)[j].en, source |-> PostCopies(p)[j].source] ELSE @[j]]]

StagedOnly(regs) == Stage(regs)

\* ad9545_pll_write_profile ends with ad9545_io_update
WriteProfiles(regs) == Commit(regs)

\* The loop over the profiles of ad9545_plls_post_setup
PostWrite ==
    LET p == Arg
    IN  /\ At("post_write")
        /\ IF PostWriteFails(p) THEN Fail
           ELSE /\ profiles' = [profiles EXCEPT ![p] = PostCopies(p)]
                /\ IF PostRegs(p) = buf THEN UNCHANGED <<buf, live>> ELSE WriteProfiles(PostRegs(p))
                /\ GoOn /\ Quiet
                /\ UNCHANGED <<used, parents, nco_requested, tables, clkState>>

ProbeStep ==
    \/ AccessError \/ CheckId
    \/ ParseSys \/ ParseInputs \/ ParsePlls \/ ParseOutputs \/ ParseNcos \/ ParseTdcs \/ ParseAux
    \/ ResetChip \/ SysClkSetup \/ InputRefsSetup \/ AuxNcosSetup \/ CalibSystemClock
    \/ AuxTdcsSetup \/ AuxDpllSetup \/ CalibAplls \/ IoUpdate
    \/ PllProfiles \/ RegisterPll \/ OutputsSetup \/ Provider \/ CheckLocks
    \/ SysClkRead \/ InputRefsReadSetup \/ AuxNcosReadSetup \/ AuxTdcsReadSetup
    \/ AuxDpllReadSetup \/ PllProfilesRead \/ OutputsReadSetup
    \/ SetNcoFreqs \/ AddNcoProfiles \/ AuxNcosPostSetup \/ PostRead \/ PostWrite
=============================================================================
