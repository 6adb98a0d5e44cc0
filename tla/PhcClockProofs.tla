--------------------------- MODULE PhcClockProofs ---------------------------
(***************************************************************************)
(* Proofs about the AD9545 and the PTP driver that uses it (PhcClock), for *)
(* every device tree and EEPROM, any number of references, profiles and    *)
(* looks at the active profile, and with or without errors of the bus.     *)
(***************************************************************************)
EXTENDS PhcClock, FiniteSetTheorems, TLAPS

(***************************************************************************)
(* The stages of both kinds of probe.                                      *)
(***************************************************************************)

StageName(i) == Stages[i][1]
StageArg(i)  == Stages[i][2]

LEMMA SetupTable ==
  ASSUME ~dt.auto
  PROVE  /\ Len(Stages) = 32
         /\ StageName(1) = "check_id" /\ StageName(2) = "parse_sys"
         /\ StageName(3) = "parse_inputs" /\ StageName(4) = "parse_plls"
         /\ StageName(5) = "parse_outputs" /\ StageName(6) = "parse_ncos"
         /\ StageName(7) = "parse_tdcs" /\ StageName(8) = "parse_aux"
         /\ StageName(9) = "reset" /\ StageName(10) = "sys_clk"
         /\ StageName(11) = "refs" /\ StageName(12) = "ncos"
         /\ StageName(13) = "calib_sys" /\ StageName(14) = "tdcs"
         /\ StageName(15) = "aux_dpll" /\ StageName(16) = "calib_aplls"
         /\ StageName(17) = "io_update"
         /\ StageName(18) = "profiles" /\ StageArg(18) = 0
         /\ StageName(19) = "register" /\ StageArg(19) = 0
         /\ StageName(20) = "profiles" /\ StageArg(20) = 1
         /\ StageName(21) = "register" /\ StageArg(21) = 1
         /\ StageName(22) = "outputs" /\ StageName(23) = "provider"
         /\ StageName(24) = "calib_aplls" /\ StageName(25) = "check_locks"
         /\ StageName(26) = "nco_freqs" /\ StageName(27) = "nco_profiles"
         /\ StageName(28) = "ncos_post"
         /\ StageName(29) = "post_read" /\ StageArg(29) = 0
         /\ StageName(30) = "post_write" /\ StageArg(30) = 0
         /\ StageName(31) = "post_read" /\ StageArg(31) = 1
         /\ StageName(32) = "post_write" /\ StageArg(32) = 1
  BY DEF StageName, StageArg, Stages, S, ParseStages, SetupStages, PllStages, PostStages

LEMMA SetupAt ==
  ASSUME ~dt.auto, pos \in 1 .. Len(Stages)
  PROVE  /\ (At("check_id") => pos = 1) /\ (At("parse_sys") => pos = 2)
         /\ (At("parse_inputs") => pos = 3) /\ (At("parse_plls") => pos = 4)
         /\ (At("parse_outputs") => pos = 5) /\ (At("parse_ncos") => pos = 6)
         /\ (At("parse_tdcs") => pos = 7) /\ (At("parse_aux") => pos = 8)
         /\ (At("reset") => pos = 9) /\ (At("sys_clk") => pos = 10)
         /\ (At("refs") => pos = 11) /\ (At("ncos") => pos = 12)
         /\ (At("calib_sys") => pos = 13) /\ (At("tdcs") => pos = 14)
         /\ (At("aux_dpll") => pos = 15)
         /\ (At("calib_aplls") => pos \in {16, 24})
         /\ (At("io_update") => pos = 17)
         /\ (At("profiles") => (pos = 18 /\ Arg = 0) \/ (pos = 20 /\ Arg = 1))
         /\ (At("register") => (pos = 19 /\ Arg = 0) \/ (pos = 21 /\ Arg = 1))
         /\ (At("outputs") => pos = 22) /\ (At("provider") => pos = 23)
         /\ (At("check_locks") => pos = 25) /\ (At("nco_freqs") => pos = 26)
         /\ (At("nco_profiles") => pos = 27) /\ (At("ncos_post") => pos = 28)
         /\ (At("post_read") => (pos = 29 /\ Arg = 0) \/ (pos = 31 /\ Arg = 1))
         /\ (At("post_write") => (pos = 30 /\ Arg = 0) \/ (pos = 32 /\ Arg = 1))
         /\ ~At("sys_clk_read") /\ ~At("refs_read") /\ ~At("ncos_read")
         /\ ~At("tdcs_read") /\ ~At("aux_dpll_read") /\ ~At("profiles_read")
         /\ ~At("outputs_read")
<1>1. pos \in 1 .. 32
  BY SetupTable
<1>2.
      \/ pos = 1 /\ StageName(pos) = "check_id"
      \/ pos = 2 /\ StageName(pos) = "parse_sys"
      \/ pos = 3 /\ StageName(pos) = "parse_inputs"
      \/ pos = 4 /\ StageName(pos) = "parse_plls"
      \/ pos = 5 /\ StageName(pos) = "parse_outputs"
      \/ pos = 6 /\ StageName(pos) = "parse_ncos"
      \/ pos = 7 /\ StageName(pos) = "parse_tdcs"
      \/ pos = 8 /\ StageName(pos) = "parse_aux"
      \/ pos = 9 /\ StageName(pos) = "reset"
      \/ pos = 10 /\ StageName(pos) = "sys_clk"
      \/ pos = 11 /\ StageName(pos) = "refs"
      \/ pos = 12 /\ StageName(pos) = "ncos"
      \/ pos = 13 /\ StageName(pos) = "calib_sys"
      \/ pos = 14 /\ StageName(pos) = "tdcs"
      \/ pos = 15 /\ StageName(pos) = "aux_dpll"
      \/ pos = 16 /\ StageName(pos) = "calib_aplls"
      \/ pos = 17 /\ StageName(pos) = "io_update"
      \/ pos = 18 /\ StageName(pos) = "profiles" /\ StageArg(pos) = 0
      \/ pos = 19 /\ StageName(pos) = "register" /\ StageArg(pos) = 0
      \/ pos = 20 /\ StageName(pos) = "profiles" /\ StageArg(pos) = 1
      \/ pos = 21 /\ StageName(pos) = "register" /\ StageArg(pos) = 1
      \/ pos = 22 /\ StageName(pos) = "outputs"
      \/ pos = 23 /\ StageName(pos) = "provider"
      \/ pos = 24 /\ StageName(pos) = "calib_aplls"
      \/ pos = 25 /\ StageName(pos) = "check_locks"
      \/ pos = 26 /\ StageName(pos) = "nco_freqs"
      \/ pos = 27 /\ StageName(pos) = "nco_profiles"
      \/ pos = 28 /\ StageName(pos) = "ncos_post"
      \/ pos = 29 /\ StageName(pos) = "post_read" /\ StageArg(pos) = 0
      \/ pos = 30 /\ StageName(pos) = "post_write" /\ StageArg(pos) = 0
      \/ pos = 31 /\ StageName(pos) = "post_read" /\ StageArg(pos) = 1
      \/ pos = 32 /\ StageName(pos) = "post_write" /\ StageArg(pos) = 1
  BY <1>1, SetupTable
<1> QED
  BY <1>2 DEF At, Arg, StageName, StageArg

LEMMA ReadTable ==
  ASSUME dt.auto
  PROVE  /\ Len(Stages) = 21
         /\ StageName(1) = "check_id" /\ StageName(2) = "io_update"
         /\ StageName(3) = "sys_clk_read" /\ StageName(4) = "refs_read"
         /\ StageName(5) = "ncos_read" /\ StageName(6) = "tdcs_read"
         /\ StageName(7) = "aux_dpll_read"
         /\ StageName(8) = "profiles_read" /\ StageArg(8) = 0
         /\ StageName(9) = "register" /\ StageArg(9) = 0
         /\ StageName(10) = "profiles_read" /\ StageArg(10) = 1
         /\ StageName(11) = "register" /\ StageArg(11) = 1
         /\ StageName(12) = "outputs_read" /\ StageName(13) = "provider"
         /\ StageName(14) = "check_locks" /\ StageName(15) = "nco_freqs"
         /\ StageName(16) = "nco_profiles" /\ StageName(17) = "ncos_post"
         /\ StageName(18) = "post_read" /\ StageArg(18) = 0
         /\ StageName(19) = "post_write" /\ StageArg(19) = 0
         /\ StageName(20) = "post_read" /\ StageArg(20) = 1
         /\ StageName(21) = "post_write" /\ StageArg(21) = 1
  BY DEF StageName, StageArg, Stages, S, ReadStages, PllStages, PostStages

LEMMA ReadAt ==
  ASSUME dt.auto, pos \in 1 .. Len(Stages)
  PROVE  /\ (At("check_id") => pos = 1) /\ ~At("parse_sys")
         /\ ~At("parse_inputs") /\ ~At("parse_plls") /\ ~At("parse_outputs")
         /\ ~At("parse_ncos") /\ ~At("parse_tdcs") /\ ~At("parse_aux")
         /\ ~At("reset") /\ ~At("sys_clk") /\ ~At("refs") /\ ~At("ncos")
         /\ ~At("calib_sys") /\ ~At("tdcs") /\ ~At("aux_dpll")
         /\ ~At("calib_aplls") /\ (At("io_update") => pos = 2)
         /\ ~At("profiles")
         /\ (At("register") => (pos = 9 /\ Arg = 0) \/ (pos = 11 /\ Arg = 1))
         /\ ~At("outputs") /\ (At("provider") => pos = 13)
         /\ (At("check_locks") => pos = 14) /\ (At("nco_freqs") => pos = 15)
         /\ (At("nco_profiles") => pos = 16) /\ (At("ncos_post") => pos = 17)
         /\ (At("post_read") => (pos = 18 /\ Arg = 0) \/ (pos = 20 /\ Arg = 1))
         /\ (At("post_write") => (pos = 19 /\ Arg = 0) \/ (pos = 21 /\ Arg = 1))
         /\ (At("sys_clk_read") => pos = 3) /\ (At("refs_read") => pos = 4)
         /\ (At("ncos_read") => pos = 5) /\ (At("tdcs_read") => pos = 6)
         /\ (At("aux_dpll_read") => pos = 7)
         /\ (At("profiles_read") => (pos = 8 /\ Arg = 0) \/ (pos = 10 /\ Arg = 1))
         /\ (At("outputs_read") => pos = 12)
<1>1. pos \in 1 .. 21
  BY ReadTable
<1>2.
      \/ pos = 1 /\ StageName(pos) = "check_id"
      \/ pos = 2 /\ StageName(pos) = "io_update"
      \/ pos = 3 /\ StageName(pos) = "sys_clk_read"
      \/ pos = 4 /\ StageName(pos) = "refs_read"
      \/ pos = 5 /\ StageName(pos) = "ncos_read"
      \/ pos = 6 /\ StageName(pos) = "tdcs_read"
      \/ pos = 7 /\ StageName(pos) = "aux_dpll_read"
      \/ pos = 8 /\ StageName(pos) = "profiles_read" /\ StageArg(pos) = 0
      \/ pos = 9 /\ StageName(pos) = "register" /\ StageArg(pos) = 0
      \/ pos = 10 /\ StageName(pos) = "profiles_read" /\ StageArg(pos) = 1
      \/ pos = 11 /\ StageName(pos) = "register" /\ StageArg(pos) = 1
      \/ pos = 12 /\ StageName(pos) = "outputs_read"
      \/ pos = 13 /\ StageName(pos) = "provider"
      \/ pos = 14 /\ StageName(pos) = "check_locks"
      \/ pos = 15 /\ StageName(pos) = "nco_freqs"
      \/ pos = 16 /\ StageName(pos) = "nco_profiles"
      \/ pos = 17 /\ StageName(pos) = "ncos_post"
      \/ pos = 18 /\ StageName(pos) = "post_read" /\ StageArg(pos) = 0
      \/ pos = 19 /\ StageName(pos) = "post_write" /\ StageArg(pos) = 0
      \/ pos = 20 /\ StageName(pos) = "post_read" /\ StageArg(pos) = 1
      \/ pos = 21 /\ StageName(pos) = "post_write" /\ StageArg(pos) = 1
  BY <1>1, ReadTable
<1> QED
  BY <1>2 DEF At, Arg, StageName, StageArg
-----------------------------------------------------------------------------
(***************************************************************************)
(* What is published.                                                      *)
(***************************************************************************)

\* The stage that adds the provider, and the one that reads the frequencies
\* asked of the NCOs.
ProviderPos == IF dt.auto THEN 13 ELSE 23
FreqsPos    == IF dt.auto THEN 15 ELSE 26

\* The stage that allocates a row of clks[].
RowPos(kind) ==
    CASE kind = "nco" -> IF dt.auto THEN 5 ELSE 12
      [] kind = "tdc" -> IF dt.auto THEN 6 ELSE 14
      [] kind = "pll" -> IF dt.auto THEN 9 ELSE 19
      [] kind = "out" -> IF dt.auto THEN 12 ELSE 22

\* The stage after which a clock in use is registered: when the setup is
\* read, only PLLs are registered later than they are found to be in use.
RegisterPos(c) ==
    IF c[1] = "pll" THEN IF dt.auto THEN IF c[2] = 0 THEN 9 ELSE 11
                                    ELSE IF c[2] = 0 THEN 19 ELSE 21
    ELSE IF dt.auto THEN 0
    ELSE IF c[1] = "nco" THEN 12 ELSE IF c[1] = "tdc" THEN 14
    ELSE IF c[1] = "aux" THEN 15 ELSE 22

Rows == {"out", "pll", "nco", "tdc"}

ClockKinds(c) ==
    /\ c[1] \in Rows \cup {"ref", "aux"}
    /\ c[1] = "pll" => c \in {<<"pll", 0>>, <<"pll", 1>>}

PublishInv ==
    /\ pos \in 1 .. Len(Stages)
    /\ \A c \in used : ClockKinds(c)
    /\ published => drv # "failed" /\ pos > ProviderPos
    /\ drv # "failed" =>
          /\ tables = {k \in Rows : pos > RowPos(k)}
          /\ \A c \in used : c[1] # "ref" /\ pos > RegisterPos(c) => c \in registered


PubVars == <<used, tables, registered, published>>

LEMMA StageCount == Len(Stages) \in {21, 32}
<1>1. CASE dt.auto
  BY <1>1, ReadTable
<1>2. CASE ~dt.auto
  BY <1>2, SetupTable
<1> QED
  BY <1>1, <1>2

LEMMA PublishInvInit == ASSUME ClockInit PROVE PublishInv
<1>1. 1 \in 1 .. Len(Stages)
  BY StageCount
<1>2. \A k \in Rows : ~(1 > RowPos(k))
  BY DEF Rows, RowPos
<1> QED
  BY <1>1, <1>2 DEF ClockInit, PublishInv

\* Going on moves to the next stage, or ends the probe after the last.
LEMMA GoOnPos ==
  ASSUME PublishInv, drv = "run", GoOn, dt' = dt
  PROVE  /\ drv' \in {"run", "done"} /\ pos' \in 1 .. Len(Stages)'
         /\ (pos' = pos + 1) \/ (pos' = pos /\ pos = Len(Stages))
<1>1. Stages' = Stages
  BY DEF Stages, S, ReadStages, ParseStages, SetupStages, PllStages, PostStages
<1>2. Len(Stages) \in Nat
  BY StageCount
<1> QED
  BY <1>1, <1>2 DEF PublishInv, GoOn

LEMMA SameStages == ASSUME dt' = dt PROVE Stages' = Stages
  BY DEF Stages, S, ReadStages, ParseStages, SetupStages, PllStages, PostStages

\* The stages that publish something.
Markers == IF dt.auto THEN {5, 6, 9, 11, 12, 13} ELSE {12, 14, 15, 19, 21, 22, 23}

\* Any other stage leaves what is published alone.
LEMMA Passing ==
  ASSUME PublishInv, dt' = dt, UNCHANGED PubVars, drv # "failed", drv' # "failed",
         pos' \in 1 .. Len(Stages)', (pos' = pos) \/ (pos' = pos + 1 /\ pos \notin Markers)
  PROVE  PublishInv'
<1>1. PICK n \in Nat : pos \in 1 .. n
  BY StageCount DEF PublishInv
<1>2. ProviderPos' = ProviderPos /\ (pos' > ProviderPos <=> pos > ProviderPos)
  BY <1>1 DEF ProviderPos, Markers
<1>3. \A k \in Rows : pos' > RowPos(k)' <=> pos > RowPos(k)
  BY <1>1 DEF RowPos, Rows, Markers
<1>4. \A c \in used : ClockKinds(c) /\ c[1] # "ref" => (pos' > RegisterPos(c)' <=> pos > RegisterPos(c))
  BY <1>1 DEF RegisterPos, ClockKinds, Rows, Markers
<1> QED
  BY <1>2, <1>3, <1>4 DEF PublishInv, PubVars, ClockKinds

LEMMA FailingKeeps == ASSUME PublishInv, drv = "run", Fail PROVE PublishInv'
  BY SameStages DEF PublishInv, Fail, Ends, ClockKinds

LEMMA QuietStage ==
  ASSUME PublishInv, drv = "run", GoOn, dt' = dt, UNCHANGED PubVars, pos \notin Markers
  PROVE  PublishInv'
<1>1. /\ drv' # "failed" /\ pos' \in 1 .. Len(Stages)'
      /\ (pos' = pos) \/ (pos' = pos + 1 /\ pos \notin Markers)
  BY GoOnPos
<1> QED
  BY <1>1, Passing

LEMMA QuietStages ==
  ASSUME PublishInv,
         \/ At("check_id") \/ At("sys_clk_read") \/ At("check_locks") \/ At("parse_sys")
         \/ At("reset") \/ At("sys_clk") \/ At("calib_sys") \/ At("calib_aplls")
         \/ At("io_update") \/ At("profiles") \/ At("nco_freqs") \/ At("nco_profiles")
         \/ At("ncos_post") \/ At("post_read") \/ At("post_write")
  PROVE  pos \notin Markers
<1>1. pos \in 1 .. Len(Stages)
  BY DEF PublishInv
<1>2. CASE dt.auto
  BY <1>1, <1>2, ReadAt DEF Markers
<1>3. CASE ~dt.auto
  BY <1>1, <1>3, SetupAt DEF Markers
<1> QED
  BY <1>2, <1>3

LEMMA PublishInvQuiet ==
  ASSUME PublishInv,
         \/ CheckId \/ SysClkRead \/ CheckLocks \/ ParseSys \/ ResetChip \/ SysClkSetup
         \/ CalibSystemClock \/ CalibAplls \/ IoUpdate \/ PllProfiles \/ SetNcoFreqs
         \/ AddNcoProfiles \/ AuxNcosPostSetup \/ PostRead \/ PostWrite
  PROVE  PublishInv'
<1> USE DEF Quiet, stState, clkState, hwState, chipVars, PubVars
<1>1. CASE CheckId \/ SysClkRead \/ CheckLocks
  BY <1>1, QuietStage, QuietStages DEF CheckId, SysClkRead, CheckLocks, Looks, At
<1>2. CASE ParseSys
  BY <1>2, QuietStage, QuietStages, FailingKeeps DEF ParseSys, At
<1>3. CASE ResetChip
  BY <1>3, QuietStage, QuietStages DEF ResetChip, At
<1>4. CASE SysClkSetup
  BY <1>4, QuietStage, QuietStages, FailingKeeps DEF SysClkSetup, At
<1>5. CASE CalibSystemClock
  <2>1. CASE GoOn /\ Quiet /\ UNCHANGED <<stState, clkState>>
    BY <1>5, <2>1, QuietStage, QuietStages DEF CalibSystemClock, At
  <2>2. CASE Fail
    BY <1>5, <2>2, FailingKeeps DEF CalibSystemClock, At
  <2>3. CASE Quiet /\ UNCHANGED <<drv, pos, stState, clkState>>
    <3>1. drv # "failed" /\ drv' # "failed"
      BY <1>5, <2>3 DEF CalibSystemClock, At
    <3>2. pos' \in 1 .. Len(Stages)'
      BY <2>3, SameStages DEF PublishInv
    <3> QED
      BY <2>3, <3>1, <3>2, Passing
  <2> QED
    BY <1>5, <2>1, <2>2, <2>3 DEF CalibSystemClock
<1>6. CASE CalibAplls
  BY <1>6, QuietStage, QuietStages DEF CalibAplls, At
<1>7. CASE IoUpdate
  BY <1>7, QuietStage, QuietStages DEF IoUpdate, At
<1>8. CASE PllProfiles
  <2>1. At("profiles") /\ drv = "run"
    BY <1>8 DEF PllProfiles, At
  <2>2. Fail \/ (GoOn /\ dt' = dt /\ UNCHANGED PubVars)
    BY <1>8 DEF PllProfiles
  <2> QED
    BY <2>1, <2>2, QuietStage, QuietStages, FailingKeeps
<1>9. CASE SetNcoFreqs
  BY <1>9, QuietStage, QuietStages, FailingKeeps DEF SetNcoFreqs, At
<1>10. CASE AddNcoProfiles
  <2>1. At("nco_profiles") /\ drv = "run"
    BY <1>10 DEF AddNcoProfiles, At
  <2>2. Fail \/ (GoOn /\ dt' = dt /\ UNCHANGED PubVars)
    BY <1>10 DEF AddNcoProfiles
  <2> QED
    BY <2>1, <2>2, QuietStage, QuietStages, FailingKeeps
<1>11. CASE AuxNcosPostSetup
  <2>1. At("ncos_post") /\ drv = "run" /\ GoOn /\ dt' = dt /\ UNCHANGED PubVars
    BY <1>11 DEF AuxNcosPostSetup, At
  <2> QED
    BY <2>1, QuietStage, QuietStages
<1>12. CASE PostRead
  <2>1. At("post_read") /\ drv = "run" /\ dt' = dt /\ UNCHANGED PubVars
    BY <1>12 DEF PostRead, Ends, At
  <2>2. (drv' \in {"oops", "done"} /\ pos' = pos) \/ (drv' = drv /\ pos' = pos + 1)
    BY <1>12 DEF PostRead, Ends
  <2>3. pos \in Nat /\ pos # Len(Stages) /\ pos \in 1 .. Len(Stages)
    <3>1. pos \in 1 .. Len(Stages)
      BY DEF PublishInv
    <3>2. CASE dt.auto
      <4>1. pos \in {18, 20}
        BY <2>1, <3>1, <3>2, ReadAt
      <4>2. Len(Stages) = 21
        BY <3>2, ReadTable
      <4> QED
        BY <3>1, <4>1, <4>2
    <3>3. CASE ~dt.auto
      <4>1. pos \in {29, 31}
        BY <2>1, <3>1, <3>3, SetupAt
      <4>2. Len(Stages) = 32
        BY <3>3, SetupTable
      <4> QED
        BY <3>1, <4>1, <4>2
    <3> QED
      BY <3>2, <3>3
  <2>4. pos' \in 1 .. Len(Stages)'
    BY <2>1, <2>2, <2>3, StageCount, SameStages
  <2> QED
    BY <2>1, <2>2, <2>4, Passing, QuietStages
<1>13. CASE PostWrite
  <2>1. At("post_write") /\ drv = "run"
    BY <1>13 DEF PostWrite, At
  <2>2. Fail \/ (GoOn /\ dt' = dt /\ UNCHANGED PubVars)
    BY <1>13 DEF PostWrite
  <2> QED
    BY <2>1, <2>2, QuietStage, QuietStages, FailingKeeps
<1> QED
  BY <1>1, <1>2, <1>3, <1>4, <1>5, <1>6, <1>7, <1>8, <1>9, <1>10, <1>11, <1>12, <1>13

\* A stage that takes more clocks in use, allocates rows of clks[] or
\* registers clocks.
LEMMA Registering ==
  ASSUME PublishInv, drv = "run", GoOn, dt' = dt, published' = published,
         pos < Len(Stages), pos # ProviderPos,
         NEW more, \A c \in more : ClockKinds(c), used' = used \cup more,
         NEW rows, rows \subseteq Rows, tables' = tables \cup rows,
         \A k \in Rows : (pos + 1 > RowPos(k)) <=> (pos > RowPos(k) \/ k \in rows),
         registered \subseteq registered',
         \A c \in used' : ClockKinds(c) /\ c[1] # "ref" /\ pos + 1 > RegisterPos(c)
                             => (c \in used /\ pos > RegisterPos(c)) \/ c \in registered'
  PROVE  PublishInv'
<1>1. pos \in Nat /\ pos' = pos + 1 /\ drv' = "run" /\ pos' \in 1 .. Len(Stages)'
  BY StageCount, SameStages DEF PublishInv, GoOn
<1>2. ProviderPos' = ProviderPos /\ ProviderPos \in Nat
  BY DEF ProviderPos
<1>3. \A k \in Rows : RowPos(k)' = RowPos(k)
  BY DEF RowPos, Rows
<1>4. \A c : RegisterPos(c)' = RegisterPos(c)
  BY DEF RegisterPos
<1>5. \A c \in used' : ClockKinds(c)
  BY DEF PublishInv
<1>6. published' => pos' > ProviderPos'
  BY <1>1, <1>2 DEF PublishInv
<1>7. tables' = {k \in Rows : pos' > RowPos(k)'}
  BY <1>1, <1>3 DEF PublishInv
<1>8. \A c \in used' : c[1] # "ref" /\ pos' > RegisterPos(c)' => c \in registered'
  BY <1>1, <1>4, <1>5 DEF PublishInv
<1> QED
  BY <1>1, <1>5, <1>6, <1>7, <1>8 DEF PublishInv, ClockKinds

\* Parsing comes before any clock is registered.
LEMMA Parsing ==
  ASSUME PublishInv, drv = "run", GoOn, dt' = dt, ~dt.auto, pos \in 3 .. 8,
         UNCHANGED <<tables, registered, published>>,
         NEW more, \A c \in more : ClockKinds(c), used' = used \cup more
  PROVE  PublishInv'
<1> DEFINE none == {}
<1>1. Len(Stages) = 32
  BY SetupTable
<1>2. pos < Len(Stages) /\ pos # ProviderPos
  BY <1>1 DEF ProviderPos
<1>3. \A k \in Rows : (pos + 1 > RowPos(k)) <=> (pos > RowPos(k) \/ k \in none)
  BY DEF RowPos, Rows
<1>4. \A c \in used' : ClockKinds(c) /\ c[1] # "ref" /\ pos + 1 > RegisterPos(c)
                         => (c \in used /\ pos > RegisterPos(c)) \/ c \in registered'
  BY DEF RegisterPos, ClockKinds, Rows
<1>5. none \subseteq Rows /\ tables' = tables \cup none /\ registered \subseteq registered'
  OBVIOUS
<1>6. published' = published
  OBVIOUS
<1> HIDE DEF none
<1> QED
  BY <1>2, <1>3, <1>4, <1>5, <1>6, Registering

LEMMA ParsingNodes ==
  ASSUME PublishInv, NEW name, NEW kind, NEW nodes, ParseNodes(name, kind, nodes),
         kind \in {"ref", "out", "nco", "tdc", "aux"}, ~dt.auto, pos \in 3 .. 8
  PROVE  PublishInv'
<1>1. CASE Fail
  BY <1>1, FailingKeeps DEF ParseNodes, At
<1>2. CASE ~Fail
  <2> DEFINE more == {<<kind, i>> : i \in {k \in DOMAIN nodes : nodes[k] # "none"}}
  <2>1. /\ drv = "run" /\ GoOn /\ dt' = dt /\ UNCHANGED <<tables, registered, published>>
        /\ used' = used \cup more
    BY <1>2 DEF ParseNodes, At, Quiet, clkState
  <2>2. \A c \in more : ClockKinds(c)
    BY DEF ClockKinds, Rows
  <2> HIDE DEF more
  <2> QED
    BY <2>1, <2>2, Parsing
<1> QED
  BY <1>1, <1>2

LEMMA ParsePositions ==
  ASSUME PublishInv,
         \/ At("parse_inputs") \/ At("parse_plls") \/ At("parse_outputs") \/ At("parse_ncos")
         \/ At("parse_tdcs") \/ At("parse_aux")
  PROVE  ~dt.auto /\ pos \in 3 .. 8
<1>1. pos \in 1 .. Len(Stages)
  BY DEF PublishInv
<1>2. ~dt.auto
  BY <1>1, ReadAt
<1> QED
  BY <1>1, <1>2, SetupAt

LEMMA PublishInvParse ==
  ASSUME PublishInv,
         ParseInputs \/ ParsePlls \/ ParseOutputs \/ ParseNcos \/ ParseTdcs \/ ParseAux
  PROVE  PublishInv'
<1>1. CASE ParseInputs
  BY <1>1, ParsingNodes, ParsePositions DEF ParseInputs, ParseNodes
<1>2. CASE ParseOutputs
  BY <1>2, ParsingNodes, ParsePositions DEF ParseOutputs, ParseNodes
<1>3. CASE ParseNcos
  BY <1>3, ParsingNodes, ParsePositions DEF ParseNcos, ParseNodes
<1>4. CASE ParseTdcs
  BY <1>4, ParsingNodes, ParsePositions DEF ParseTdcs, ParseNodes
<1>5. CASE ParseAux
  BY <1>5, ParsingNodes, ParsePositions DEF ParseAux, ParseNodes
<1>6. CASE ParsePlls
  <2> DEFINE more == {<<"pll", p>> : p \in {q \in PLLs : dt.pll[q] = "ok"}}
  <2>1. At("parse_plls") /\ drv = "run"
    BY <1>6 DEF ParsePlls, At
  <2>2. CASE Fail
    BY <2>1, <2>2, FailingKeeps
  <2>3. CASE ~Fail
    <3>1. /\ GoOn /\ dt' = dt /\ UNCHANGED <<tables, registered, published>>
          /\ used' = used \cup more
      BY <1>6, <2>3 DEF ParsePlls, Quiet, clkState
    <3>2. \A c \in more : ClockKinds(c)
      BY DEF ClockKinds, Rows, PLLs
    <3> HIDE DEF more
    <3> QED
      BY <2>1, <3>1, <3>2, Parsing, ParsePositions
  <2> QED
    BY <2>2, <2>3
<1> QED
  BY <1>1, <1>2, <1>3, <1>4, <1>5, <1>6

\* The stages of the setup that register the clocks of a kind.
LEMMA RegisteringKind ==
  ASSUME PublishInv, drv = "run", GoOn, dt' = dt, ~dt.auto, NEW kind, NEW rows,
         \/ pos = 11 /\ kind = "ref" /\ rows = {}
         \/ pos = 12 /\ kind = "nco" /\ rows = {"nco"}
         \/ pos = 14 /\ kind = "tdc" /\ rows = {"tdc"}
         \/ pos = 15 /\ kind = "aux" /\ rows = {}
         \/ pos = 22 /\ kind = "out" /\ rows = {"out"},
         UNCHANGED <<used, published>>, tables' = tables \cup rows,
         registered' = registered \cup UsedOf(kind)
  PROVE  PublishInv'
<1> DEFINE none == {}
<1>1. Len(Stages) = 32
  BY SetupTable
<1>2. pos < Len(Stages) /\ pos # ProviderPos
  BY <1>1 DEF ProviderPos
<1>3. \A k \in Rows : (pos + 1 > RowPos(k)) <=> (pos > RowPos(k) \/ k \in rows)
  BY DEF RowPos, Rows
<1>4. \A c \in used' : ClockKinds(c) /\ c[1] # "ref" /\ pos + 1 > RegisterPos(c)
                         => (c \in used /\ pos > RegisterPos(c)) \/ c \in registered'
  BY DEF RegisterPos, ClockKinds, Rows, UsedOf
<1>5. rows \subseteq Rows /\ registered \subseteq registered'
  BY DEF Rows
<1>6. published' = published /\ used' = used \cup none /\ \A c \in none : ClockKinds(c)
  OBVIOUS
<1> HIDE DEF none
<1> QED
  BY <1>2, <1>3, <1>4, <1>5, <1>6, Registering

\* The stages that read the setup take the clocks they find as used and
\* register them.
LEMMA ReadingKind ==
  ASSUME PublishInv, drv = "run", GoOn, dt' = dt, dt.auto, NEW more, NEW rows,
         \A c \in more : ClockKinds(c) /\ c[1] # "pll",
         \/ pos = 4 /\ rows = {} /\ \A c \in more : c[1] = "ref"
         \/ pos = 5 /\ rows = {"nco"} /\ more \subseteq registered'
         \/ pos = 6 /\ rows = {"tdc"} /\ more \subseteq registered'
         \/ pos = 7 /\ rows = {} /\ more \subseteq registered'
         \/ pos = 12 /\ rows = {"out"} /\ more \subseteq registered',
         published' = published, used' = used \cup more, tables' = tables \cup rows,
         registered \subseteq registered'
  PROVE  PublishInv'
<1>1. Len(Stages) = 21
  BY ReadTable
<1>2. pos < Len(Stages) /\ pos # ProviderPos
  BY <1>1 DEF ProviderPos
<1>3. \A k \in Rows : (pos + 1 > RowPos(k)) <=> (pos > RowPos(k) \/ k \in rows)
  BY DEF RowPos, Rows
<1>4. \A c \in used' : ClockKinds(c) /\ c[1] # "ref" /\ pos + 1 > RegisterPos(c)
                         => (c \in used /\ pos > RegisterPos(c)) \/ c \in registered'
  BY DEF RegisterPos, ClockKinds, Rows
<1>5. rows \subseteq Rows
  BY DEF Rows
<1> QED
  BY <1>2, <1>3, <1>4, <1>5, Registering

\* A PLL is found to be in use in the stage before the one that registers it.
LEMMA ReadingPll ==
  ASSUME PublishInv, drv = "run", GoOn, dt' = dt, dt.auto, NEW p \in PLLs,
         (pos = 8 /\ p = 0) \/ (pos = 10 /\ p = 1),
         UNCHANGED <<tables, registered, published>>, used' = used \cup {<<"pll", p>>}
  PROVE  PublishInv'
<1> DEFINE none == {}
           more == {<<"pll", p>>}
<1>1. Len(Stages) = 21
  BY ReadTable
<1>2. pos < Len(Stages) /\ pos # ProviderPos
  BY <1>1 DEF ProviderPos
<1>3. \A k \in Rows : (pos + 1 > RowPos(k)) <=> (pos > RowPos(k) \/ k \in none)
  BY DEF RowPos, Rows
<1>4. \A c \in used' : ClockKinds(c) /\ c[1] # "ref" /\ pos + 1 > RegisterPos(c)
                         => (c \in used /\ pos > RegisterPos(c)) \/ c \in registered'
  BY DEF RegisterPos, ClockKinds, Rows, PLLs
<1>5. none \subseteq Rows /\ tables' = tables \cup none /\ published' = published
  OBVIOUS
<1>6. registered \subseteq registered' /\ used' = used \cup more
  OBVIOUS
<1>7. \A c \in more : ClockKinds(c)
  BY DEF ClockKinds, Rows, PLLs
<1> HIDE DEF none, more
<1> QED
  BY <1>2, <1>3, <1>4, <1>5, <1>6, <1>7, Registering

LEMMA RegisteringPll ==
  ASSUME PublishInv, RegisterPll
  PROVE  PublishInv'
<1> DEFINE none == {}
           rows == {"pll"}
<1>1. pos \in 1 .. Len(Stages) /\ At("register") /\ drv = "run"
  BY DEF PublishInv, RegisterPll, At
<1>2. /\ pos < Len(Stages) /\ pos # ProviderPos
      /\ \/ dt.auto /\ ((pos = 9 /\ Arg = 0) \/ (pos = 11 /\ Arg = 1))
         \/ ~dt.auto /\ ((pos = 19 /\ Arg = 0) \/ (pos = 21 /\ Arg = 1))
  <2>1. CASE dt.auto
    <3>1. (pos = 9 /\ Arg = 0) \/ (pos = 11 /\ Arg = 1)
      BY <1>1, <2>1, ReadAt
    <3>2. Len(Stages) = 21
      BY <2>1, ReadTable
    <3> QED
      BY <2>1, <3>1, <3>2 DEF ProviderPos
  <2>2. CASE ~dt.auto
    <3>1. (pos = 19 /\ Arg = 0) \/ (pos = 21 /\ Arg = 1)
      BY <1>1, <2>2, SetupAt
    <3>2. Len(Stages) = 32
      BY <2>2, SetupTable
    <3> QED
      BY <2>2, <3>1, <3>2 DEF ProviderPos
  <2> QED
    BY <2>1, <2>2
<1>3. /\ GoOn /\ dt' = dt /\ published' = published /\ used' = used \cup none
      /\ tables' = tables \cup rows /\ registered \subseteq registered'
      /\ <<"pll", Arg>> \in used => <<"pll", Arg>> \in registered'
  BY DEF RegisterPll, Quiet
<1>4. \A k \in Rows : (pos + 1 > RowPos(k)) <=> (pos > RowPos(k) \/ k \in rows)
  BY <1>2 DEF RowPos, Rows
<1>5. \A c \in used' : ClockKinds(c) /\ c[1] # "ref" /\ pos + 1 > RegisterPos(c)
                         => (c \in used /\ pos > RegisterPos(c)) \/ c \in registered'
  BY <1>2, <1>3 DEF RegisterPos, ClockKinds, Rows
<1>6. rows \subseteq Rows /\ \A c \in none : ClockKinds(c)
  BY DEF Rows
<1> HIDE DEF none, rows
<1> QED
  BY <1>1, <1>2, <1>3, <1>4, <1>5, <1>6, Registering

LEMMA PublishInvSetup ==
  ASSUME PublishInv,
         InputRefsSetup \/ AuxNcosSetup \/ AuxTdcsSetup \/ AuxDpllSetup \/ OutputsSetup
  PROVE  PublishInv'
<1> USE DEF Quiet, stState
<1> DEFINE none == {}
<1>1. pos \in 1 .. Len(Stages)
  BY DEF PublishInv
<1>2. drv = "run" /\ ~dt.auto
  BY <1>1, ReadAt DEF InputRefsSetup, AuxNcosSetup, AuxTdcsSetup, AuxDpllSetup, OutputsSetup,
                      RegisterKind, At
<1>3. CASE InputRefsSetup
  <2>1. pos = 11
    BY <1>1, <1>2, <1>3, SetupAt DEF InputRefsSetup
  <2>2. CASE Fail
    BY <1>2, <2>2, FailingKeeps
  <2>3. CASE ~Fail
    <3>1. /\ GoOn /\ dt' = dt /\ UNCHANGED <<used, published>> /\ tables' = tables \cup none
          /\ registered' = registered \cup UsedOf("ref")
      BY <1>3, <2>3 DEF InputRefsSetup
    <3> QED
      BY <1>2, <2>1, <3>1, RegisteringKind
  <2> QED
    BY <2>2, <2>3
<1>4. CASE AuxNcosSetup
  <2>1. pos = 12
    BY <1>1, <1>2, <1>4, SetupAt DEF AuxNcosSetup, RegisterKind
  <2>2. /\ GoOn /\ dt' = dt /\ UNCHANGED <<used, published>> /\ tables' = tables \cup {"nco"}
        /\ registered' = registered \cup UsedOf("nco")
    BY <1>4 DEF AuxNcosSetup, RegisterKind
  <2> QED
    BY <1>2, <2>1, <2>2, RegisteringKind
<1>5. CASE AuxTdcsSetup
  <2>1. pos = 14
    BY <1>1, <1>2, <1>5, SetupAt DEF AuxTdcsSetup, RegisterKind
  <2>2. /\ GoOn /\ dt' = dt /\ UNCHANGED <<used, published>> /\ tables' = tables \cup {"tdc"}
        /\ registered' = registered \cup UsedOf("tdc")
    BY <1>5 DEF AuxTdcsSetup, RegisterKind
  <2> QED
    BY <1>2, <2>1, <2>2, RegisteringKind
<1>6. CASE AuxDpllSetup
  <2>1. pos = 15
    BY <1>1, <1>2, <1>6, SetupAt DEF AuxDpllSetup
  <2>2. CASE Fail
    BY <1>2, <2>2, FailingKeeps
  <2>3. CASE ~Fail
    <3>1. /\ GoOn /\ dt' = dt /\ UNCHANGED <<used, published>> /\ tables' = tables \cup none
          /\ registered' = registered \cup UsedOf("aux")
      BY <1>6, <2>3 DEF AuxDpllSetup
    <3> QED
      BY <1>2, <2>1, <3>1, RegisteringKind
  <2> QED
    BY <2>2, <2>3
<1>7. CASE OutputsSetup
  <2>1. pos = 22
    BY <1>1, <1>2, <1>7, SetupAt DEF OutputsSetup
  <2>2. /\ GoOn /\ dt' = dt /\ UNCHANGED <<used, published>> /\ tables' = tables \cup {"out"}
        /\ registered' = registered \cup UsedOf("out")
    BY <1>7 DEF OutputsSetup
  <2> QED
    BY <1>2, <2>1, <2>2, RegisteringKind
<1> QED
  BY <1>3, <1>4, <1>5, <1>6, <1>7

LEMMA ReadingFound ==
  ASSUME PublishInv, NEW name, NEW kind, NEW found, NEW rows, dt.auto,
         ReadKind(name, kind, found),
         \/ pos = 5 /\ kind = "nco" /\ rows = {"nco"}
         \/ pos = 6 /\ kind = "tdc" /\ rows = {"tdc"}
         \/ pos = 7 /\ kind = "aux" /\ rows = {}
         \/ pos = 12 /\ kind = "out" /\ rows = {"out"}
  PROVE  PublishInv'
<1> DEFINE more == {<<kind, i>> : i \in found}
<1>1. /\ drv = "run" /\ GoOn /\ dt' = dt /\ published' = published
      /\ used' = used \cup more /\ registered' = registered \cup more
      /\ tables' = tables \cup rows
  BY DEF ReadKind, At, Quiet
<1>2. \A c \in more : ClockKinds(c) /\ c[1] # "pll"
  BY DEF ClockKinds, Rows
<1> HIDE DEF more
<1>3. more \subseteq registered' /\ registered \subseteq registered'
  BY <1>1
<1> QED
  BY <1>1, <1>2, <1>3, ReadingKind

LEMMA PublishInvRead ==
  ASSUME PublishInv,
         \/ InputRefsReadSetup \/ AuxNcosReadSetup \/ AuxTdcsReadSetup \/ AuxDpllReadSetup
         \/ OutputsReadSetup \/ PllProfilesRead
  PROVE  PublishInv'
<1>1. pos \in 1 .. Len(Stages)
  BY DEF PublishInv
<1>2. drv = "run" /\ dt.auto
  <2>1. \/ At("refs_read") \/ At("ncos_read") \/ At("tdcs_read") \/ At("aux_dpll_read")
        \/ At("outputs_read") \/ At("profiles_read")
    BY DEF InputRefsReadSetup, AuxNcosReadSetup, AuxTdcsReadSetup, AuxDpllReadSetup,
           OutputsReadSetup, PllProfilesRead, ReadKind
  <2> QED
    BY <1>1, <2>1, SetupAt DEF At
<1>3. CASE InputRefsReadSetup
  <2> DEFINE none == {}
             more == {<<"ref", i>> : i \in Powered(dt.ref)}
  <2>1. pos = 4
    BY <1>1, <1>2, <1>3, ReadAt DEF InputRefsReadSetup
  <2>2. CASE Fail
    BY <1>2, <2>2, FailingKeeps
  <2>3. CASE ~Fail
    <3>1. /\ GoOn /\ dt' = dt /\ published' = published /\ tables' = tables \cup none
          /\ used' = used \cup more /\ registered \subseteq registered'
      BY <1>3, <2>3 DEF InputRefsReadSetup, Quiet
    <3>2. \A c \in more : ClockKinds(c) /\ c[1] = "ref" /\ c[1] # "pll"
      BY DEF ClockKinds, Rows
    <3> HIDE DEF more
    <3> QED
      BY <1>2, <2>1, <3>1, <3>2, ReadingKind
  <2> QED
    BY <2>2, <2>3
<1>4. CASE AuxNcosReadSetup
  <2>1. pos = 5
    BY <1>1, <1>2, <1>4, ReadAt DEF AuxNcosReadSetup, ReadKind
  <2> QED
    BY <1>2, <1>4, <2>1, ReadingFound DEF AuxNcosReadSetup
<1>5. CASE AuxTdcsReadSetup
  <2>1. pos = 6
    BY <1>1, <1>2, <1>5, ReadAt DEF AuxTdcsReadSetup, ReadKind
  <2> QED
    BY <1>2, <1>5, <2>1, ReadingFound DEF AuxTdcsReadSetup
<1>6. CASE AuxDpllReadSetup
  <2>1. CASE Fail
    BY <1>2, <2>1, FailingKeeps
  <2>2. CASE ~Fail
    <3>1. ReadKind("aux_dpll_read", "aux", {0})
      BY <1>6, <2>2 DEF AuxDpllReadSetup
    <3>2. pos = 7
      BY <1>1, <1>2, <3>1, ReadAt DEF ReadKind
    <3> QED
      BY <1>2, <3>1, <3>2, ReadingFound
  <2> QED
    BY <2>1, <2>2
<1>7. CASE OutputsReadSetup
  <2>1. pos = 12
    BY <1>1, <1>2, <1>7, ReadAt DEF OutputsReadSetup, ReadKind
  <2> QED
    BY <1>2, <1>7, <2>1, ReadingFound DEF OutputsReadSetup
<1>8. CASE PllProfilesRead
  <2>1. (pos = 8 /\ Arg = 0) \/ (pos = 10 /\ Arg = 1)
    BY <1>1, <1>2, <1>8, ReadAt DEF PllProfilesRead
  <2>2. CASE Fail
    BY <1>2, <2>2, FailingKeeps
  <2>3. CASE ~Fail
    <3>1. /\ GoOn /\ dt' = dt /\ UNCHANGED <<tables, registered, published>>
          /\ used' = used \cup {<<"pll", Arg>>}
      BY <1>8, <2>3 DEF PllProfilesRead, Quiet, clkState
    <3>2. Arg \in PLLs
      BY <2>1 DEF PLLs
    <3> QED
      BY <1>2, <2>1, <3>1, <3>2, ReadingPll
  <2> QED
    BY <2>2, <2>3
<1> QED
  BY <1>3, <1>4, <1>5, <1>6, <1>7, <1>8

LEMMA PublishInvProvider == ASSUME PublishInv, Provider PROVE PublishInv'
<1>1. pos \in 1 .. Len(Stages) /\ At("provider") /\ drv = "run"
  BY DEF PublishInv, Provider, At
<1>2. pos = ProviderPos /\ pos < Len(Stages)
  <2>1. CASE dt.auto
    <3>1. pos = 13
      BY <1>1, <2>1, ReadAt
    <3>2. Len(Stages) = 21
      BY <2>1, ReadTable
    <3> QED
      BY <2>1, <3>1, <3>2 DEF ProviderPos
  <2>2. CASE ~dt.auto
    <3>1. pos = 23
      BY <1>1, <2>2, SetupAt
    <3>2. Len(Stages) = 32
      BY <2>2, SetupTable
    <3> QED
      BY <2>2, <3>1, <3>2 DEF ProviderPos
  <2> QED
    BY <2>1, <2>2
<1>3. /\ pos' = pos + 1 /\ drv' = drv /\ dt' = dt /\ UNCHANGED <<used, tables, registered>>
  BY <1>2, StageCount DEF Provider, GoOn, Quiet, stState
<1>4. pos' \in 1 .. Len(Stages)'
  BY <1>1, <1>2, <1>3, StageCount, SameStages
<1>5. ProviderPos' = ProviderPos /\ ProviderPos \in Nat
  BY <1>3 DEF ProviderPos
<1>6. \A k \in Rows : (pos' > RowPos(k)') <=> (pos > RowPos(k))
  BY <1>2, <1>3 DEF RowPos, Rows, ProviderPos
<1>7. \A c \in used : ClockKinds(c) /\ c[1] # "ref" => pos > RegisterPos(c)
  BY <1>2 DEF RegisterPos, ClockKinds, Rows, ProviderPos
<1> QED
  BY <1>1, <1>2, <1>3, <1>4, <1>5, <1>6, <1>7 DEF PublishInv, ClockKinds

LEMMA PublishInvProbe == ASSUME PublishInv, ProbeStep PROVE PublishInv'
<1>1. CASE AccessError
  BY <1>1, FailingKeeps DEF AccessError
<1> QED
  BY <1>1, PublishInvQuiet, PublishInvParse, PublishInvSetup, PublishInvRead, RegisteringPll,
     PublishInvProvider DEF ProbeStep

\* The PTP driver and the chip leave what is published alone.
LEMMA PublishInvOthers ==
  ASSUME PublishInv, dt' = dt, UNCHANGED PubVars, UNCHANGED probeVars
  PROVE  PublishInv'
<1>1. pos' \in 1 .. Len(Stages)'
  BY SameStages DEF PublishInv, probeVars
<1>2. CASE drv = "failed"
  BY <1>1, <1>2 DEF PublishInv, PubVars, probeVars, ClockKinds
<1>3. CASE drv # "failed"
  BY <1>1, <1>3, Passing DEF probeVars
<1> QED
  BY <1>2, <1>3

LEMMA OthersKeep ==
  ASSUME \/ PtpThread
         \/ (PtpRemove \/ \E d \in {0, 1} : AdjFine(d)) /\ UNCHANGED probeVars
         \/ (HwSource \/ \E p \in PLLs : HwSelect(p) \/ HwHold(p))
            /\ UNCHANGED <<probeVars, phcVars>>
         \/ UNCHANGED clockVars
  PROVE  dt' = dt /\ UNCHANGED PubVars /\ UNCHANGED probeVars /\ UNCHANGED nco_requested
<1> USE DEF PubVars, chipVars, stState, clkState, hwState
<1>1. CASE PtpThread
  <2>1. UNCHANGED probeVars
    BY <1>1 DEF PtpThread
  <2>2. CASE PtpStart
    BY <2>1, <2>2 DEF PtpStart
  <2>3. CASE PtpGetClks
    BY <2>1, <2>3 DEF PtpGetClks
  <2>4. CASE PtpSetParent
    BY <2>1, <2>4 DEF PtpSetParent
  <2>5. CASE PtpPoll
    BY <2>1, <2>5 DEF PtpPoll
  <2>6. CASE PtpGetTuning
    BY <2>1, <2>6 DEF PtpGetTuning, Gone
  <2>7. CASE PtpRegister
    BY <2>1, <2>7 DEF PtpRegister
  <2>8. CASE AdjFineUpdate
    BY <2>1, <2>8 DEF AdjFineUpdate, Gone
  <2> QED
    BY <1>1, <2>2, <2>3, <2>4, <2>5, <2>6, <2>7, <2>8 DEF PtpThread
<1>2. CASE PtpRemove /\ UNCHANGED probeVars
  BY <1>2 DEF PtpRemove
<1>3. CASE (\E d \in {0, 1} : AdjFine(d)) /\ UNCHANGED probeVars
  BY <1>3 DEF AdjFine, Gone
<1>4. CASE (HwSource \/ \E p \in PLLs : HwSelect(p) \/ HwHold(p))
           /\ UNCHANGED <<probeVars, phcVars>>
  BY <1>4 DEF HwSource, HwSelect, HwHold
<1>5. CASE UNCHANGED clockVars
  BY <1>5 DEF clockVars, probeVars
<1> QED
  BY <1>1, <1>2, <1>3, <1>4, <1>5

LEMMA PublishInvNext == ASSUME PublishInv, [ClockNext]_clockVars PROVE PublishInv'
<1>1. CASE ProbeThread
  BY <1>1, PublishInvProbe DEF ProbeThread
<1>2. CASE ~ProbeThread
  <2>1. dt' = dt /\ UNCHANGED PubVars /\ UNCHANGED probeVars
    BY <1>2, OthersKeep DEF ClockNext
  <2> QED
    BY <2>1, PublishInvOthers
<1> QED
  BY <1>1, <1>2

LEMMA PublishComplete == ASSUME PublishInv PROVE PublishedComplete
<1> SUFFICES ASSUME published
             PROVE  /\ tables = Rows
                    /\ \A c \in used : c[1] # "ref" => c \in registered
  BY DEF PublishedComplete, Rows
<1>1. pos \in Nat /\ pos > ProviderPos /\ drv # "failed"
  BY StageCount DEF PublishInv
<1>2. \A k \in Rows : pos > RowPos(k)
  BY <1>1 DEF RowPos, Rows, ProviderPos
<1>3. \A c \in used : ClockKinds(c) /\ c[1] # "ref" => pos > RegisterPos(c)
  BY <1>1 DEF RegisterPos, ClockKinds, Rows, ProviderPos
<1> QED
  BY <1>1, <1>2, <1>3 DEF PublishInv

\* Whoever finds the clock provider of the AD9545 finds every row of clks[]
\* that ad9545_clk_hw_twocell_get looks into and every clock in use
\* registered: after ad9545_setup and after ad9545_read_setup, for every
\* device tree, until a failing probe has taken the provider away again.
THEOREM PhcPublishedComplete == ClockSpec => []PublishedComplete
<1>1. ClockInit => PublishInv
  BY PublishInvInit
<1>2. PublishInv /\ [ClockNext]_clockVars => PublishInv'
  BY PublishInvNext
<1>3. PublishInv => PublishedComplete
  BY PublishComplete
<1> QED
  BY <1>1, <1>2, <1>3, PTL DEF ClockSpec

-----------------------------------------------------------------------------
(***************************************************************************)
(* What is in effect.                                                      *)
(***************************************************************************)

\* No write of the PTP driver waits for an update.
PtpClean ==
    \/ ppc \in {"wait", "clk", "parent", "tune", "up", "removed"} /\ ~erred
    \/ ppc = "register" /\ clk_ok /\ ~erred

RegShape(r) ==
    /\ DOMAIN r = {"prof", "mode", "nco", "off", "conf"}
    /\ DOMAIN r.nco = NCOs /\ DOMAIN r.off = NCOs /\ DOMAIN r.mode = PLLs

\* Where the frequencies of the device tree are set.
NcoPos == FreqsPos + 2

\* The offset in the register: that of the EEPROM until another frequency is
\* set in its place.
OffsetNow ==
    IF dt.auto /\ (pos <= NcoPos \/ dt.freqs[TuningNco] = 0) THEN dt.offset[TuningNco] ELSE 0

EffectInv ==
    /\ RegShape(buf)
    /\ drv = "done" => pos > NcoPos
    /\ ppc # "wait" => pos > ProviderPos
    /\ asked # NotAsked => pos > ProviderPos
    /\ nco_requested[TuningNco] = IF pos <= FreqsPos THEN 0 ELSE dt.freqs[TuningNco]
    /\ PtpClean /\ (dt.auto \/ pos >= ProviderPos) => buf = live
    /\ asked # NotAsked => buf.nco[TuningNco] = asked
    /\ buf.off[TuningNco] = OffsetNow

LEMMA ResetShape == RegShape(ResetRegs)
  BY DEF RegShape, ResetRegs

LEMMA EepromShape == ASSUME dt \in DeviceTrees PROVE RegShape(EepromRegs)
<1>1. DOMAIN dt.offset = NCOs
  BY TreeFreqs
<1> QED
  BY <1>1, ResetShape DEF RegShape, ResetRegs, EepromRegs

LEMMA WrittenShape ==
  ASSUME NEW r, RegShape(r), NEW group
  PROVE  /\ RegShape(Written(r, group))
         /\ Written(r, group).nco = r.nco /\ Written(r, group).off = r.off
  BY DEF RegShape, Written

LEMMA ProfShape ==
  ASSUME NEW r, RegShape(r), NEW p, NEW x, NEW s, s = [r EXCEPT !.prof[p] = x]
  PROVE  RegShape(s) /\ s.nco = r.nco /\ s.off = r.off
  BY DEF RegShape

LEMMA EffectInvInit == ASSUME ClockInit PROVE EffectInv
<1>1. RegShape(buf)
  BY ResetShape, EepromShape DEF ClockInit
<1>2. nco_requested[TuningNco] = 0 /\ ResetRegs.off[TuningNco] = 0
  BY ChipConstants DEF ClockInit, ResetRegs, NCOs
<1>3. EepromRegs.off = dt.offset
  BY DEF EepromRegs, ResetRegs
<1>4. pos = 1 /\ pos <= FreqsPos /\ pos <= NcoPos
  BY DEF ClockInit, FreqsPos, NcoPos
<1> QED
  BY <1>1, <1>2, <1>3, <1>4 DEF ClockInit, EffectInv, OffsetNow

\* What every stage of ad9545_probe does to the registers.  What it writes is
\* updated, left for the update at the end of the setup of the outputs, or
\* nothing; the tuning NCO keeps its offset, and after the provider is there
\* its centre frequency, until the device tree has another one set.
StageEffect ==
    /\ RegShape(buf')
    /\ drv' = "done" => drv = "done" \/ pos > NcoPos
    /\ drv' = "failed" => pos' = pos
    /\ \/ pos' = pos
       \/ pos' = pos + 1
    /\ \/ nco_requested' = nco_requested /\ (At("nco_freqs") => drv' = "failed")
       \/ nco_requested' = dt.freqs /\ pos = FreqsPos /\ pos' = pos + 1
    /\ \/ buf' = live'
       \/ UNCHANGED <<buf, live>> /\ (dt.auto \/ pos' = pos \/ pos' # ProviderPos)
       \/ ~dt.auto /\ pos' < ProviderPos
    /\ \/ /\ buf'.off[TuningNco] = buf.off[TuningNco]
          /\ pos > ProviderPos => buf'.nco[TuningNco] = buf.nco[TuningNco]
          /\ At("ncos_post") => drv' = "failed" \/ nco_requested[TuningNco] = 0
       \/ /\ At("ncos_post") /\ drv' # "failed" /\ pos = NcoPos /\ pos' = pos + 1
          /\ nco_requested[TuningNco] # 0
          /\ buf'.nco[TuningNco] = nco_requested[TuningNco] /\ buf'.off[TuningNco] = 0

LEMMA FreqStages ==
  ASSUME drv = "run"
  PROVE  (pos = FreqsPos => At("nco_freqs")) /\ (pos = NcoPos => At("ncos_post"))
<1>1. CASE dt.auto
  BY <1>1, ReadTable DEF FreqsPos, NcoPos, At, StageName
<1>2. CASE ~dt.auto
  BY <1>2, SetupTable DEF FreqsPos, NcoPos, At, StageName
<1> QED
  BY <1>1, <1>2

LEMMA EffectStep ==
  ASSUME PublishInv, EffectInv, drv = "run", dt' = dt, StageEffect, TrackAsked,
         UNCHANGED <<ppc, clk_ok, erred>>
  PROVE  EffectInv'
<1>1. pos \in Nat /\ pos' \in Nat
  BY StageCount DEF PublishInv, StageEffect
<1>2. /\ ProviderPos' = ProviderPos /\ FreqsPos' = FreqsPos /\ NcoPos' = NcoPos
      /\ ProviderPos \in Nat /\ FreqsPos \in Nat
      /\ NcoPos = FreqsPos + 2 /\ ProviderPos < FreqsPos
  BY DEF ProviderPos, FreqsPos, NcoPos
<1>3. PtpClean' = PtpClean
  BY DEF PtpClean
<1>4. RegShape(buf)'
  BY DEF StageEffect, RegShape, NCOs, PLLs
<1>5. (ppc # "wait" => pos > ProviderPos)'
  BY <1>1, <1>2 DEF EffectInv, StageEffect
<1>6. (drv = "done" => pos > NcoPos)'
  BY <1>1, <1>2 DEF StageEffect
<1>7. (nco_requested[TuningNco] = IF pos <= FreqsPos THEN 0 ELSE dt.freqs[TuningNco])'
  <2>1. CASE nco_requested' = nco_requested /\ (pos' = pos \/ pos # FreqsPos)
    BY <1>1, <1>2, <2>1 DEF EffectInv, StageEffect
  <2>2. CASE nco_requested' = dt.freqs /\ pos = FreqsPos /\ pos' = pos + 1
    BY <1>1, <1>2, <2>2
  <2> QED
    BY <2>1, <2>2, FreqStages DEF StageEffect
<1>8. (PtpClean /\ (dt.auto \/ pos >= ProviderPos) => buf = live)'
  BY <1>1, <1>2, <1>3 DEF EffectInv, StageEffect
<1>9. /\ (asked # NotAsked => pos > ProviderPos)'
      /\ (asked # NotAsked => buf.nco[TuningNco] = asked)'
      /\ (buf.off[TuningNco] = OffsetNow)'
  <2>1. CASE /\ buf'.off[TuningNco] = buf.off[TuningNco]
             /\ pos > ProviderPos => buf'.nco[TuningNco] = buf.nco[TuningNco]
             /\ At("ncos_post") => drv' = "failed" \/ nco_requested[TuningNco] = 0
    <3>1. asked' = asked
      BY <2>1 DEF TrackAsked
    <3>2. pos = NcoPos /\ pos' # pos => dt.freqs[TuningNco] = 0
      BY <1>1, <1>2, <2>1, FreqStages DEF StageEffect, EffectInv
    <3>3. OffsetNow' = OffsetNow
      BY <1>1, <1>2, <3>2 DEF OffsetNow, StageEffect
    <3> QED
      BY <1>1, <1>2, <2>1, <3>1, <3>3 DEF EffectInv, StageEffect, NotAsked
  <2>2. CASE /\ At("ncos_post") /\ drv' # "failed" /\ pos = NcoPos /\ pos' = pos + 1
             /\ nco_requested[TuningNco] # 0
             /\ buf'.nco[TuningNco] = nco_requested[TuningNco] /\ buf'.off[TuningNco] = 0
    <3>1. asked' = nco_requested[TuningNco]
      BY <2>2 DEF TrackAsked
    <3>2. dt.freqs[TuningNco] # 0
      BY <1>1, <1>2, <2>2 DEF EffectInv
    <3>3. OffsetNow' = 0
      BY <1>1, <1>2, <2>2, <3>2 DEF OffsetNow
    <3> QED
      BY <1>1, <1>2, <2>2, <3>1, <3>3
  <2> QED
    BY <2>1, <2>2 DEF StageEffect
<1> QED
  BY <1>4, <1>5, <1>6, <1>7, <1>8, <1>9 DEF EffectInv

LEMMA NotOutputs ==
  ASSUME drv = "run", ~At("outputs")
  PROVE  dt.auto \/ pos # 22
<1>1. CASE ~dt.auto
  <2>1. StageName(22) = "outputs"
    BY <1>1, SetupTable
  <2> QED
    BY <2>1 DEF At, StageName
<1> QED
  BY <1>1

LEMMA FailEffect == ASSUME EffectInv, Fail PROVE StageEffect /\ dt' = dt
  BY DEF Fail, Ends, StageEffect, EffectInv, RegShape

\* Only after the last stage, and in the post setup, the probe is done.
LEMMA DoneLate ==
  ASSUME PublishInv, drv = "run", GoOn
  PROVE  (drv' = "done" => pos > NcoPos) /\ drv' # "failed"
<1>1. Len(Stages) \in Nat /\ NcoPos \in Nat /\ NcoPos < Len(Stages)
  <2>1. CASE dt.auto
    <3>1. Len(Stages) = 21
      BY <2>1, ReadTable
    <3> QED
      BY <2>1, <3>1 DEF NcoPos, FreqsPos
  <2>2. CASE ~dt.auto
    <3>1. Len(Stages) = 32
      BY <2>2, SetupTable
    <3> QED
      BY <2>2, <3>1 DEF NcoPos, FreqsPos
  <2> QED
    BY <2>1, <2>2
<1>2. pos \in Nat
  BY <1>1 DEF PublishInv
<1> QED
  BY <1>1, <1>2 DEF GoOn

\* A stage that writes no register.
LEMMA LookEffect ==
  ASSUME PublishInv, EffectInv, drv = "run", GoOn, dt' = dt, ~At("outputs"),
         UNCHANGED <<buf, live>>, At("ncos_post") => nco_requested[TuningNco] = 0,
         \/ nco_requested' = nco_requested /\ ~At("nco_freqs")
         \/ nco_requested' = dt.freqs /\ pos = FreqsPos /\ pos < Len(Stages)
  PROVE  StageEffect
<1>1. pos \in Nat /\ Len(Stages) \in Nat /\ ((pos' = pos) \/ (pos' = pos + 1))
  BY GoOnPos, StageCount DEF PublishInv
<1>2. pos < Len(Stages) => pos' = pos + 1
  BY DEF GoOn
<1>3. dt.auto \/ pos' = pos \/ pos' # ProviderPos
  BY <1>1, NotOutputs DEF ProviderPos
<1>4. RegShape(buf')
  BY DEF EffectInv
<1> QED
  BY <1>1, <1>2, <1>3, <1>4, DoneLate DEF StageEffect

\* A stage that ends with an update.
LEMMA CommitEffect ==
  ASSUME PublishInv, EffectInv, drv = "run", GoOn, dt' = dt, nco_requested' = nco_requested,
         ~At("nco_freqs"), ~At("ncos_post"),
         NEW regs, Commit(regs), RegShape(regs), regs.nco = buf.nco, regs.off = buf.off
  PROVE  StageEffect
<1>1. (pos' = pos) \/ (pos' = pos + 1)
  BY GoOnPos
<1>2. buf' = regs /\ live' = regs
  BY DEF Commit
<1> QED
  BY <1>1, <1>2, DoneLate DEF StageEffect

\* A stage before the outputs are set up.
LEMMA EarlyEffect ==
  ASSUME PublishInv, drv = "run", GoOn, dt' = dt, nco_requested' = nco_requested,
         ~dt.auto, pos < 22, ~At("nco_freqs"), ~At("ncos_post"),
         RegShape(buf'), buf'.off[TuningNco] = buf.off[TuningNco]
  PROVE  StageEffect
<1>1. pos \in Nat /\ ((pos' = pos) \/ (pos' = pos + 1))
  BY GoOnPos, StageCount DEF PublishInv
<1> QED
  BY <1>1, DoneLate DEF StageEffect, ProviderPos

LEMMA EffectLooks ==
  ASSUME PublishInv, EffectInv,
         \/ CheckId \/ SysClkRead \/ CheckLocks \/ ParseSys \/ ParseInputs \/ ParsePlls
         \/ ParseOutputs \/ ParseNcos \/ ParseTdcs \/ ParseAux \/ Provider
         \/ InputRefsReadSetup \/ AuxNcosReadSetup \/ AuxTdcsReadSetup \/ AuxDpllReadSetup
         \/ OutputsReadSetup \/ AddNcoProfiles
  PROVE  StageEffect /\ dt' = dt
<1>1. CASE Fail
  BY <1>1, FailEffect
<1>2. CASE ~Fail
  <2> USE DEF Quiet, stState, chipVars
  <2>1. /\ drv = "run" /\ ~At("outputs") /\ ~At("nco_freqs") /\ ~At("ncos_post")
        /\ GoOn /\ dt' = dt /\ UNCHANGED <<buf, live, nco_requested>>
    <3>1. CASE CheckId \/ SysClkRead \/ CheckLocks
      BY <3>1 DEF CheckId, SysClkRead, CheckLocks, Looks, At
    <3>2. CASE ParseSys
      BY <1>2, <3>2 DEF ParseSys, At
    <3>3. CASE ParseInputs \/ ParseOutputs \/ ParseNcos \/ ParseTdcs \/ ParseAux
      BY <1>2, <3>3 DEF ParseInputs, ParseOutputs, ParseNcos, ParseTdcs, ParseAux, ParseNodes, At
    <3>4. CASE ParsePlls
      BY <1>2, <3>4 DEF ParsePlls, At
    <3>5. CASE Provider
      BY <3>5 DEF Provider, At
    <3>6. CASE InputRefsReadSetup
      BY <1>2, <3>6 DEF InputRefsReadSetup, At
    <3>7. CASE AuxNcosReadSetup \/ AuxTdcsReadSetup \/ OutputsReadSetup
      BY <3>7 DEF AuxNcosReadSetup, AuxTdcsReadSetup, OutputsReadSetup, ReadKind, At
    <3>8. CASE AuxDpllReadSetup
      BY <1>2, <3>8 DEF AuxDpllReadSetup, ReadKind, At
    <3>9. CASE AddNcoProfiles
      <4>1. At("nco_profiles") /\ GoOn /\ dt' = dt /\ UNCHANGED <<buf, live, nco_requested>>
        BY <1>2, <3>9 DEF AddNcoProfiles
      <4> QED
        BY <4>1 DEF At
    <3> QED
      BY <3>1, <3>2, <3>3, <3>4, <3>5, <3>6, <3>7, <3>8, <3>9
  <2> QED
    BY <2>1, LookEffect
<1> QED
  BY <1>1, <1>2

LEMMA EffectFreqs ==
  ASSUME PublishInv, EffectInv, SetNcoFreqs
  PROVE  StageEffect /\ dt' = dt
<1>1. CASE Fail
  BY <1>1, FailEffect
<1>2. CASE ~Fail
  <2>1. /\ drv = "run" /\ ~At("outputs") /\ ~At("ncos_post") /\ At("nco_freqs")
        /\ GoOn /\ dt' = dt /\ UNCHANGED <<buf, live>> /\ nco_requested' = dt.freqs
    BY <1>2 DEF SetNcoFreqs, At, Quiet
  <2>2. pos = FreqsPos /\ pos < Len(Stages)
    <3>1. CASE dt.auto
      <4>1. pos = 15
        BY <2>1, <3>1, ReadAt DEF PublishInv
      <4>2. Len(Stages) = 21
        BY <3>1, ReadTable
      <4> QED
        BY <3>1, <4>1, <4>2 DEF FreqsPos
    <3>2. CASE ~dt.auto
      <4>1. pos = 26
        BY <2>1, <3>2, SetupAt DEF PublishInv
      <4>2. Len(Stages) = 32
        BY <3>2, SetupTable
      <4> QED
        BY <3>2, <4>1, <4>2 DEF FreqsPos
    <3> QED
      BY <3>1, <3>2
  <2> QED
    BY <2>1, <2>2, LookEffect
<1> QED
  BY <1>1, <1>2

LEMMA EffectEarly ==
  ASSUME PublishInv, EffectInv,
         \/ ResetChip \/ SysClkSetup \/ InputRefsSetup \/ AuxNcosSetup \/ AuxTdcsSetup
         \/ AuxDpllSetup \/ PllProfiles
  PROVE  StageEffect /\ dt' = dt
<1>1. CASE Fail
  BY <1>1, FailEffect
<1>2. CASE ~Fail
  <2> USE DEF Quiet, stState, chipVars
  <2>1. RegShape(buf) /\ pos \in 1 .. Len(Stages)
    BY DEF EffectInv, PublishInv
  <2>2. /\ \/ At("reset") \/ At("sys_clk") \/ At("refs") \/ At("ncos") \/ At("tdcs")
           \/ At("aux_dpll") \/ At("profiles")
        /\ GoOn /\ dt' = dt /\ nco_requested' = nco_requested
    <3>1. CASE ResetChip
      BY <3>1 DEF ResetChip
    <3>2. CASE SysClkSetup
      BY <1>2, <3>2 DEF SysClkSetup
    <3>3. CASE InputRefsSetup
      BY <1>2, <3>3 DEF InputRefsSetup
    <3>4. CASE AuxNcosSetup \/ AuxTdcsSetup
      BY <3>4 DEF AuxNcosSetup, AuxTdcsSetup, RegisterKind
    <3>5. CASE AuxDpllSetup
      BY <1>2, <3>5 DEF AuxDpllSetup
    <3>6. CASE PllProfiles
      BY <1>2, <3>6 DEF PllProfiles
    <3> QED
      BY <3>1, <3>2, <3>3, <3>4, <3>5, <3>6
  <2>3. drv = "run" /\ ~dt.auto /\ ~At("nco_freqs") /\ ~At("ncos_post")
    BY <2>1, <2>2, ReadAt DEF At
  <2>4. pos < 22
    BY <2>1, <2>2, <2>3, SetupAt
  <2>5. RegShape(buf') /\ buf'.off[TuningNco] = buf.off[TuningNco]
    <3>1. CASE ResetChip
      <4>1. buf.off[TuningNco] = 0
        BY <2>3 DEF EffectInv, OffsetNow
      <4>2. ResetRegs.off[TuningNco] = 0
        BY ChipConstants DEF ResetRegs, NCOs
      <4> QED
        BY <3>1, <4>1, <4>2, ResetShape DEF ResetChip, Commit
    <3>2. CASE SysClkSetup
      BY <1>2, <2>1, <3>2, WrittenShape DEF SysClkSetup, Stage
    <3>3. CASE InputRefsSetup
      BY <1>2, <2>1, <3>3, WrittenShape DEF InputRefsSetup
    <3>4. CASE AuxNcosSetup \/ AuxTdcsSetup
      BY <2>1, <3>4, WrittenShape DEF AuxNcosSetup, AuxTdcsSetup, RegisterKind, Stage
    <3>5. CASE AuxDpllSetup
      BY <1>2, <2>1, <3>5, WrittenShape DEF AuxDpllSetup, Stage
    <3>6. CASE PllProfiles
      <4> DEFINE p     == Arg
                 plans == Numbered(profiles[p])
                 regs  == [buf EXCEPT !.prof[p] = [j \in Profiles |->
                              IF plans[j].en THEN ProfileRegs(buf, p, j, plans[j]).prof[p][j]
                                             ELSE @[j]]]
      <4>1. buf' = buf \/ buf' = regs \/ buf' = Written(regs, "fast_acq")
        BY <1>2, <3>6 DEF PllProfiles
      <4>2. RegShape(regs)
        BY <2>1, ProfShape
      <4>3. regs.off = buf.off
        BY <2>1 DEF RegShape
      <4> HIDE DEF regs
      <4> QED
        BY <2>1, <4>1, <4>2, <4>3, WrittenShape
    <3> QED
      BY <3>1, <3>2, <3>3, <3>4, <3>5, <3>6
  <2> QED
    BY <2>2, <2>3, <2>4, <2>5, EarlyEffect
<1> QED
  BY <1>1, <1>2

LEMMA EffectUpdates ==
  ASSUME PublishInv, EffectInv,
         \/ CalibSystemClock \/ CalibAplls \/ IoUpdate \/ RegisterPll \/ OutputsSetup
         \/ PllProfilesRead
  PROVE  StageEffect /\ dt' = dt
<1> USE DEF Quiet, stState, chipVars
<1>1. RegShape(buf)
  BY DEF EffectInv
<1>2. CASE CalibSystemClock
  <2>1. CASE Fail
    BY <2>1, FailEffect
  <2>2. CASE GoOn /\ Commit(buf) /\ dt' = dt /\ nco_requested' = nco_requested
    BY <1>1, <1>2, <2>2, CommitEffect DEF CalibSystemClock, At
  <2>3. CASE Commit(buf) /\ dt' = dt /\ UNCHANGED <<drv, pos>> /\ nco_requested' = nco_requested
    BY <1>1, <1>2, <2>3 DEF CalibSystemClock, At, Commit, StageEffect
  <2> QED
    BY <1>2, <2>1, <2>2, <2>3 DEF CalibSystemClock
<1>3. CASE CalibAplls
  <2>1. /\ drv = "run" /\ ~At("outputs") /\ ~At("nco_freqs") /\ ~At("ncos_post")
        /\ GoOn /\ dt' = dt /\ nco_requested' = nco_requested
        /\ UNCHANGED <<buf, live>> \/ Commit(Written(buf, "calib"))
    BY <1>3 DEF CalibAplls, At
  <2> QED
    BY <1>1, <2>1, LookEffect, CommitEffect, WrittenShape
<1>4. CASE IoUpdate
  BY <1>1, <1>4, CommitEffect DEF IoUpdate, At
<1>5. CASE RegisterPll
  <2>1. /\ drv = "run" /\ ~At("outputs") /\ ~At("nco_freqs") /\ ~At("ncos_post")
        /\ GoOn /\ dt' = dt /\ nco_requested' = nco_requested
        /\ UNCHANGED <<buf, live>> \/ Commit(buf)
    BY <1>5 DEF RegisterPll, At
  <2> QED
    BY <1>1, <2>1, LookEffect, CommitEffect
<1>6. CASE OutputsSetup
  <2>1. /\ RegShape(Written(Written(buf, "driver"), "sync"))
        /\ Written(Written(buf, "driver"), "sync").nco = buf.nco
        /\ Written(Written(buf, "driver"), "sync").off = buf.off
    BY <1>1, WrittenShape
  <2> QED
    BY <1>6, <2>1, CommitEffect DEF OutputsSetup, At
<1>7. CASE PllProfilesRead
  <2>1. CASE Fail
    BY <2>1, FailEffect
  <2>2. CASE ~Fail
    <3>1. /\ drv = "run" /\ ~At("nco_freqs") /\ ~At("ncos_post")
          /\ GoOn /\ dt' = dt /\ nco_requested' = nco_requested /\ Commit(buf)
      BY <1>7, <2>2 DEF PllProfilesRead, At
    <3> QED
      BY <1>1, <3>1, CommitEffect
  <2> QED
    BY <2>1, <2>2
<1> QED
  BY <1>2, <1>3, <1>4, <1>5, <1>6, <1>7

\* The post setup, which runs beside the PTP driver.
LEMMA EffectPost ==
  ASSUME PublishInv, EffectInv, AuxNcosPostSetup \/ PostRead \/ PostWrite
  PROVE  StageEffect /\ dt' = dt
<1> USE DEF Quiet, stState, chipVars
<1>1. RegShape(buf)
  BY DEF EffectInv
<1>2. CASE AuxNcosPostSetup
  <2> DEFINE freqs == [n \in NCOs |->
                         IF nco_requested[n] = 0 THEN buf.nco[n] ELSE nco_requested[n]]
             offs == [n \in NCOs |-> IF nco_requested[n] = 0 THEN buf.off[n] ELSE 0]
             regs == [buf EXCEPT !.nco = freqs, !.off = offs]
  <2>1. /\ drv = "run" /\ ~At("outputs") /\ ~At("nco_freqs") /\ At("ncos_post")
        /\ GoOn /\ dt' = dt /\ nco_requested' = nco_requested
    BY <1>2 DEF AuxNcosPostSetup, At
  <2>2. \/ UNCHANGED <<buf, live>> /\ \A n \in NCOs : nco_requested[n] = 0
        \/ Commit(regs)
    BY <1>2, <1>1 DEF AuxNcosPostSetup, RegShape
  <2>3. RegShape(regs) /\ regs.nco = freqs /\ regs.off = offs
    BY <1>1 DEF RegShape
  <2>4. /\ freqs[TuningNco] = IF nco_requested[TuningNco] = 0 THEN buf.nco[TuningNco]
                              ELSE nco_requested[TuningNco]
        /\ offs[TuningNco] = IF nco_requested[TuningNco] = 0 THEN buf.off[TuningNco] ELSE 0
    BY ChipConstants DEF NCOs
  <2>5. CASE UNCHANGED <<buf, live>> /\ \A n \in NCOs : nco_requested[n] = 0
    <3>1. nco_requested[TuningNco] = 0
      BY <2>5, ChipConstants DEF NCOs
    <3> QED
      BY <2>1, <2>5, <3>1, LookEffect
  <2>6. CASE Commit(regs)
    <3>1. pos = NcoPos /\ pos' = pos + 1
      <4>1. pos \in 1 .. Len(Stages)
        BY DEF PublishInv
      <4>2. CASE dt.auto
        <5>1. pos = 17 /\ Len(Stages) = 21
          BY <2>1, <4>1, <4>2, ReadAt, ReadTable
        <5> QED
          BY <2>1, <4>2, <5>1 DEF GoOn, NcoPos, FreqsPos
      <4>3. CASE ~dt.auto
        <5>1. pos = 28 /\ Len(Stages) = 32
          BY <2>1, <4>1, <4>3, SetupAt, SetupTable
        <5> QED
          BY <2>1, <4>3, <5>1 DEF GoOn, NcoPos, FreqsPos
      <4> QED
        BY <4>2, <4>3
    <3>2. buf' = regs /\ live' = regs
      BY <2>6 DEF Commit
    <3> HIDE DEF regs, freqs, offs
    <3> QED
      BY <2>1, <2>3, <2>4, <3>1, <3>2, DoneLate DEF StageEffect
  <2> QED
    BY <2>2, <2>5, <2>6
<1>3. CASE PostRead
  <2>1. /\ dt' = dt /\ nco_requested' = nco_requested /\ drv' # "failed"
        /\ At("post_read") /\ ~At("nco_freqs") /\ ~At("ncos_post")
    BY <1>3 DEF PostRead, Ends, At
  <2>2. \/ UNCHANGED <<buf, live, pos>>
        \/ Commit(buf) /\ pos' = pos
        \/ Commit(buf) /\ pos' = pos + 1
    BY <1>3 DEF PostRead, Ends
  <2>3. pos > NcoPos
    <3>1. pos \in 1 .. Len(Stages)
      BY DEF PublishInv
    <3>2. CASE dt.auto
      BY <2>1, <3>1, <3>2, ReadAt DEF NcoPos, FreqsPos
    <3>3. CASE ~dt.auto
      BY <2>1, <3>1, <3>3, SetupAt DEF NcoPos, FreqsPos
    <3> QED
      BY <3>2, <3>3
  <2> QED
    BY <1>1, <2>1, <2>2, <2>3 DEF Commit, StageEffect, RegShape
<1>4. CASE PostWrite
  <2>1. CASE Fail
    BY <2>1, FailEffect
  <2>2. CASE ~Fail
    <3>1. /\ drv = "run" /\ ~At("outputs") /\ ~At("nco_freqs") /\ ~At("ncos_post")
          /\ GoOn /\ dt' = dt /\ nco_requested' = nco_requested
          /\ UNCHANGED <<buf, live>> \/ Commit(PostRegs(Arg))
      BY <1>4, <2>2 DEF PostWrite, WriteProfiles, At
    <3>2. /\ RegShape(PostRegs(Arg))
          /\ PostRegs(Arg).nco = buf.nco /\ PostRegs(Arg).off = buf.off
      BY <1>1, ProfShape DEF PostRegs
    <3> QED
      BY <3>1, <3>2, LookEffect, CommitEffect
  <2> QED
    BY <2>1, <2>2
<1> QED
  BY <1>2, <1>3, <1>4

LEMMA ProbeEffect ==
  ASSUME PublishInv, EffectInv, ProbeStep
  PROVE  StageEffect /\ dt' = dt
<1>1. CASE AccessError
  BY <1>1, FailEffect DEF AccessError
<1> QED
  BY <1>1, EffectLooks, EffectFreqs, EffectEarly, EffectUpdates, EffectPost DEF ProbeStep

\* The probe only goes on while it runs.
LEMMA ProbeRuns == ASSUME ProbeStep PROVE drv = "run"
<1> USE DEF At
<1>1. CASE AccessError \/ CheckId \/ SysClkRead \/ CheckLocks
  BY <1>1 DEF AccessError, CheckId, SysClkRead, CheckLocks, Looks
<1>2. CASE \/ ParseSys \/ ParseInputs \/ ParsePlls \/ ParseOutputs \/ ParseNcos \/ ParseTdcs
           \/ ParseAux
  BY <1>2 DEF ParseSys, ParseInputs, ParsePlls, ParseOutputs, ParseNcos, ParseTdcs, ParseAux,
              ParseNodes
<1>3. CASE \/ ResetChip \/ SysClkSetup \/ InputRefsSetup \/ AuxNcosSetup \/ CalibSystemClock
           \/ AuxTdcsSetup \/ AuxDpllSetup \/ CalibAplls \/ IoUpdate
  BY <1>3 DEF ResetChip, SysClkSetup, InputRefsSetup, AuxNcosSetup, CalibSystemClock,
              AuxTdcsSetup, AuxDpllSetup, CalibAplls, IoUpdate, RegisterKind
<1>4. CASE PllProfiles \/ RegisterPll \/ OutputsSetup \/ Provider
  BY <1>4 DEF PllProfiles, RegisterPll, OutputsSetup, Provider
<1>5. CASE \/ InputRefsReadSetup \/ AuxNcosReadSetup \/ AuxTdcsReadSetup \/ AuxDpllReadSetup
           \/ PllProfilesRead \/ OutputsReadSetup
  BY <1>5 DEF InputRefsReadSetup, AuxNcosReadSetup, AuxTdcsReadSetup, AuxDpllReadSetup,
              PllProfilesRead, OutputsReadSetup, ReadKind
<1>6. CASE SetNcoFreqs \/ AuxNcosPostSetup \/ PostRead \/ PostWrite
  BY <1>6 DEF SetNcoFreqs, AuxNcosPostSetup, PostRead, PostWrite
<1>7. CASE AddNcoProfiles
  <2>1. At("nco_profiles")
    BY <1>7 DEF AddNcoProfiles
  <2> QED
    BY <2>1
<1> QED
  BY <1>1, <1>2, <1>3, <1>4, <1>5, <1>6, <1>7 DEF ProbeStep

LEMMA EffectInvProbe ==
  ASSUME PublishInv, EffectInv, ProbeThread
  PROVE  EffectInv'
  BY ProbeRuns, ProbeEffect, EffectStep DEF ProbeThread

\* The calls of the PTP driver.
LEMMA EffectInvPtp ==
  ASSUME PublishInv, EffectInv, dt' = dt, UNCHANGED probeVars, UNCHANGED nco_requested,
         \/ PtpStart \/ PtpGetClks \/ PtpSetParent \/ PtpPoll \/ PtpGetTuning \/ PtpRegister
         \/ AdjFineUpdate \/ PtpRemove \/ \E d \in {0, 1} : AdjFine(d)
  PROVE  EffectInv'
<1>1. /\ RegShape(buf) /\ pos' = pos
      /\ ProviderPos' = ProviderPos /\ FreqsPos' = FreqsPos /\ NcoPos' = NcoPos
  BY DEF EffectInv, probeVars, ProviderPos, FreqsPos, NcoPos
<1>2. /\ RegShape(buf')
      /\ \/ ppc' = "wait" /\ ppc = "wait"
         \/ ppc' # "wait" /\ (ppc # "wait" \/ published)
      /\ buf'.off = buf.off
      /\ \/ asked' = asked /\ buf'.nco = buf.nco
         \/ asked' = buf'.nco[TuningNco] /\ ppc' # "wait"
      /\ \/ buf' = live'
         \/ ~PtpClean'
         \/ PtpClean /\ UNCHANGED <<buf, live>>
  <2> USE DEF PtpClean, PtpAt, chipVars
  <2>1. CASE PtpStart
    BY <1>1, <2>1 DEF PtpStart, PtpGoes
  <2>2. CASE PtpGetClks
    BY <1>1, <2>2 DEF PtpGetClks, PtpGoes, ClkProbeFails
  <2>3. CASE PtpSetParent
    <3>1. CASE UNCHANGED <<buf, live>> /\ ppc' = "tune" /\ ppc = "parent" /\ UNCHANGED <<asked, erred>>
      BY <1>1, <3>1
    <3>2. CASE \E profile : buf' = [buf EXCEPT !.mode[0] = profile]
                            /\ ppc' = "poll" /\ ppc = "parent" /\ UNCHANGED asked
      <4>1. RegShape(buf') /\ buf'.nco = buf.nco /\ buf'.off = buf.off
        BY <1>1, <3>2 DEF RegShape
      <4> QED
        BY <3>2, <4>1
    <3>3. CASE UNCHANGED <<buf, live>> /\ ppc' = "register" /\ ppc = "parent" /\ clk_ok' = FALSE
               /\ UNCHANGED asked
      BY <1>1, <3>3
    <3> QED
      BY <2>3, <3>1, <3>2, <3>3 DEF PtpSetParent, PtpGoes, ClkProbeFails
  <2>4. CASE PtpPoll
    BY <1>1, <2>4 DEF PtpPoll, PtpGoes, ClkProbeFails, Commit
  <2>5. CASE PtpGetTuning
    BY <1>1, <2>5 DEF PtpGetTuning, PtpGoes, ClkProbeFails, Commit, Gone
  <2>6. CASE PtpRegister
    BY <1>1, <2>6 DEF PtpRegister, PtpGoes
  <2>7. CASE AdjFineUpdate
    BY <1>1, <2>7 DEF AdjFineUpdate, TuningUpdate, PtpGoes, Commit, Gone
  <2>8. CASE PtpRemove
    BY <1>1, <2>8 DEF PtpRemove, PtpGoes
  <2>9. CASE \E d \in {0, 1} : AdjFine(d)
    <3>1. PICK d \in {0, 1} : AdjFine(d)
      BY <2>9
    <3>2. CASE Gone
      BY <1>1, <3>1, <3>2 DEF AdjFine, Gone, PtpGoes
    <3>3. CASE /\ buf' = [buf EXCEPT !.nco[TuningNco] = hw_freq + d]
               /\ asked' = hw_freq + d /\ ppc' = "adj" /\ ppc = "up"
      <4>1. RegShape(buf') /\ buf'.nco[TuningNco] = hw_freq + d /\ buf'.off = buf.off
        BY <1>1, <3>3, ChipConstants DEF RegShape, NCOs
      <4> QED
        BY <3>3, <4>1
    <3>4. CASE UNCHANGED <<buf, live, ppc, asked>> /\ ppc = "up" /\ erred' = TRUE
      BY <1>1, <3>4
    <3> QED
      BY <3>1, <3>2, <3>3, <3>4 DEF AdjFine
  <2> QED
    BY <2>1, <2>2, <2>3, <2>4, <2>5, <2>6, <2>7, <2>8, <2>9
<1>3. (RegShape(buf))'
  BY <1>2 DEF RegShape, NCOs, PLLs
<1>4. (ppc # "wait" => pos > ProviderPos)' /\ (drv = "done" => pos > NcoPos)'
  BY <1>1, <1>2 DEF EffectInv, PublishInv, probeVars
<1>5. (asked # NotAsked => pos > ProviderPos)'
  BY <1>1, <1>2, <1>4 DEF EffectInv, NotAsked
<1>6. (nco_requested[TuningNco] = IF pos <= FreqsPos THEN 0 ELSE dt.freqs[TuningNco])'
  BY <1>1 DEF EffectInv
<1>7. (PtpClean /\ (dt.auto \/ pos >= ProviderPos) => buf = live)'
  BY <1>1, <1>2 DEF EffectInv
<1>8. (asked # NotAsked => buf.nco[TuningNco] = asked)'
  BY <1>2 DEF EffectInv, NotAsked
<1>9. (buf.off[TuningNco] = OffsetNow)'
  BY <1>1, <1>2 DEF EffectInv, OffsetNow
<1> QED
  BY <1>3, <1>4, <1>5, <1>6, <1>7, <1>8, <1>9 DEF EffectInv

LEMMA EffectInvSame ==
  ASSUME EffectInv, UNCHANGED <<dt, buf, live, nco_requested, drv, pos, phcVars>>
  PROVE  EffectInv'
<1>1. UNCHANGED <<ppc, clk_ok, asked, erred>>
  BY DEF phcVars
<1> QED
  BY <1>1 DEF EffectInv, RegShape, PtpClean, ProviderPos, FreqsPos, NcoPos, OffsetNow, NotAsked

LEMMA EffectInvNext ==
  ASSUME PublishInv, EffectInv, [ClockNext]_clockVars
  PROVE  EffectInv'
<1>1. CASE ProbeThread
  BY <1>1, EffectInvProbe
<1>2. CASE ~ProbeThread
  <2>1. dt' = dt /\ UNCHANGED probeVars /\ UNCHANGED nco_requested
    BY <1>2, OthersKeep DEF ClockNext
  <2>2. CASE PtpThread
    BY <2>1, <2>2, EffectInvPtp DEF PtpThread
  <2>3. CASE PtpRemove \/ \E d \in {0, 1} : AdjFine(d)
    BY <2>1, <2>3, EffectInvPtp
  <2>4. CASE (HwSource \/ \E p \in PLLs : HwSelect(p) \/ HwHold(p))
             /\ UNCHANGED <<probeVars, phcVars>>
    BY <2>1, <2>4, EffectInvSame DEF HwSource, HwSelect, HwHold, probeVars
  <2>5. CASE UNCHANGED clockVars
    BY <2>1, <2>5, EffectInvSame DEF clockVars, chipVars, probeVars
  <2> QED
    BY <1>2, <2>2, <2>3, <2>4, <2>5 DEF ClockNext
<1> QED
  BY <1>1, <1>2

LEMMA EffectComplete ==
  ASSUME PublishInv, EffectInv
  PROVE  AllInEffect
<1> SUFFICES ASSUME drv = "done", ppc \in {"wait", "up", "removed"}, ~erred
             PROVE  /\ buf = live
                    /\ asked # NotAsked => NcoFreq(live, TuningNco) = asked + LeftOffset
  BY DEF AllInEffect
<1>1. pos \in Nat /\ pos > NcoPos /\ pos >= ProviderPos
  BY StageCount DEF EffectInv, PublishInv, NcoPos, FreqsPos, ProviderPos
<1>2. buf = live
  BY <1>1 DEF EffectInv, PtpClean
<1>3. buf.off[TuningNco] = LeftOffset
  BY <1>1 DEF EffectInv, OffsetNow, LeftOffset, NcoPos, FreqsPos
<1> QED
  BY <1>2, <1>3 DEF EffectInv, NcoFreq

\* Once the set-up of the AD9545 has ended and no call of the PTP driver is
\* under way or has just failed, every register it or ad9545_probe has
\* written is in effect, although the post setup of the probe runs beside
\* ad9545_pll_set_parent and ad9545_set_aux_nco_tuning_freq without a lock.
\* The NCO then runs at the frequency that adjfine or the device tree has
\* asked for last, plus the offset frequency that the EEPROM has loaded:
\* ad9545_nco_clk_setup clears it when the device tree gives a frequency,
\* adjfine, which writes the centre frequency alone, never does.
THEOREM PhcAllInEffect == ClockSpec => []AllInEffect
<1>1. ClockInit => PublishInv /\ EffectInv
  BY PublishInvInit, EffectInvInit
<1>2. PublishInv /\ EffectInv /\ [ClockNext]_clockVars => PublishInv' /\ EffectInv'
  BY PublishInvNext, EffectInvNext
<1>3. PublishInv /\ EffectInv => AllInEffect
  BY EffectComplete
<1> QED
  BY <1>1, <1>2, <1>3, PTL DEF ClockSpec

-----------------------------------------------------------------------------
(***************************************************************************)
(* Types.                                                                  *)
(***************************************************************************)

RegTypes(r) ==
    /\ RegShape(r)
    /\ r.mode \in [PLLs -> Profiles \cup {NoProfile}]
    /\ r.nco \in [NCOs -> 0 .. MaxFreq] /\ r.off \in [NCOs -> 0 .. MaxFreq]

ParentTypes(ps) ==
    /\ DOMAIN ps = PLLs
    /\ \A p \in PLLs : Len(ps[p]) \in 0 .. MAX_DPLL_PROFILES

DriverEnds == {"run", "done", "failed", "oops"}

ChipInv ==
    /\ dt \in DeviceTrees
    /\ drv \in DriverEnds
    /\ active \in [PLLs -> Profiles]
    /\ RegTypes(buf) /\ RegTypes(live)
    /\ nco_requested \in [NCOs -> 0 .. MaxFreq]
    /\ ParentTypes(parents)

PtpInv ==
    /\ ppc \in {"wait", "clk", "parent", "poll", "tune", "register",
                "up", "adj", "removed", "orphan", "error", "oops", "gone"}
    /\ polls \in 0 .. MaxPolls - 1 /\ hw_freq \in 0 .. 2 * MaxFreq

\* A non-empty set of numbers has a least element: of the parts {i : i <= k},
\* ordered by inclusion, one is minimal.
LEMMA LeastNumber ==
  ASSUME NEW T \in SUBSET Nat, T # {}
  PROVE  \E x \in T : \A y \in T : x <= y
<1> DEFINE Below(k) == {i \in T : i <= k}
           All == {Below(k) : k \in T}
<1>1. \A k \in T : IsFiniteSet(Below(k)) /\ Below(k) \in SUBSET Nat
  BY FS_BoundedSetOfNaturals
<1>2. All \subseteq FiniteSubsetsOf(Nat) /\ All # {}
  BY <1>1 DEF FiniteSubsetsOf
<1>3. IsWellFoundedOn(StrictSubsetOrdering(Nat), FiniteSubsetsOf(Nat))
  BY FS_StrictSubsetOrderingWellFounded
<1>4. PICK U \in All : \A V \in All : <<V, U>> \notin StrictSubsetOrdering(Nat)
  <2> HIDE DEF All
  <2> QED
    BY <1>2, <1>3, WFMin
<1>5. PICK x \in T : U = Below(x)
  BY <1>4
<1>6. \A y \in T : ~(y < x)
  <2> SUFFICES ASSUME NEW y \in T, y < x PROVE FALSE
    OBVIOUS
  <2>1. Below(y) \in All
    OBVIOUS
  <2>2. Below(y) \subseteq Below(x) /\ x \in Below(x) /\ x \notin Below(y)
    <3>1. T \subseteq Nat
      OBVIOUS
    <3>2. \A i \in T : i <= y => i <= x
      BY <3>1
    <3>3. x <= x /\ ~(x <= y)
      BY <3>1
    <3> QED
      BY <3>2, <3>3
  <2>3. Below(y) \in SUBSET Nat /\ U \in SUBSET Nat
    BY <1>5
  <2> HIDE DEF Below, All
  <2>4. <<Below(y), U>> \in StrictSubsetOrdering(Nat)
    BY <1>5, <2>2, <2>3 DEF StrictSubsetOrdering
  <2> QED
    BY <1>4, <2>1, <2>4
<1> QED
  BY <1>6

LEMMA ProfileForTypes ==
  ASSUME NEW p, NEW index
  PROVE  ProfileFor(p, index) \in Profiles \cup {NoProfile}
<1> DEFINE found == {j \in Profiles : profiles[p][j].en /\ profiles[p][j].parent_index = index}
<1>1. found \in SUBSET Profiles /\ found \in SUBSET Nat
  BY ChipConstants DEF Profiles
<1> HIDE DEF found
<1>2. found # {} => \E j \in found : \A i \in found : j <= i
  BY <1>1, LeastNumber
<1>3. ProfileFor(p, index) = IF found = {} THEN NoProfile
                            ELSE CHOOSE j \in found : \A i \in found : j <= i
  BY DEF found, ProfileFor
<1> QED
  BY <1>1, <1>2, <1>3

LEMMA ParentsLen ==
  ASSUME NEW profs
  PROVE  Len(Parents(profs)) \in 0 .. MAX_DPLL_PROFILES
<1> DEFINE good  == {j \in Profiles : profs[j].en}
           count == Cardinality(good)
<1>1. IsFiniteSet(Profiles) /\ Cardinality(Profiles) = MAX_DPLL_PROFILES
  BY ChipConstants, FS_Interval DEF Profiles
<1>2. good \in SUBSET Profiles
  OBVIOUS
<1> HIDE DEF good
<1>3. count \in 0 .. MAX_DPLL_PROFILES
  BY <1>1, <1>2, FS_Subset, FS_CardinalityType, ChipConstants
<1> DEFINE f == Parents(profs)
<1>4. f = [k \in 1 .. count |-> f[k]]
  BY DEF good, Parents
<1> HIDE DEF f, count
<1>5. Len(f) = count
  BY <1>3, <1>4
<1> QED
  BY <1>3, <1>5 DEF f

LEMMA ResetTypes ==
  ASSUME dt \in DeviceTrees
  PROVE  RegTypes(ResetRegs) /\ RegTypes(EepromRegs)
<1>1. RegTypes(ResetRegs)
  BY ResetShape, TreeFreqs DEF RegTypes, ResetRegs, RegShape
<1>2. RegTypes(EepromRegs)
  <2>1. /\ EepromRegs.mode = ResetRegs.mode /\ EepromRegs.nco = [n \in NCOs |-> 1]
        /\ EepromRegs.off = dt.offset
    BY DEF EepromRegs, ResetRegs
  <2> QED
    BY <1>1, <2>1, EepromShape, TreeFreqs DEF RegTypes
<1> QED
  BY <1>1, <1>2

LEMMA WrittenTypes ==
  ASSUME NEW r, RegTypes(r), NEW group
  PROVE  RegTypes(Written(r, group))
<1>1. Written(r, group).mode = r.mode
  BY DEF RegTypes, RegShape, Written
<1> QED
  BY <1>1, WrittenShape DEF RegTypes

LEMMA ProfTypes ==
  ASSUME NEW r, RegTypes(r), NEW p, NEW x, NEW s, s = [r EXCEPT !.prof[p] = x]
  PROVE  RegTypes(s)
<1>1. s.mode = r.mode
  BY DEF RegTypes, RegShape
<1>2. RegShape(s) /\ s.nco = r.nco /\ s.off = r.off
  BY ProfShape DEF RegTypes
<1> QED
  BY <1>1, <1>2 DEF RegTypes

LEMMA ChipInvInit == ASSUME ClockInit PROVE ChipInv /\ PtpInv
<1>1. RegTypes(buf) /\ RegTypes(live)
  BY ResetTypes DEF ClockInit
<1>2. active \in [PLLs -> Profiles]
  BY ChipConstants DEF ClockInit, Profiles
<1>3. nco_requested \in [NCOs -> 0 .. MaxFreq]
  BY TreeFreqs DEF ClockInit
<1>4. ParentTypes(parents)
  BY ChipConstants DEF ClockInit, ParentTypes
<1>5. PtpInv
  BY ChipConstants, TreeFreqs DEF ClockInit, PtpInv
<1> QED
  BY <1>1, <1>2, <1>3, <1>4, <1>5 DEF ClockInit, ChipInv, DriverEnds

\* What every stage of ad9545_probe keeps.
StageTypes ==
    /\ drv' \in DriverEnds /\ active' = active
    /\ RegTypes(buf') /\ RegTypes(live')
    /\ nco_requested' \in [NCOs -> 0 .. MaxFreq]
    /\ ParentTypes(parents')

LEMMA FailTypes == ASSUME ChipInv, Fail PROVE StageTypes
  BY DEF ChipInv, Fail, Ends, hwState, StageTypes, DriverEnds

LEMMA GoOnEnds == ASSUME ChipInv, GoOn PROVE drv' \in DriverEnds
  BY DEF ChipInv, GoOn, DriverEnds

LEMMA LookTypes ==
  ASSUME ChipInv,
         \/ CheckId \/ SysClkRead \/ CheckLocks \/ ParseSys \/ ParseInputs \/ ParsePlls
         \/ ParseOutputs \/ ParseNcos \/ ParseTdcs \/ ParseAux \/ Provider
         \/ InputRefsReadSetup \/ AuxNcosReadSetup \/ AuxTdcsReadSetup \/ AuxDpllReadSetup
         \/ OutputsReadSetup \/ AddNcoProfiles \/ SetNcoFreqs
  PROVE  StageTypes
<1>1. CASE Fail
  BY <1>1, FailTypes
<1>2. CASE ~Fail
  <2> USE DEF Quiet, stState, chipVars, hwState
  <2>1. /\ GoOn /\ UNCHANGED <<active, buf, live, parents>>
        /\ nco_requested' = nco_requested \/ nco_requested' = dt.freqs
    <3>1. CASE CheckId \/ SysClkRead \/ CheckLocks
      BY <3>1 DEF CheckId, SysClkRead, CheckLocks, Looks
    <3>2. CASE ParseSys
      BY <1>2, <3>2 DEF ParseSys
    <3>3. CASE ParseInputs \/ ParseOutputs \/ ParseNcos \/ ParseTdcs \/ ParseAux
      BY <1>2, <3>3 DEF ParseInputs, ParseOutputs, ParseNcos, ParseTdcs, ParseAux, ParseNodes
    <3>4. CASE ParsePlls
      BY <1>2, <3>4 DEF ParsePlls
    <3>5. CASE Provider
      BY <3>5 DEF Provider
    <3>6. CASE InputRefsReadSetup
      BY <1>2, <3>6 DEF InputRefsReadSetup
    <3>7. CASE AuxNcosReadSetup \/ AuxTdcsReadSetup \/ OutputsReadSetup
      BY <3>7 DEF AuxNcosReadSetup, AuxTdcsReadSetup, OutputsReadSetup, ReadKind
    <3>8. CASE AuxDpllReadSetup
      BY <1>2, <3>8 DEF AuxDpllReadSetup, ReadKind
    <3>9. CASE AddNcoProfiles
      BY <1>2, <3>9 DEF AddNcoProfiles
    <3>10. CASE SetNcoFreqs
      BY <1>2, <3>10 DEF SetNcoFreqs
    <3> QED
      BY <3>1, <3>2, <3>3, <3>4, <3>5, <3>6, <3>7, <3>8, <3>9, <3>10
  <2>2. nco_requested' \in [NCOs -> 0 .. MaxFreq]
    BY <2>1, TreeFreqs DEF ChipInv
  <2> QED
    BY <2>1, <2>2, GoOnEnds DEF ChipInv, StageTypes
<1> QED
  BY <1>1, <1>2

LEMMA WriteTypes ==
  ASSUME ChipInv,
         \/ ResetChip \/ SysClkSetup \/ InputRefsSetup \/ AuxNcosSetup \/ AuxTdcsSetup
         \/ AuxDpllSetup \/ CalibSystemClock \/ CalibAplls \/ IoUpdate \/ RegisterPll
         \/ OutputsSetup \/ AuxNcosPostSetup \/ PostRead \/ PostWrite
  PROVE  StageTypes
<1>1. CASE Fail
  BY <1>1, FailTypes
<1>2. CASE ~Fail
  <2> USE DEF Quiet, stState, chipVars, hwState
  <2>1. UNCHANGED <<active, nco_requested, parents>> /\ drv' \in DriverEnds
    <3>1. CASE ResetChip
      BY <3>1, GoOnEnds DEF ResetChip
    <3>2. CASE SysClkSetup
      BY <1>2, <3>2, GoOnEnds DEF SysClkSetup
    <3>3. CASE InputRefsSetup
      BY <1>2, <3>3, GoOnEnds DEF InputRefsSetup
    <3>4. CASE AuxNcosSetup \/ AuxTdcsSetup
      BY <3>4, GoOnEnds DEF AuxNcosSetup, AuxTdcsSetup, RegisterKind
    <3>5. CASE AuxDpllSetup
      BY <1>2, <3>5, GoOnEnds DEF AuxDpllSetup
    <3>6. CASE CalibSystemClock
      BY <1>2, <3>6, GoOnEnds DEF CalibSystemClock, ChipInv
    <3>7. CASE CalibAplls
      BY <3>7, GoOnEnds DEF CalibAplls
    <3>8. CASE IoUpdate
      BY <3>8, GoOnEnds DEF IoUpdate
    <3>9. CASE RegisterPll
      BY <3>9, GoOnEnds DEF RegisterPll
    <3>10. CASE OutputsSetup
      BY <3>10, GoOnEnds DEF OutputsSetup
    <3>11. CASE AuxNcosPostSetup
      BY <3>11, GoOnEnds DEF AuxNcosPostSetup
    <3>12. CASE PostRead
      BY <3>12 DEF PostRead, Ends, ChipInv, DriverEnds
    <3>13. CASE PostWrite
      BY <1>2, <3>13, GoOnEnds DEF PostWrite
    <3> QED
      BY <3>1, <3>2, <3>3, <3>4, <3>5, <3>6, <3>7, <3>8, <3>9, <3>10, <3>11, <3>12, <3>13
  <2>2. RegTypes(buf) /\ RegTypes(live)
    BY DEF ChipInv
  <2>3. RegTypes(buf') /\ RegTypes(live')
    <3> USE DEF Commit, Stage
    <3>1. CASE ResetChip
      BY <3>1, ResetTypes DEF ResetChip, ChipInv
    <3>2. CASE SysClkSetup
      BY <1>2, <2>2, <3>2, WrittenTypes DEF SysClkSetup
    <3>3. CASE InputRefsSetup
      BY <1>2, <2>2, <3>3, WrittenTypes DEF InputRefsSetup
    <3>4. CASE AuxNcosSetup \/ AuxTdcsSetup
      BY <2>2, <3>4, WrittenTypes DEF AuxNcosSetup, AuxTdcsSetup, RegisterKind
    <3>5. CASE AuxDpllSetup
      BY <1>2, <2>2, <3>5, WrittenTypes DEF AuxDpllSetup
    <3>6. CASE CalibSystemClock
      BY <1>2, <2>2, <3>6 DEF CalibSystemClock
    <3>7. CASE CalibAplls
      BY <2>2, <3>7, WrittenTypes DEF CalibAplls
    <3>8. CASE IoUpdate
      BY <2>2, <3>8 DEF IoUpdate
    <3>9. CASE RegisterPll
      BY <2>2, <3>9 DEF RegisterPll
    <3>10. CASE OutputsSetup
      BY <2>2, <3>10, WrittenTypes DEF OutputsSetup
    <3>11. CASE AuxNcosPostSetup
      <4> DEFINE freqs == [n \in NCOs |->
                             IF nco_requested[n] = 0 THEN buf.nco[n] ELSE nco_requested[n]]
                 offs == [n \in NCOs |-> IF nco_requested[n] = 0 THEN buf.off[n] ELSE 0]
                 regs == [buf EXCEPT !.nco = freqs, !.off = offs]
      <4>1. (buf' = buf /\ live' = live) \/ (buf' = regs /\ live' = regs)
        BY <2>2, <3>11 DEF AuxNcosPostSetup, RegTypes, RegShape
      <4>2. /\ RegShape(regs) /\ regs.mode = buf.mode
            /\ regs.nco = freqs /\ regs.off = offs
        BY <2>2 DEF RegTypes, RegShape
      <4>3. freqs \in [NCOs -> 0 .. MaxFreq] /\ offs \in [NCOs -> 0 .. MaxFreq]
        <5>1. /\ buf.nco \in [NCOs -> 0 .. MaxFreq] /\ buf.off \in [NCOs -> 0 .. MaxFreq]
              /\ nco_requested \in [NCOs -> 0 .. MaxFreq] /\ 0 \in 0 .. MaxFreq
          BY <2>2, TreeFreqs DEF RegTypes, ChipInv
        <5> QED
          BY <5>1
      <4> HIDE DEF regs, freqs, offs
      <4> QED
        BY <2>2, <4>1, <4>2, <4>3 DEF RegTypes
    <3>12. CASE PostRead
      BY <2>2, <3>12 DEF PostRead
    <3>13. CASE PostWrite
      <4>1. (buf' = buf /\ live' = live) \/ (buf' = PostRegs(Arg) /\ live' = PostRegs(Arg))
        BY <1>2, <3>13 DEF PostWrite, WriteProfiles
      <4>2. RegTypes(PostRegs(Arg))
        BY <2>2, ProfTypes DEF PostRegs
      <4> QED
        BY <2>2, <4>1, <4>2
    <3> QED
      BY <3>1, <3>2, <3>3, <3>4, <3>5, <3>6, <3>7, <3>8, <3>9, <3>10, <3>11, <3>12, <3>13
  <2> QED
    BY <2>1, <2>3 DEF ChipInv, StageTypes
<1> QED
  BY <1>1, <1>2

LEMMA ParentsTypes ==
  ASSUME ParentTypes(parents), NEW p, NEW profs, parents' = [parents EXCEPT ![p] = Parents(profs)]
  PROVE  ParentTypes(parents')
  BY ParentsLen DEF ParentTypes

LEMMA ProfileStageTypes ==
  ASSUME ChipInv, PllProfiles \/ PllProfilesRead
  PROVE  StageTypes
<1>1. CASE Fail
  BY <1>1, FailTypes
<1>2. CASE ~Fail
  <2> USE DEF Quiet, stState, chipVars, hwState
  <2>1. RegTypes(buf) /\ RegTypes(live) /\ ParentTypes(parents)
    BY DEF ChipInv
  <2>2. CASE PllProfiles
    <3> DEFINE p     == Arg
               plans == Numbered(profiles[p])
               regs  == [buf EXCEPT !.prof[p] = [j \in Profiles |->
                            IF plans[j].en THEN ProfileRegs(buf, p, j, plans[j]).prof[p][j]
                                           ELSE @[j]]]
    <3>1. GoOn /\ UNCHANGED <<active, nco_requested>>
      BY <1>2, <2>2 DEF PllProfiles
    <3>2. parents' = parents \/ parents' = [parents EXCEPT ![p] = Parents(plans)]
      BY <1>2, <2>2 DEF PllProfiles
    <3>3. /\ buf' = buf \/ buf' = regs \/ buf' = Written(regs, "fast_acq")
          /\ live' = live \/ live' = regs
      BY <1>2, <2>2 DEF PllProfiles
    <3>4. RegTypes(regs)
      BY <2>1, ProfTypes
    <3> HIDE DEF p, plans, regs
    <3>5. RegTypes(buf') /\ RegTypes(live')
      BY <2>1, <3>3, <3>4, WrittenTypes
    <3>6. ParentTypes(parents')
      BY <2>1, <3>2, ParentsTypes
    <3> QED
      BY <3>1, <3>5, <3>6, GoOnEnds DEF ChipInv, StageTypes
  <2>3. CASE PllProfilesRead
    <3> DEFINE p     == Arg
               plans == Numbered([j \in Profiles |-> ReadProfile(p, j)])
    <3>1. GoOn /\ UNCHANGED <<active, nco_requested>> /\ buf' = buf /\ live' = buf
      BY <1>2, <2>3 DEF PllProfilesRead, Commit
    <3>2. parents' = [parents EXCEPT ![p] = Parents(plans)]
      BY <1>2, <2>3 DEF PllProfilesRead
    <3> HIDE DEF p, plans
    <3>3. ParentTypes(parents')
      BY <2>1, <3>2, ParentsTypes
    <3> QED
      BY <2>1, <3>1, <3>3, GoOnEnds DEF ChipInv, StageTypes
  <2> QED
    BY <2>2, <2>3
<1> QED
  BY <1>1, <1>2

LEMMA ChipInvProbe ==
  ASSUME ChipInv, PtpInv, ProbeThread, dt' = dt
  PROVE  ChipInv' /\ PtpInv'
<1>1. StageTypes
  <2>1. CASE AccessError
    BY <2>1, FailTypes DEF AccessError
  <2> QED
    BY <2>1, LookTypes, WriteTypes, ProfileStageTypes DEF ProbeThread, ProbeStep
<1>2. ChipInv'
  BY <1>1 DEF StageTypes, ChipInv, RegTypes, RegShape, ParentTypes
<1>3. PtpInv'
  BY DEF ProbeThread, phcVars, PtpInv
<1> QED
  BY <1>2, <1>3

\* The PTP driver: the profile it assigns is one, and the frequencies it
\* reads and writes are in range.
LEMMA ChipInvPtp ==
  ASSUME ChipInv, PtpInv, dt' = dt, drv' = drv, UNCHANGED nco_requested,
         \/ PtpStart \/ PtpGetClks \/ PtpSetParent \/ PtpPoll \/ PtpGetTuning \/ PtpRegister
         \/ AdjFineUpdate \/ PtpRemove \/ \E d \in {0, 1} : AdjFine(d)
  PROVE  ChipInv' /\ PtpInv'
<1> USE DEF PtpAt, chipVars, hwState, stState
<1>1. RegTypes(buf) /\ RegTypes(live)
  BY DEF ChipInv
<1>2. 0 \in 0 .. MaxPolls - 1
  BY ChipConstants
<1>3. UNCHANGED <<active, parents>> /\ RegTypes(buf') /\ RegTypes(live') /\ PtpInv'
  <2>1. CASE PtpStart
    BY <1>1, <1>2, <2>1 DEF PtpStart, PtpGoes, PtpInv
  <2>2. CASE PtpGetClks
    BY <1>1, <1>2, <2>2 DEF PtpGetClks, PtpGoes, ClkProbeFails, PtpInv
  <2>3. CASE PtpSetParent
    <3>1. CASE UNCHANGED <<active, parents, buf, live>> /\ ppc' \in {"tune", "register"}
               /\ polls' = 0 /\ hw_freq' = hw_freq
      BY <1>1, <1>2, <3>1 DEF PtpInv
    <3>2. CASE /\ buf' = [buf EXCEPT !.mode[0] = ProfileOf(SteerPll, Tuning)]
               /\ UNCHANGED <<active, parents, live>> /\ ppc' = "poll"
               /\ polls' = 0 /\ hw_freq' = hw_freq
      <4>1. ProfileOf(SteerPll, Tuning) \in Profiles \cup {NoProfile}
        BY ProfileForTypes DEF ProfileOf
      <4>2. RegTypes(buf')
        <5> DEFINE x == ProfileOf(SteerPll, Tuning)
        <5>1. /\ RegShape(buf') /\ buf'.nco = buf.nco /\ buf'.off = buf.off
              /\ buf'.mode = [buf.mode EXCEPT ![0] = x]
          BY <1>1, <3>2 DEF RegTypes, RegShape
        <5> HIDE DEF x
        <5>2. [buf.mode EXCEPT ![0] = x] \in [PLLs -> Profiles \cup {NoProfile}]
          BY <1>1, <4>1 DEF RegTypes, x
        <5> QED
          BY <1>1, <5>1, <5>2 DEF RegTypes
      <4> QED
        BY <1>1, <1>2, <3>2, <4>2 DEF PtpInv
    <3> QED
      BY <2>3, <3>1, <3>2 DEF PtpSetParent, PtpGoes, ClkProbeFails
  <2>4. CASE PtpPoll
    <3>1. UNCHANGED <<active, parents, hw_freq>> /\ RegTypes(buf') /\ RegTypes(live')
      BY <1>1, <2>4 DEF PtpPoll, PtpGoes, ClkProbeFails, Commit
    <3>2. /\ ppc' \in {"tune", "poll", "register"}
          /\ polls' = 0 \/ (polls + 1 < MaxPolls /\ polls' = polls + 1)
      BY <2>4 DEF PtpPoll, PtpGoes, ClkProbeFails, MorePolls
    <3>3. polls' \in 0 .. MaxPolls - 1
      BY <1>2, <3>2, ChipConstants DEF PtpInv
    <3> QED
      BY <3>1, <3>2, <3>3 DEF PtpInv
  <2>5. CASE PtpGetTuning
    <3>1. UNCHANGED <<active, parents>> /\ RegTypes(buf') /\ RegTypes(live')
      BY <1>1, <2>5 DEF PtpGetTuning, Gone, Commit
    <3>2. /\ ppc' \in {"gone", "oops", "register"} /\ polls' \in {0, polls}
          /\ hw_freq' = hw_freq \/ hw_freq' = NcoFreq(buf, TuningNco)
      BY <2>5 DEF PtpGetTuning, PtpGoes, ClkProbeFails, Gone
    <3>3. NcoFreq(buf, TuningNco) \in 0 .. 2 * MaxFreq
      <4>1. buf.nco[TuningNco] \in 0 .. MaxFreq /\ buf.off[TuningNco] \in 0 .. MaxFreq
        BY <1>1, ChipConstants DEF RegTypes, NCOs
      <4> QED
        BY <4>1, TreeFreqs DEF NcoFreq
    <3> QED
      BY <1>2, <3>1, <3>2, <3>3 DEF PtpInv
  <2>6. CASE PtpRegister
    BY <1>1, <1>2, <2>6 DEF PtpRegister, PtpGoes, PtpInv
  <2>7. CASE AdjFineUpdate
    BY <1>1, <1>2, <2>7 DEF AdjFineUpdate, TuningUpdate, Commit, PtpGoes, Gone, PtpInv
  <2>8. CASE PtpRemove
    BY <1>1, <1>2, <2>8 DEF PtpRemove, PtpGoes, PtpInv
  <2>9. CASE \E d \in {0, 1} : AdjFine(d)
    <3>1. PICK d \in {0, 1} : AdjFine(d)
      BY <2>9
    <3>2. CASE Gone
      BY <1>1, <1>2, <3>2 DEF Gone, PtpGoes, PtpInv
    <3>3. CASE /\ hw_freq + d <= MaxFreq
               /\ buf' = [buf EXCEPT !.nco[TuningNco] = hw_freq + d] /\ ppc' = "adj"
               /\ UNCHANGED <<active, parents, live, polls, hw_freq>>
      <4> DEFINE x == hw_freq + d
      <4>1. x \in 0 .. MaxFreq /\ buf' = [buf EXCEPT !.nco[TuningNco] = x]
        BY <3>3, TreeFreqs DEF PtpInv
      <4> HIDE DEF x
      <4>2. /\ RegShape(buf') /\ buf'.mode = buf.mode /\ buf'.off = buf.off
            /\ buf'.nco = [buf.nco EXCEPT ![TuningNco] = x]
        BY <1>1, <4>1 DEF RegTypes, RegShape
      <4>3. [buf.nco EXCEPT ![TuningNco] = x] \in [NCOs -> 0 .. MaxFreq]
        BY <1>1, <4>1 DEF RegTypes
      <4>4. RegTypes(buf')
        BY <1>1, <4>2, <4>3 DEF RegTypes
      <4> QED
        BY <1>1, <3>3, <4>4 DEF PtpInv
    <3>4. CASE UNCHANGED <<active, parents, buf, live, ppc, polls, hw_freq>>
      BY <1>1, <3>4 DEF PtpInv
    <3> QED
      BY <3>1, <3>2, <3>3, <3>4 DEF AdjFine
  <2> QED
    BY <2>1, <2>2, <2>3, <2>4, <2>5, <2>6, <2>7, <2>8, <2>9
<1>4. ChipInv'
  BY <1>3 DEF ChipInv, RegTypes, RegShape, ParentTypes
<1> QED
  BY <1>3, <1>4

LEMMA ChipInvNext ==
  ASSUME PublishInv, EffectInv, ChipInv, PtpInv, [ClockNext]_clockVars
  PROVE  ChipInv' /\ PtpInv'
<1>1. CASE ProbeThread
  <2>1. dt' = dt
    BY <1>1, ProbeEffect DEF ProbeThread
  <2> QED
    BY <1>1, <2>1, ChipInvProbe
<1>2. CASE ~ProbeThread
  <2>1. dt' = dt /\ drv' = drv /\ UNCHANGED nco_requested
    BY <1>2, OthersKeep DEF ClockNext, probeVars
  <2>2. CASE PtpThread
    BY <2>1, <2>2, ChipInvPtp DEF PtpThread
  <2>3. CASE PtpRemove \/ \E d \in {0, 1} : AdjFine(d)
    BY <2>1, <2>3, ChipInvPtp
  <2>4. CASE (HwSource \/ \E p \in PLLs : HwSelect(p) \/ HwHold(p))
             /\ UNCHANGED <<probeVars, phcVars>>
    <3>1. UNCHANGED <<buf, live, parents>>
      BY <2>4 DEF HwSource, HwSelect, HwHold, stState
    <3>2. active' \in [PLLs -> Profiles]
      BY <2>4 DEF HwSource, HwSelect, HwHold, Selectable, ChipInv
    <3> QED
      BY <2>1, <2>4, <3>1, <3>2 DEF ChipInv, PtpInv, phcVars, RegTypes, RegShape, ParentTypes
  <2>5. CASE UNCHANGED clockVars
    BY <2>1, <2>5 DEF ChipInv, PtpInv, phcVars, clockVars, chipVars, hwState, stState,
                      RegTypes, RegShape, ParentTypes
  <2> QED
    BY <1>2, <2>2, <2>3, <2>4, <2>5 DEF ClockNext
<1> QED
  BY <1>1, <1>2

\* The registers, the profile that is active and the one that is assigned, the
\* parents of a PLL, the count of looks at the active profile and the
\* frequency of the NCO stay in range in every interleaving of the probes.
THEOREM PhcTypes == ClockSpec => []ChipTypeOK
<1> DEFINE Inv == PublishInv /\ EffectInv /\ ChipInv /\ PtpInv
<1>1. ClockInit => Inv
  BY PublishInvInit, EffectInvInit, ChipInvInit
<1>2. Inv /\ [ClockNext]_clockVars => Inv'
  BY PublishInvNext, EffectInvNext, ChipInvNext
<1>3. Inv => ChipTypeOK
  BY ChipConstants DEF PublishInv, ChipInv, PtpInv, ChipTypeOK, RegTypes, ParentTypes, DriverEnds
<1> QED
  BY <1>1, <1>2, <1>3, PTL DEF ClockSpec
=============================================================================
