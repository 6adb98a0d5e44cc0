------------------------------- MODULE Ad9545 -------------------------------
(***************************************************************************)
(* The AD9545 clock chip and the state its driver keeps (clk-ad9545.c):    *)
(* buffered and live registers, the DPLLs' choice of a translation         *)
(* profile, the clocks registered with the clock framework, and the        *)
(* operations on PLLs and profiles.                                        *)
(*                                                                         *)
(* A clock, and the source of a profile, is a pair of a kind and an index. *)
(* Registers whose value no property tells apart are groups that have or   *)
(* have not been written (conf).                                           *)
(***************************************************************************)
EXTENDS Integers, Sequences, FiniteSets

CONSTANTS
    MAX_REFS,            \* references (4)
    MAX_DPLL_PROFILES,   \* translation profiles of a DPLL (6)
    DeviceTrees,         \* device trees and EEPROM contents considered
    AccessMayFail,       \* whether register accesses and allocations may fail
    SysClk,              \* the output that is sys_clk of the PTP driver
    TuningNco,           \* the NCO that is its tuning_clk
    MaxPolls             \* looks at the active profile (100)

ASSUME ChipConstants ==
    /\ MAX_REFS \in Nat \ {0} /\ MAX_DPLL_PROFILES \in Nat \ {0}
    /\ AccessMayFail \in BOOLEAN
    /\ SysClk \in 0 .. 9 /\ TuningNco \in 0 .. 1
    /\ MaxPolls \in Nat \ {0}

Refs     == 0 .. MAX_REFS - 1
PLLs     == 0 .. 1
NCOs     == 0 .. 1
TDCs     == 0 .. 1
Outputs  == 0 .. 9
Profiles == 0 .. MAX_DPLL_PROFILES - 1

\* What *active_profile is when there is none.
NoProfile == MAX_DPLL_PROFILES

NoClk == <<"none", 0>>

\* Outputs after Q0CC belong to PLL1.
OutputPll(o) == IF o > 5 THEN 1 ELSE 0

VARIABLES
    dt,             \* the device tree; with auto-init also what the EEPROM set
    buf, live,      \* buffered registers, and the ones in effect
    active, idle,   \* PLLx_OPERATION: active profile; freerun or holdover
    valid,          \* sources that are valid
    used,           \* ref_used, pll_used, nco_used, ...: a set of clocks
    profiles,       \* pll->profiles
    parents,        \* pll->parents
    nco_requested,  \* rate_requested_hz of the NCOs, 0 if none
    tables,         \* the rows of clks[] that are allocated
    registered,     \* clocks known to the clock framework
    cached,         \* the framework's idea of the parent of each PLL
    published       \* the clock provider is there

hwState    == <<active, idle, valid>>
stState    == <<used, profiles, parents, nco_requested, tables>>
clkState   == <<registered, cached, published>>
chipVars   == <<dt, buf, live, hwState, stState, clkState>>

\* A profile that is not set up.
NoPlan == [en |-> FALSE, source |-> <<"ref", 0>>, parent_index |-> 0]

ResetRegs ==
    [prof |-> [p \in PLLs |-> [j \in Profiles |-> [en |-> FALSE, source |-> <<"ref", 0>>]]],
     mode |-> [p \in PLLs |-> NoProfile],
     nco  |-> [n \in NCOs |-> 0],      \* centre frequency, in the unit 2^-40 Hz
     off  |-> [n \in NCOs |-> 0],      \* offset frequency, in the same unit
     conf |-> {}]

\* What the EEPROM loads into a chip that initialises itself.
EepromRegs ==
    [ResetRegs EXCEPT
        !.prof = [p \in PLLs |-> [j \in Profiles |->
                     [en     |-> dt.prof[p][j] # "off",
                      source |-> IF dt.prof[p][j] = "off" THEN <<"ref", 0>>
                                                          ELSE dt.source[p][j]]]],
        !.nco  = [n \in NCOs |-> 1],
        !.off  = dt.offset]

\* ad9545_get_nco_freq: what the NCO runs at.
NcoFreq(regs, n) == regs.nco[n] + regs.off[n]

Written(regs, group) == [regs EXCEPT !.conf = @ \cup {group}]

\* Write buffered registers only.
Stage(regs) == buf' = regs /\ UNCHANGED live

\* Write buffered registers and end with ad9545_io_update, which makes all
\* that has been written take effect, whoever wrote it.
Commit(regs) == buf' = regs /\ live' = regs

-----------------------------------------------------------------------------
(***************************************************************************)
(* The chip chooses among the enabled profiles with a valid source; an     *)
(* assigned profile (MANUAL_AUTO) goes first.                              *)
(***************************************************************************)

Selectable(p) ==
    LET good == {j \in Profiles : live.prof[p][j].en /\ live.prof[p][j].source \in valid}
    IN  IF live.mode[p] \in good THEN {live.mode[p]} ELSE good

HwSelect(p) ==
    /\ \E j \in Selectable(p) :
          /\ idle[p] \/ active[p] # j
          /\ active' = [active EXCEPT ![p] = j]
    /\ idle' = [idle EXCEPT ![p] = FALSE]
    /\ UNCHANGED <<dt, buf, live, valid, stState, clkState>>

\* Holdover, while ACTIVE_PROFILE keeps its value.
HwHold(p) ==
    /\ ~idle[p]
    /\ idle' = [idle EXCEPT ![p] = TRUE]
    /\ UNCHANGED <<dt, buf, live, active, valid, stState, clkState>>

\* The sources a device tree or EEPROM names come and go.
Sources == {dt.source[p][j] : p \in PLLs, j \in Profiles}

HwSource ==
    /\ \E s \in Sources : valid' = IF s \in valid THEN valid \ {s} ELSE valid \cup {s}
    /\ UNCHANGED <<dt, buf, live, active, idle, stState, clkState>>

-----------------------------------------------------------------------------
(***************************************************************************)
(* Operations on a PLL.                                                    *)
(***************************************************************************)

\* ad9545_pll_get_operation_status without errors of the bus: the active
\* profile if the driver knows it as enabled and its source is valid.
ActiveProfile(p) ==
    IF ~idle[p] /\ profiles[p][active[p]].en /\ profiles[p][active[p]].source \in valid
    THEN active[p] ELSE NoProfile

\* ad9545_pll_get_parent
GetParent(p) ==
    IF ActiveProfile(p) = NoProfile THEN Len(parents[p])
    ELSE profiles[p][ActiveProfile(p)].parent_index

\* The parent the framework records when a PLL is registered: with a single
\* one it does not ask.
InitialParent(p) ==
    LET i == IF Len(parents[p]) > 1 THEN GetParent(p) ELSE 0
    IN  IF i < Len(parents[p]) /\ parents[p][i + 1] \in registered
        THEN parents[p][i + 1] ELSE NoClk

\* Profiles numbered by themselves.
IndexIsNumber(profs, j) == j

\* The parent index of profile j: its place among the enabled ones.
IndexAmongEnabled(profs, j) == Cardinality({i \in 0 .. j - 1 : profs[i].en})

\* The loops over the profiles of ad9545_plls_setup and ad9545_plls_read_setup
Numbered(profs) ==
    [j \in Profiles |-> IF profs[j].en
                        THEN [profs[j] EXCEPT !.parent_index = IndexAmongEnabled(profs, j)]
                        ELSE profs[j]]

Parents(profs) ==
    LET count == Cardinality({j \in Profiles : profs[j].en})
    IN  [k \in 1 .. count |->
            profs[CHOOSE j \in Profiles :
                     profs[j].en /\ Cardinality({i \in 0 .. j - 1 : profs[i].en}) = k - 1].source]

\* The profile ad9545_pll_set_parent looks up for a parent.
ProfileFor(p, index) ==
    LET found == {j \in Profiles : profiles[p][j].en /\ profiles[p][j].parent_index = index}
    IN  IF found = {} THEN NoProfile
        ELSE CHOOSE j \in found : \A i \in found : j <= i

\* ad9545_pll_write_profile, before its io_update
ProfileRegs(regs, p, j, plan) ==
    [regs EXCEPT !.prof[p][j] = [en |-> plan.en, source |-> plan.source]]

\* ad9545_pll_read_profile
ReadProfile(p, j) == [NoPlan EXCEPT !.en = live.prof[p][j].en, !.source = live.prof[p][j].source]
=============================================================================
