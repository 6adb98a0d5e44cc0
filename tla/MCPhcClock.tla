----------------------------- MODULE MCPhcClock -----------------------------
(***************************************************************************)
(* Device trees and EEPROM contents for model checking, with two           *)
(* references and three profiles a PLL.                                    *)
(***************************************************************************)
EXTENDS PhcClock

Ref0 == <<"ref", 0>>
Nco0 == <<"nco", 0>>

AllOf(set, value) == [i \in set |-> value]

\* A full tree: both references, PLL0 on Ref0 and NCO0 but not with its first
\* profile, and PLL1 without a profile.
FullTree ==
    [auto |-> FALSE, sys |-> "ok", ref |-> AllOf(Refs, "ok"),
     out |-> AllOf(Outputs, "none"), nco |-> AllOf(NCOs, "ok"), tdc |-> AllOf(TDCs, "ok"),
     aux |-> AllOf({0}, "ok"), pll |-> AllOf(PLLs, "ok"),
     prof |-> (0 :> (0 :> "off" @@ 1 :> "ok" @@ 2 :> "ok")) @@
              (1 :> AllOf(Profiles, "off")),
     source |-> (0 :> (0 :> Ref0 @@ 1 :> Ref0 @@ 2 :> Nco0)) @@
                (1 :> AllOf(Profiles, Ref0)),
     fast |-> "ok", hitless |-> FALSE, lists |-> "ok",
     freqs |-> AllOf(NCOs, 0), offset |-> AllOf(NCOs, 0), adds |-> <<>>]

Setup == [FullTree EXCEPT !.out[SysClk] = "ok"]

\* The board: the EEPROM sets the chip up and nothing is added.
Board == [Setup EXCEPT !.auto = TRUE, !.ref[1] = "none", !.out[0] = "ok"]

\* An EEPROM that sets an offset frequency of the tuning NCO.
Shifted(tree) == [tree EXCEPT !.offset[0] = 1]

\* NCO profiles are added to what the EEPROM has set up.
Added(tree) == [tree EXCEPT !.freqs[0] = 2, !.adds = <<<<0, 0>>, <<1, 0>>>>]

\* Faults of a tree that is set up.
SetupFaults ==
    {[Setup EXCEPT !.sys = "missing"], [Setup EXCEPT !.sys = "no_divider"],
     [Setup EXCEPT !.ref[0] = "bad"], [Setup EXCEPT !.ref[1] = "none"],
     [Setup EXCEPT !.ref[1] = "no_rate"], [Setup EXCEPT !.out[0] = "bad"],
     [Setup EXCEPT !.nco[1] = "bad"], [Setup EXCEPT !.tdc[1] = "bad"],
     [Setup EXCEPT !.aux[0] = "bad"], [Setup EXCEPT !.aux[0] = "no_source"],
     [Setup EXCEPT !.pll[1] = "bad"], [Setup EXCEPT !.pll[0] = "none"],
     [Setup EXCEPT !.prof[0][2] = "bad"], [Setup EXCEPT !.prof[0][1] = "bad_fb_path"],
     [Setup EXCEPT !.fast = "wrong"], [Setup EXCEPT !.nco[0] = "none"]}

\* Faults of an EEPROM, which here leaves the output off, and of the
\* properties of the post setup.
ReadFaults ==
    LET Off == [Board EXCEPT !.out = AllOf(Outputs, "none")]
    IN  {[Off EXCEPT !.ref[0] = "no_rate"], [Off EXCEPT !.aux[0] = "no_source"],
         [Off EXCEPT !.prof[1][1] = "ok", !.source[1][1] = <<"feedback", 0>>],
         [Off EXCEPT !.lists = "bad"], [Off EXCEPT !.adds = <<<<0, 0>>, <<0, 1>>>>],
         [Added(Off) EXCEPT !.freqs[0] = 0], [Off EXCEPT !.hitless = TRUE]}

\* The system clock comes from PLL1, which has the profiles of PLL0.
MCOnPll1 == {[Setup EXCEPT !.prof[1] = Setup.prof[0], !.source[1] = Setup.source[0]]}

MCDeviceTrees ==
    {Setup, Added([Setup EXCEPT !.prof[1][1] = "ok"]), Board, Shifted(Board),
     Added(Shifted(Board))}
    \cup SetupFaults \cup ReadFaults
=============================================================================
