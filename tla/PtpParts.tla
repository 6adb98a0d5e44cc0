------------------------------ MODULE PtpParts ------------------------------
(***************************************************************************)
(* The time of day and the arithmetic of the PTP clock and its clock chip, *)
(* timestamps and rates, side by side.  They share definitions but no      *)
(* state, so a behaviour is one of a single part and the others rest.      *)
(***************************************************************************)
EXTENDS PtpTod, PtpTstampSteps, Ad9545Rates

VARIABLE part

partVars == <<part, todVars, stepVars, rateVars>>

PartsInit ==
    /\ part \in {"tod", "tstamp", "rates"}
    /\ TodInit /\ StepInit /\ RateInit
    /\ part # "tod" => trigger_mode = "GC"
    /\ part # "rates" => kind = "out" /\ half = 0

InTod(A) == part = "tod" /\ A /\ UNCHANGED <<part, stepVars, rateVars>>

PartsNext ==
    \/ InTod(TodNext)
    \/ part = "tstamp" /\ StepNext /\ UNCHANGED <<part, todVars, rateVars>>
    \/ part = "rates" /\ RateNext /\ UNCHANGED <<part, todVars, stepVars>>

\* The fairness of TodFairSpec
PartsSpec ==
    /\ PartsInit /\ [][PartsNext]_partVars
    /\ WF_partVars(InTod(Tick)) /\ WF_partVars(InTod(Step))
=============================================================================
