------------------------------- MODULE TxFifo -------------------------------
(***************************************************************************)
(* What the transmit path promises the network stack: every frame it       *)
(* accepts is handed to the interface exactly once, in the order of        *)
(* acceptance, and is freed only after that, in the same order; no more    *)
(* than Capacity frames are in flight, and no two carry the same tag.      *)
(***************************************************************************)
EXTENDS Naturals, Sequences

CONSTANTS Frame,      \* the frames, by class and tag
          Capacity    \* how many may be in flight

VARIABLES waiting,    \* accepted, not yet handed to the interface
          sent        \* handed to the interface, not yet freed

fifoVars == <<waiting, sent>>

InFlightFrames == {waiting[k] : k \in DOMAIN waiting} \cup {sent[k] : k \in DOMAIN sent}

FifoInit == waiting = << >> /\ sent = << >>

Accept(f) ==
    /\ Len(waiting) + Len(sent) < Capacity
    /\ f \notin InFlightFrames
    /\ waiting' = Append(waiting, f)
    /\ UNCHANGED sent

Transmit ==
    /\ waiting # << >>
    /\ sent' = Append(sent, Head(waiting))
    /\ waiting' = Tail(waiting)

Complete ==
    /\ sent # << >>
    /\ sent' = Tail(sent)
    /\ UNCHANGED waiting

FifoNext == (\E f \in Frame : Accept(f)) \/ Transmit \/ Complete

FifoSpec     == FifoInit /\ [][FifoNext]_fifoVars
FifoFairSpec == FifoSpec /\ WF_fifoVars(Transmit) /\ WF_fifoVars(Complete)
=============================================================================
