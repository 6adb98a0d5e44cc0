------------------------------- MODULE RxFifo -------------------------------
(***************************************************************************)
(* What the receive path promises the network stack: every frame that the  *)
(* interface has received without error is passed up exactly once and in   *)
(* the order of reception, and nothing else is passed up.                  *)
(***************************************************************************)
EXTENDS Naturals, Sequences

CONSTANT Frame

VARIABLES pending,    \* received, not yet passed up
          last        \* the frame passed up last

rxFifoVars == <<pending, last>>

RxFifoInit == pending = << >> /\ last \in Frame

\* The length is compared first because pending may be costly to evaluate
\* where a refinement mapping computes it.
Receive ==
    /\ Len(pending') = Len(pending) + 1
    /\ \E f \in Frame : pending' = Append(pending, f)
    /\ UNCHANGED last

Deliver ==
    /\ pending # << >>
    /\ last' = Head(pending)
    /\ pending' = Tail(pending)

RxFifoNext == Receive \/ Deliver

RxFifoSpec     == RxFifoInit /\ [][RxFifoNext]_rxFifoVars
RxFifoFairSpec == RxFifoSpec /\ WF_rxFifoVars(Deliver)
=============================================================================
