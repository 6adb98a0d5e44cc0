-------------------------- MODULE MspRxRefinement --------------------------
(***************************************************************************)
(* The receive path implements RxFifo.                                     *)
(***************************************************************************)
EXTENDS MspRx, FiniteSets

\* The n-th smallest of a set of places, counted from 1: n - 1 are below it.
Rank(places, k) == Cardinality({j \in places : j < k})
Nth(places, n)  == CHOOSE k \in places : Rank(places, k) = n - 1

\* The k-th slot of the ring from a slot on, that slot being the first.
RxSlotFrom(slot, k) == LET i == slot + k - 1 IN IF i < NUM_RDS THEN i ELSE i - NUM_RDS

\* The place, in a ring that starts at a slot, of its youngest complete work
\* unit, or 0.
YoungestDone(wus, slot) ==
    CHOOSE k \in 0 .. NUM_RDS :
      /\ k = 0 \/ wus[RxSlotFrom(slot, k)].done
      /\ \A j \in k + 1 .. NUM_RDS : ~wus[RxSlotFrom(slot, j)].done

\* The work units in n slots from a slot on.
WusFrom(wus, slot, n) == [k \in 1 .. n |-> wus[RxSlotFrom(slot, k)]]

\* The work units received: those the driver holds for the frame it is putting
\* together, then the ring from the oldest slot to the youngest complete one.
Line == prev_rx_skb \o WusFrom(rx_wu, FirstUntaken, YoungestDone(rx_wu, FirstUntaken))

\* A good frame is a start-of-frame work unit followed by a good status.
Starts(line) == {k \in 1 .. Len(line) - 1 : line[k].kind = "sof" /\ line[k + 1].kind = "stat"}
FrameFrom(line, k) == [data |-> line[k].pay, stat |-> line[k + 1].pay]
FramesOf(line) ==
    LET starts == Starts(line)
    IN  [n \in 1 .. Cardinality(starts) |-> FrameFrom(line, Nth(starts, n))]

\* The frames of the line.  The line is a bound variable because TLC evaluates
\* a definition again at each of its uses in the next state.
PendingFrames == CHOOSE frames \in {FramesOf(line) : line \in {Line}} : TRUE

Fifo == INSTANCE RxFifo WITH Frame <- RxFrame, pending <- PendingFrames, last <- rx_last

\* The poll, the interrupt and the DMA never lose, repeat, reorder or mix up
\* frames, and never pass up a frame with an error.
ImplementsRxFifo == Fifo!RxFifoSpec

\* ... and every frame received is eventually passed up.
ImplementsFairRxFifo == Fifo!RxFifoFairSpec
=============================================================================
