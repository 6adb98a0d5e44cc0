-------------------------- MODULE MspTxRefinement --------------------------
(***************************************************************************)
(* The transmit path implements TxFifo.                                    *)
(***************************************************************************)
EXTENDS MspTx

\* The frames in flight, oldest first.
SlotAt(from, k) == IF from + k < NUM_TDS THEN from + k ELSE from + k - NUM_TDS
InFlight == [k \in 1 .. tx_count |-> tx_skb[SlotAt(FirstInFlight, k - 1)]]

\* Handed to the interface: those with a status, then those without one yet.
SentFrames    == SubSeq(InFlight, 1, Cardinality(Reported)) \o mspq
WaitingFrames == SubSeq(InFlight, Len(SentFrames) + 1, tx_count)

Fifo == INSTANCE TxFifo WITH Frame <- Skb \ {NoSkb}, Capacity <- NUM_TDS,
                             waiting <- WaitingFrames, sent <- SentFrames

\* Every step of the driver and of the DMA engines is a step of the FIFO or
\* invisible to it: frames leave and are freed once each and in order.
ImplementsFifo == Fifo!FifoSpec

\* ... and neither the transmission nor the release of a frame is put off
\* for ever.
ImplementsFairFifo == Fifo!FifoFairSpec
=============================================================================
