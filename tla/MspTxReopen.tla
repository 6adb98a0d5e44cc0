---------------------------- MODULE MspTxReopen ----------------------------
(***************************************************************************)
(* The transmit path when the device is closed and opened again.           *)
(* MspLifecycle shows that no poll runs while the rings are freed, so the  *)
(* two calls are one step here; what matters is the state they leave.      *)
(***************************************************************************)
EXTENDS MspTx

VARIABLE written     \* history: slots whose status the DMA has completed since open

reopenVars == <<vars, written>>

\* adi_msp_close waits for the sender and the poll and disables the DMAs;
\* adi_msp_open initialises what Init does, but for the status work units,
\* which only adi_msp_probe clears.  A disabled DMA is taken to forget its
\* interrupt, the kinder of the two things the hardware may do.
Reopen ==
    /\ sndPc = "idle" /\ plPc = "idle"
    /\ tx_skb' = [i \in Slots |-> NoSkb]
    /\ td_ring' = [i \in Slots |-> [skb |-> NoSkb, nxt |-> 0, flow |-> "stop"]]
    /\ sd_flow' = [i \in Slots |-> IF i = NUM_TDS - 1 THEN "stop" ELSE "dscl"]
    /\ next_tag' = [c \in FrameClass |-> MinTag(c)]
    /\ last_tag' = [c \in FrameClass |-> MaxTag(c)]
    /\ available' = [c \in FrameClass |-> TagCount(c)]
    /\ tx_next_done' = 0
    /\ tx_chain_head' = 0 /\ tx_chain_tail' = 0 /\ tx_chain_filled' = FALSE
    /\ tx_count' = 0 /\ queue_stopped' = FALSE
    /\ txdma' = TxDmaHalted /\ stdma' = StDmaAt(0) /\ mspq' = << >>
    /\ irqdone' = FALSE
    /\ written' = {}
    /\ UNCHANGED <<status_wu, tx_reset, sndVars, plVars, dscptr_prv>>

ReopenInit == Init /\ written = {}

\* StFirstBeat starts the work unit of a slot and StDone completes it;
\* RecycleStop clears it.
TrackWritten ==
    written' = {i \in Slots : /\ status_wu'[i].stamped
                              /\ i \in written \/ ~status_wu[i].stamped}

ReopenNext == Reopen \/ (Next /\ TrackWritten)

ReopenSpec == ReopenInit /\ [][ReopenNext]_reopenVars

\* "If the first byte is not zero, this work unit has been started", and the
\* test of ADDR_CUR and DSCPTR_PRV refuses one that "is not done yet": when the
\* poll has freed the frame of a slot and goes on to reset_desc_and_wu, the
\* status DMA has completed the work unit of the slot since the device was
\* opened.
StatusOfThisSession == plPc = "recycle" => tx_next_done \in written
=============================================================================
