------------------------------- MODULE MspTx -------------------------------
(***************************************************************************)
(* The transmit path of the MS-plane Ethernet driver (adi-msp.c).          *)
(*                                                                         *)
(* Two CPUs and two DMA engines run concurrently:                          *)
(*   - adi_msp_send_packet, called by the network stack, holding lp->lock; *)
(*   - adi_msp_status_poll, the NAPI poll of the Tx status ring, which     *)
(*     takes lp->lock only around the restart of the Tx DMA;               *)
(*   - the Tx DMA, which walks a chain of transmit descriptors and hands   *)
(*     their frames to the MSP Tx interface;                               *)
(*   - the status DMA, which writes one status work unit per frame.        *)
(* A step of the model is the code between two points at which one of the  *)
(* others can observe or change shared state.                              *)
(*                                                                         *)
(* An skb is identified by the frame class and the frame tag written into  *)
(* its work unit header; the rest of its contents is not modelled.         *)
(***************************************************************************)
EXTENDS Integers, Sequences, FiniteSets

CONSTANTS
    NUM_TDS,             \* ADI_MSP_NUM_TDS: Tx and status descriptors
    MAX_NONPTP_TAG,      \* ADI_MSP_MAX_NONPTP_FRAME_TAG
    MAX_PTP_TAG,         \* ADI_MSP_MAX_PTP_FRAME_TAG
    Budget,              \* NAPI budget of one adi_msp_status_poll call
    Classes,             \* the frame classes the stack sends
    MapMayFail,          \* may pskb_expand_head or dma_map_single fail?
    Faults               \* faults the hardware may report in a status

FrameClass == {"ptp", "nonptp"}    \* with SKBTX_HW_TSTAMP or without
FaultKinds == {"err", "type", "tag", "ptp"}

ASSUME TxConstants ==
    /\ NUM_TDS \in Nat /\ NUM_TDS > 1
    /\ MAX_NONPTP_TAG \in Nat /\ MAX_NONPTP_TAG > 0
    /\ MAX_PTP_TAG \in Nat /\ MAX_PTP_TAG > MAX_NONPTP_TAG
    /\ Budget \in Nat /\ Budget > 0
    /\ Classes \subseteq FrameClass
    /\ MapMayFail \in BOOLEAN
    /\ Faults \subseteq FaultKinds

ADI_MSP_STOP_QUEUE_TH == 1

Slots == 0 .. NUM_TDS - 1
SlotAfter(i)  == IF i = NUM_TDS - 1 THEN 0 ELSE i + 1   \* (i + 1) & MASK
SlotBefore(i) == IF i = 0 THEN NUM_TDS - 1 ELSE i - 1   \* (i - 1) & MASK

\* Frame tags by class.
MinTag(c)   == IF c = "ptp" THEN MAX_NONPTP_TAG + 1 ELSE 1
MaxTag(c)   == IF c = "ptp" THEN MAX_PTP_TAG ELSE MAX_NONPTP_TAG
TagCount(c) == MaxTag(c) - MinTag(c) + 1
TagAfterNoWrap(c, tag) == tag + 1
TagAfter(c, tag) == IF tag = MaxTag(c) THEN MinTag(c) ELSE tag + 1

Skb   == [class : FrameClass, tag : 0 .. MAX_PTP_TAG]
NoSkb == [class |-> "nonptp", tag |-> 0]                \* tx_skb[i] == NULL

WU_TYPE_TX_STAT == 3
\* A status work unit: byte 0 (type, error and PTP bits) and the frame tag,
\* which arrive in one bus beat, and the timestamp, which arrives later.
\* byte0 == 0 exactly when type is 0.
StatusWu == [type : 0 .. 3, err : BOOLEAN, class : FrameClass,
             tag : 0 .. MAX_PTP_TAG, stamped : BOOLEAN]
ZeroWu   == [type |-> 0, err |-> FALSE, class |-> "nonptp", tag |-> 0,
             stamped |-> FALSE]

VARIABLES
    \* --- struct adi_msp_private, Tx part ---
    tx_skb,            \* skb in flight in each slot
    td_ring,           \* transmit descriptors: buffer, link, FLOW bit
    sd_flow,           \* status descriptors: FLOW bit (the links are fixed)
    status_wu,         \* status work units
    next_tag,          \* next_[non]ptp_frame_tag
    last_tag,          \* last_[non]ptp_frame_tag
    available,         \* available_[non]ptp_frame_tag_count
    tx_next_done,
    tx_chain_head, tx_chain_tail,
    tx_chain_filled,   \* tx_chain_status == FILLED
    tx_count,
    queue_stopped,     \* netif_queue_stopped(dev)
    tx_reset,          \* stats.nl.tx_reset # 0: reset_tx was reached
    \* --- adi_msp_send_packet: position and locals ---
    sndPc, sndClass, sndTag, sndHalted,
    \* --- adi_msp_status_poll: position and locals ---
    plPc, plWu, plSkb, plCount,
    int_en,            \* MSP_INT_CTRL_STATUS has MSP_INT_CTRL_DMADONE
    \* --- hardware ---
    txdma,             \* Tx DMA engine
    mspq,              \* frames inside the MSP Tx interface, status not written
    stdma,             \* status DMA engine
    dscptr_prv,        \* status DMA DSCPTR_PRV
    irqdone            \* status DMA DMA_STAT_IRQDONE

ringVars == <<tx_skb, td_ring, sd_flow, status_wu>>
tagVars  == <<next_tag, last_tag, available>>
chainVars == <<tx_chain_head, tx_chain_tail, tx_chain_filled>>
drvVars  == <<ringVars, tagVars, chainVars, tx_next_done, tx_count,
              queue_stopped, tx_reset>>
sndVars  == <<sndPc, sndClass, sndTag, sndHalted>>
plVars   == <<plPc, plWu, plSkb, plCount, int_en>>
stVars   == <<stdma, dscptr_prv, irqdone>>
hwVars   == <<txdma, mspq, stVars>>
vars     == <<drvVars, sndVars, plVars, hwVars>>

Halt == "halt"
TxDmaHalted   == [run |-> Halt, cur |-> 0, flow |-> "stop", nxt |-> 0, skb |-> NoSkb]
TxDmaAt(slot) == [TxDmaHalted EXCEPT !.run = "fetch", !.cur = slot]
StDmaHalted   == [run |-> Halt, cur |-> 0, flow |-> "stop"]
StDmaAt(slot) == [StDmaHalted EXCEPT !.run = "fetch", !.cur = slot]

(***************************************************************************)
(* adi_msp_open has allocated the rings, reset the tags, started the       *)
(* status DMA at descriptor 0 and enabled the queue and the NAPI context.  *)
(***************************************************************************)
Init ==
    /\ tx_skb = [i \in Slots |-> NoSkb]
    /\ td_ring = [i \in Slots |-> [skb |-> NoSkb, nxt |-> 0, flow |-> "stop"]]
    /\ sd_flow = [i \in Slots |-> IF i = NUM_TDS - 1 THEN "stop" ELSE "dscl"]
    /\ status_wu = [i \in Slots |-> ZeroWu]
    /\ next_tag = [c \in FrameClass |-> MinTag(c)]
    /\ last_tag = [c \in FrameClass |-> MaxTag(c)]
    /\ available = [c \in FrameClass |-> TagCount(c)]
    /\ tx_next_done = 0
    /\ tx_chain_head = 0 /\ tx_chain_tail = 0 /\ tx_chain_filled = FALSE
    /\ tx_count = 0
    /\ queue_stopped = FALSE
    /\ tx_reset = FALSE
    /\ sndPc = "idle" /\ sndClass = "nonptp" /\ sndTag = 0 /\ sndHalted = FALSE
    /\ plPc = "idle" /\ plWu = ZeroWu /\ plSkb = NoSkb /\ plCount = 0
    /\ int_en = TRUE
    /\ txdma = TxDmaHalted
    /\ mspq = << >>
    /\ stdma = StDmaAt(0)
    /\ dscptr_prv = NUM_TDS - 1
    /\ irqdone = FALSE

-----------------------------------------------------------------------------
(***************************************************************************)
(* adi_msp_send_packet.  lp->lock is held exactly while sndPc # "idle".    *)
(***************************************************************************)

\* The unlock and return of adi_msp_send_packet; its locals are dead.
SendReturn ==
    /\ sndPc' = "idle"
    /\ sndClass' = "nonptp" /\ sndTag' = 0 /\ sndHalted' = FALSE

\* The stack hands over a frame: only while the queue is not stopped, and
\* one at a time (the transmit lock of the queue).
SendPacket(c) ==
    /\ sndPc = "idle" /\ ~queue_stopped
    /\ sndPc' = "check" /\ sndClass' = c
    /\ UNCHANGED <<drvVars, sndTag, sndHalted, plVars, hwVars>>

RingFullTooLate == tx_count > NUM_TDS
TxRingFull == tx_count >= NUM_TDS

\* The length, ring and tag checks, and the decision to stop the queue.
\* tx_count can only fall and the tag counts only rise until SendCommit, so
\* the several atomic_reads of the code decide as one.
SendCheck ==
    /\ sndPc = "check"
    /\ \E tooHuge \in BOOLEAN :
         IF tooHuge \/ TxRingFull \/ available[sndClass] = 0
         THEN SendReturn
         ELSE /\ sndPc' = IF /\ ~queue_stopped
                             /\ \/ tx_count >= NUM_TDS - ADI_MSP_STOP_QUEUE_TH
                                \/ available[sndClass] <= ADI_MSP_STOP_QUEUE_TH
                          THEN "stop" ELSE "map"
              /\ UNCHANGED <<sndClass, sndTag, sndHalted>>
    /\ UNCHANGED <<drvVars, plVars, hwVars>>

\* netif_stop_queue
SendStopQueue ==
    /\ sndPc = "stop"
    /\ queue_stopped' = TRUE
    /\ sndPc' = "map"
    /\ UNCHANGED <<ringVars, tagVars, chainVars, tx_next_done, tx_count,
                   tx_reset, sndClass, sndTag, sndHalted, plVars, hwVars>>

\* Grow the headroom, peek at the next tag, fill the work unit header and
\* map the buffer; the drop on failure leaves the queue as it is.
SendMap ==
    /\ sndPc = "map"
    /\ \/ /\ MapMayFail
          /\ SendReturn
       \/ /\ sndTag' = next_tag[sndClass]
          /\ sndPc' = "commit"
          /\ UNCHANGED <<sndClass, sndHalted>>
    /\ UNCHANGED <<drvVars, plVars, hwVars>>

GetTagUncounted(c) ==
    /\ next_tag' = [next_tag EXCEPT ![c] = TagAfter(c, @)]
    /\ UNCHANGED available

get_frame_tag(c) ==
    IF available[c] = 0
    THEN UNCHANGED <<next_tag, available>>
    ELSE /\ available' = [available EXCEPT ![c] = @ - 1]
         /\ next_tag' = [next_tag EXCEPT ![c] = TagAfter(c, @)]

\* Take the tag, count the frame and fill slot and descriptor of the tail.
SendCommit ==
    /\ sndPc = "commit"
    /\ get_frame_tag(sndClass)
    /\ tx_count' = tx_count + 1
    /\ LET skb == [class |-> sndClass, tag |-> sndTag] IN
         /\ tx_skb' = [tx_skb EXCEPT ![tx_chain_tail] = skb]
         /\ td_ring' = [td_ring EXCEPT ![tx_chain_tail].skb = skb,
                                       ![tx_chain_tail].flow = "stop"]
    /\ sndPc' = "stat"
    /\ UNCHANGED <<sd_flow, status_wu, last_tag, chainVars, tx_next_done,
                   queue_stopped, tx_reset, sndClass, sndTag, sndHalted,
                   plVars, hwVars>>

\* readl(&lp->tx_dma_regs->stat): the DMA may halt right after this read.
SendStat ==
    /\ sndPc = "stat"
    /\ sndHalted' = (txdma.run = Halt)
    /\ sndPc' = "chain"
    /\ UNCHANGED <<drvVars, sndClass, sndTag, plVars, hwVars>>

\* Write DSCPTR_NXT and CFG of the halted Tx DMA, and empty the chain.
StartChainHeadKept(tail) ==
    /\ txdma' = TxDmaAt(tx_chain_head)
    /\ tx_chain_filled' = FALSE
    /\ UNCHANGED tx_chain_head

StartChain(tail) ==
    /\ txdma' = TxDmaAt(tx_chain_head)
    /\ tx_chain_head' = tail
    /\ tx_chain_filled' = FALSE

LinksAlways  == TRUE
LinksNever   == FALSE
LinksToPrev  == tx_chain_filled

\* The four cases of DMA halted or running, chain empty or filled.
SendChain ==
    /\ sndPc = "chain"
    /\ LET idx  == tx_chain_tail
           next == SlotAfter(idx)
       IN  /\ td_ring' = IF LinksToPrev
                         THEN [td_ring EXCEPT ![SlotBefore(idx)].flow = "dscl",
                                              ![SlotBefore(idx)].nxt = idx]
                         ELSE td_ring
           /\ tx_chain_tail' = next
           /\ IF sndHalted
              THEN StartChain(next)
              ELSE /\ tx_chain_filled' = TRUE
                   /\ UNCHANGED <<txdma, tx_chain_head>>
    /\ SendReturn
    /\ UNCHANGED <<tx_skb, sd_flow, status_wu, tagVars, tx_next_done, tx_count,
                   queue_stopped, tx_reset, plVars, mspq, stVars>>

-----------------------------------------------------------------------------
(***************************************************************************)
(* adi_msp_status_dma_done_interrupt and adi_msp_status_poll.              *)
(***************************************************************************)

\* The interrupt is level triggered: it fires whenever it is enabled and
\* DMA_STAT_IRQDONE is set.  It masks itself and schedules the poll.
StatusIrq ==
    /\ irqdone /\ int_en /\ plPc = "idle"
    /\ int_en' = FALSE
    /\ plPc' = "loop" /\ plCount' = 0
    /\ UNCHANGED <<drvVars, sndVars, plWu, plSkb, hwVars>>

\* Return from adi_msp_status with the given count: below the budget, NAPI
\* completes and the interrupt is enabled again; otherwise it polls again.
PollReturn(count) ==
    /\ IF count < Budget
       THEN plPc' = "idle" /\ int_en' = TRUE
       ELSE plPc' = "loop" /\ UNCHANGED int_en
    /\ plCount' = 0 /\ plWu' = ZeroWu /\ plSkb' = NoSkb

\* goto reset_tx: nothing is reset, the poll returns where it stands.
reset_tx == tx_reset' = TRUE /\ PollReturn(plCount)

\* Top of the loop: read byte 0 and the tag of the next status work unit.
PollRead ==
    /\ plPc = "loop"
    /\ LET wu == status_wu[tx_next_done] IN
         IF plCount = Budget \/ wu.type = 0
         THEN plPc' = "restart" /\ UNCHANGED plWu
         ELSE plPc' = "check" /\ plWu' = wu
    /\ UNCHANGED <<drvVars, sndVars, plSkb, plCount, int_en, hwVars>>

NeverInProgress(slot) == FALSE

\* ADDR_CUR lies in the work unit of the slot while the status DMA works on
\* it; DSCPTR_PRV receives the descriptor when the work unit is complete.
StatusInProgress(slot) ==
    /\ stdma.run \in {"run", "write"} /\ stdma.cur = slot
    /\ dscptr_prv # slot

\* The done test, the type and NULL tests, then unmap and uncount the frame.
PollCheck ==
    /\ plPc = "check"
    /\ LET idx == tx_next_done IN
         IF StatusInProgress(idx)
         THEN /\ plPc' = "restart" /\ plWu' = ZeroWu
              /\ UNCHANGED <<plSkb, plCount, int_en, tx_skb, tx_count, tx_reset>>
         ELSE IF plWu.type # WU_TYPE_TX_STAT \/ tx_skb[idx] = NoSkb
         THEN reset_tx /\ UNCHANGED <<tx_skb, tx_count>>
         ELSE /\ plSkb' = tx_skb[idx]
              /\ tx_skb' = [tx_skb EXCEPT ![idx] = NoSkb]
              /\ tx_count' = tx_count - 1
              /\ plPc' = "put"
              /\ UNCHANGED <<plWu, plCount, int_en, tx_reset>>
    /\ UNCHANGED <<td_ring, sd_flow, status_wu, tagVars, chainVars, tx_next_done,
                   queue_stopped, sndVars, hwVars>>

\* put_frame_tag(lp, tag, ptp) with the tag and the PTP bit of the status
PollPut ==
    /\ plPc = "put"
    /\ LET c   == plWu.class
           tag == plWu.tag
           inRange  == tag \in MinTag(c) .. MaxTag(c)
           expected == tag = TagAfter(c, last_tag[c])
       IN  /\ available' = IF inRange THEN [available EXCEPT ![c] = @ + 1]
                                      ELSE available
           /\ last_tag' = IF inRange /\ expected THEN [last_tag EXCEPT ![c] = tag]
                                                 ELSE last_tag
           /\ IF inRange /\ expected
              THEN plPc' = "wakecheck"
                   /\ UNCHANGED <<plWu, plSkb, plCount, int_en, tx_reset>>
              ELSE reset_tx
    /\ UNCHANGED <<ringVars, next_tag, chainVars, tx_next_done, tx_count,
                   queue_stopped, sndVars, hwVars>>

RoomExactly ==
    /\ tx_count = NUM_TDS - ADI_MSP_STOP_QUEUE_TH
    /\ \A c \in FrameClass : available[c] >= ADI_MSP_STOP_QUEUE_TH

RoomAgain ==
    /\ tx_count <= NUM_TDS - ADI_MSP_STOP_QUEUE_TH
    /\ \A c \in FrameClass : available[c] >= ADI_MSP_STOP_QUEUE_TH

\* Is there room again?  The sender may take it before netif_wake_queue.
PollWakeCheck ==
    /\ plPc = "wakecheck"
    /\ plPc' = IF queue_stopped /\ RoomAgain THEN "wake" ELSE "finish"
    /\ UNCHANGED <<drvVars, sndVars, plWu, plSkb, plCount, int_en, hwVars>>

\* netif_wake_queue
PollWake ==
    /\ plPc = "wake"
    /\ queue_stopped' = FALSE
    /\ plPc' = "finish"
    /\ UNCHANGED <<ringVars, tagVars, chainVars, tx_next_done, tx_count, tx_reset,
                   sndVars, plWu, plSkb, plCount, int_en, hwVars>>

\* Match the tag with the frame's own, report the timestamp of a PTP frame,
\* free the skb.  Error and success differ only in statistics.
PollFinish ==
    /\ plPc = "finish"
    /\ IF plWu.tag # plSkb.tag
       THEN reset_tx
       ELSE /\ plPc' = "recycle"
            /\ plWu' = ZeroWu /\ plSkb' = NoSkb
            /\ UNCHANGED <<plCount, int_en, tx_reset>>
    /\ UNCHANGED <<ringVars, tagVars, chainVars, tx_next_done, tx_count,
                   queue_stopped, sndVars, hwVars>>

WuNotCleared(idx) ==
    /\ sd_flow' = [sd_flow EXCEPT ![idx] = "stop"]
    /\ UNCHANGED status_wu

DescNotStopped(idx) ==
    /\ status_wu' = [status_wu EXCEPT ![idx] = ZeroWu]
    /\ UNCHANGED sd_flow

ResetDescAndWu(idx) ==
    /\ status_wu' = [status_wu EXCEPT ![idx] = ZeroWu]
    /\ sd_flow' = [sd_flow EXCEPT ![idx] = "stop"]

\* reset_desc_and_wu: clear the work unit, make its descriptor the last one
RecycleStop ==
    /\ plPc = "recycle"
    /\ plCount' = plCount + 1
    /\ ResetDescAndWu(tx_next_done)
    /\ plPc' = "link"
    /\ UNCHANGED <<tx_skb, td_ring, tagVars, chainVars, tx_next_done, tx_count,
                   queue_stopped, tx_reset, sndVars, plWu, plSkb, int_en, hwVars>>

\* ... and only then let the previous descriptor continue to it.
RecycleLink ==
    /\ plPc = "link"
    /\ sd_flow' = [sd_flow EXCEPT ![SlotBefore(tx_next_done)] = "dscl"]
    /\ plPc' = "ack"
    /\ UNCHANGED <<tx_skb, td_ring, status_wu, tagVars, chainVars, tx_next_done,
                   tx_count, queue_stopped, tx_reset, sndVars, plWu, plSkb,
                   plCount, int_en, hwVars>>

\* Advance tx_next_done and clear DMA_STAT_IRQDONE.
RecycleAck ==
    /\ plPc = "ack"
    /\ tx_next_done' = SlotAfter(tx_next_done)
    /\ irqdone' = FALSE
    /\ plPc' = "loop"
    /\ UNCHANGED <<ringVars, tagVars, chainVars, tx_count, queue_stopped, tx_reset,
                   sndVars, plWu, plSkb, plCount, int_en, txdma, mspq, stdma,
                   dscptr_prv>>

RestartNever == FALSE

RestartNeeded == txdma.run = Halt /\ tx_chain_filled

\* Under lp->lock: restart a halted Tx DMA on a filled chain.
PollRestart ==
    /\ plPc = "restart" /\ sndPc = "idle"
    /\ IF RestartNeeded
       THEN StartChain(tx_chain_tail)
       ELSE UNCHANGED <<txdma, tx_chain_head, tx_chain_filled>>
    /\ plPc' = "halt"
    /\ UNCHANGED <<ringVars, tagVars, tx_chain_tail, tx_next_done, tx_count,
                   queue_stopped, tx_reset, sndVars, plWu, plSkb, plCount,
                   int_en, mspq, stVars>>

\* A halted status DMA: restart it if all its work is done, otherwise use
\* the rest of the budget, otherwise be polled again.
PollHalt ==
    /\ plPc = "halt"
    /\ IF stdma.run # Halt
       THEN PollReturn(plCount) /\ UNCHANGED stVars
       ELSE IF status_wu[tx_next_done].type = 0
       THEN /\ irqdone' = FALSE
            /\ stdma' = StDmaAt(tx_next_done)
            /\ PollReturn(IF plCount < Budget THEN plCount ELSE Budget - 1)
            /\ UNCHANGED dscptr_prv
       ELSE IF plCount < Budget
       THEN plPc' = "loop" /\ UNCHANGED <<plWu, plSkb, plCount, int_en, stVars>>
       ELSE PollReturn(plCount) /\ UNCHANGED stVars
    /\ UNCHANGED <<drvVars, sndVars, txdma, mspq>>

-----------------------------------------------------------------------------
(***************************************************************************)
(* The hardware, as the driver relies on it.  The Tx DMA latches a         *)
(* descriptor when it fetches it, and is halted before the status of its   *)
(* last frame can be written.  Statuses come in transmission order.        *)
(***************************************************************************)

TxDmaFetch ==
    /\ txdma.run = "fetch"
    /\ txdma' = [txdma EXCEPT !.run = "xfer",
                              !.flow = td_ring[txdma.cur].flow,
                              !.nxt = td_ring[txdma.cur].nxt,
                              !.skb = td_ring[txdma.cur].skb]
    /\ UNCHANGED <<drvVars, sndVars, plVars, mspq, stVars>>

TxDmaXfer ==
    /\ txdma.run = "xfer"
    /\ mspq' = Append(mspq, txdma.skb)
    /\ txdma' = IF txdma.flow = "dscl" THEN TxDmaAt(txdma.nxt) ELSE TxDmaHalted
    /\ UNCHANGED <<drvVars, sndVars, plVars, stVars>>

StFetch ==
    /\ stdma.run = "fetch"
    /\ stdma' = [stdma EXCEPT !.run = "run", !.flow = sd_flow[stdma.cur]]
    /\ UNCHANGED <<drvVars, sndVars, plVars, txdma, mspq, dscptr_prv, irqdone>>

\* What the interface may report for a frame: the truth, or a fault.
Report(skb) ==
    LET truth == [type |-> WU_TYPE_TX_STAT, err |-> FALSE, class |-> skb.class,
                  tag |-> skb.tag, stamped |-> FALSE]
    IN  {truth}
        \cup (IF "err"  \in Faults THEN {[truth EXCEPT !.err = TRUE]} ELSE {})
        \cup (IF "type" \in Faults THEN {[truth EXCEPT !.type = 1]} ELSE {})
        \cup (IF "ptp"  \in Faults THEN {[truth EXCEPT !.class = cl] : cl \in FrameClass} ELSE {})
        \cup (IF "tag"  \in Faults
              THEN {[truth EXCEPT !.tag = t] : t \in 0 .. MAX_PTP_TAG} ELSE {})

\* The first beat of a status work unit: byte 0 and the frame tag.
StFirstBeat ==
    /\ stdma.run = "run" /\ mspq # << >>
    /\ \E wu \in Report(Head(mspq)) :
         status_wu' = [status_wu EXCEPT ![stdma.cur] = wu]
    /\ mspq' = Tail(mspq)
    /\ stdma' = [stdma EXCEPT !.run = "write"]
    /\ UNCHANGED <<tx_skb, td_ring, sd_flow, tagVars, chainVars, tx_next_done,
                   tx_count, queue_stopped, tx_reset, sndVars, plVars, txdma,
                   dscptr_prv, irqdone>>

\* The rest of it: the work unit is complete, DSCPTR_PRV and IRQDONE tell,
\* and the DMA goes on to the next descriptor or halts.
StDone ==
    /\ stdma.run = "write"
    /\ status_wu' = [status_wu EXCEPT ![stdma.cur].stamped = TRUE]
    /\ dscptr_prv' = stdma.cur
    /\ irqdone' = TRUE
    /\ stdma' = IF stdma.flow = "dscl" THEN StDmaAt(SlotAfter(stdma.cur))
                                       ELSE StDmaHalted
    /\ UNCHANGED <<tx_skb, td_ring, sd_flow, tagVars, chainVars, tx_next_done,
                   tx_count, queue_stopped, tx_reset, sndVars, plVars, txdma, mspq>>

-----------------------------------------------------------------------------
SendStep == SendCheck \/ SendStopQueue \/ SendMap \/ SendCommit \/ SendStat \/ SendChain

PollStep == \/ PollRead \/ PollCheck \/ PollPut \/ PollWakeCheck \/ PollWake
            \/ PollFinish \/ RecycleStop \/ RecycleLink \/ RecycleAck
            \/ PollRestart \/ PollHalt

TxDmaStep == TxDmaFetch \/ TxDmaXfer

StDmaStep == StFetch \/ StFirstBeat \/ StDone

Next ==
    \/ \E c \in Classes : SendPacket(c)
    \/ SendStep
    \/ StatusIrq
    \/ PollStep
    \/ TxDmaStep
    \/ StDmaStep

\* Code that runs keeps running, an enabled interrupt is delivered, NAPI
\* polls what is scheduled and the DMA engines make progress.  Nothing makes
\* the stack send.
Fairness ==
    /\ WF_vars(SendStep)
    /\ WF_vars(StatusIrq)
    /\ SF_vars(PollRestart)
    /\ WF_vars(PollStep)
    /\ WF_vars(TxDmaStep)
    /\ WF_vars(StDmaStep)

Spec     == Init /\ [][Next]_vars
FairSpec == Spec /\ Fairness

-----------------------------------------------------------------------------
(***************************************************************************)
(* Properties.                                                             *)
(***************************************************************************)

\* The slot whose frame is being completed is no longer counted as in flight
\* although tx_next_done still points at it.
Completing == plPc \in {"put", "wakecheck", "wake", "finish", "recycle", "link", "ack"}
FirstInFlight == IF Completing THEN SlotAfter(tx_next_done) ELSE tx_next_done

\* tx_chain_tail still points at a frame that is filled in but not yet chained.
Chaining == sndPc \in {"stat", "chain"}
NextFree == IF Chaining THEN SlotAfter(tx_chain_tail) ELSE tx_chain_tail

\* How many slots after `from` the slot `to` comes, around the ring.
Offset(from, to) == IF to >= from THEN to - from ELSE to + NUM_TDS - from

RingType ==
    /\ tx_skb \in [Slots -> Skb]
    /\ td_ring \in [Slots -> [skb : Skb, nxt : Slots, flow : {"stop", "dscl"}]]
    /\ sd_flow \in [Slots -> {"stop", "dscl"}]
    /\ status_wu \in [Slots -> StatusWu]

TagType ==
    /\ next_tag \in [FrameClass -> Nat] /\ last_tag \in [FrameClass -> Nat]
    /\ \A c \in FrameClass : /\ next_tag[c] \in MinTag(c) .. MaxTag(c)
                             /\ last_tag[c] \in MinTag(c) .. MaxTag(c)
    /\ available \in [FrameClass -> Nat]

ChainType ==
    /\ tx_next_done \in Slots /\ tx_chain_head \in Slots /\ tx_chain_tail \in Slots
    /\ tx_count \in 0 .. NUM_TDS

FlagType ==
    /\ tx_chain_filled \in BOOLEAN /\ queue_stopped \in BOOLEAN /\ tx_reset \in BOOLEAN
    /\ sndHalted \in BOOLEAN /\ int_en \in BOOLEAN /\ irqdone \in BOOLEAN

SendType ==
    /\ sndPc \in {"idle", "check", "stop", "map", "commit", "stat", "chain"}
    /\ sndClass \in FrameClass /\ sndTag \in 0 .. MAX_PTP_TAG

PollType ==
    /\ plPc \in {"idle", "loop", "check", "put", "wakecheck", "wake", "finish",
                 "recycle", "link", "ack", "restart", "halt"}
    /\ plWu \in StatusWu /\ plSkb \in Skb /\ plCount \in 0 .. Budget

HwType ==
    /\ txdma \in [run : {Halt, "fetch", "xfer"}, cur : Slots,
                  flow : {"stop", "dscl"}, nxt : Slots, skb : Skb]
    /\ mspq \in Seq(Skb)
    /\ stdma \in [run : {Halt, "fetch", "run", "write"}, cur : Slots,
                  flow : {"stop", "dscl"}]
    /\ dscptr_prv \in Slots

\* The state is well formed and the counters stay within their range.  The
\* bounds on tx_count are what the check "tx_count > ADI_MSP_NUM_TDS" of
\* adi_msp_send_packet tests for: it never fires, whatever the hardware does.
TypeOK ==
    RingType /\ TagType /\ ChainType /\ FlagType /\ SendType /\ PollType /\ HwType

\* As long as reset_tx was never reached, the occupied slots are exactly the
\* tx_count slots that follow the first frame in flight, and the slot
\* adi_msp_send_packet fills next comes right after them: a full ring is
\* never written over, and no slot is skipped.
TxRingConsistent ==
    ~tx_reset =>
      /\ \A i \in Slots : tx_skb[i] # NoSkb <=> Offset(FirstInFlight, i) < tx_count
      /\ Offset(FirstInFlight, NextFree) = IF tx_count = NUM_TDS THEN 0 ELSE tx_count

\* The number of frames from tx_chain_head on, in the chain that
\* adi_msp_send_packet builds while the Tx DMA is busy with an earlier one.
ChainLength ==
    IF tx_chain_head = NextFree THEN (IF tx_chain_filled THEN NUM_TDS ELSE 0)
    ELSE Offset(tx_chain_head, NextFree)

\* The frames in flight whose status work unit has been started.  Until
\* RecycleStop clears it, the work unit of a slot being completed is the old
\* frame's, even if the sender has filled the slot again.
Reported ==
    {i \in Slots : /\ tx_skb[i] # NoSkb /\ status_wu[i].type # 0
                   /\ ~(Completing /\ plPc \notin {"link", "ack"} /\ i = tx_next_done)}

\* The Tx DMA only works on a frame in flight, whose buffer is still mapped
\* and not freed, and never on a descriptor of the chain that
\* adi_msp_send_packet is still linking.
DmaOwnership ==
    (txdma.run # Halt /\ ~tx_reset) =>
      /\ tx_skb[txdma.cur] # NoSkb
      /\ txdma.run = "xfer" => txdma.skb = tx_skb[txdma.cur]
      /\ Offset(tx_chain_head, txdma.cur) >= ChainLength

\* A halted Tx DMA leaves no frame behind: every frame in flight has been
\* handed to the interface or is in the chain the next start will send.
NoFrameForgotten ==
    (txdma.run = Halt /\ ~tx_reset) =>
      tx_count = Cardinality(Reported) + Len(mspq) + ChainLength

\* With an interface that reports what it sent (the error bit included) the
\* driver never meets a status it cannot explain.
NoTxReset == ~tx_reset

\* The status DMA never writes over a work unit the poll has not cleared.
StatusNotOverwritten == stdma.run = "run" => status_wu[stdma.cur] = ZeroWu

\* When the poll uses the timestamp, the status DMA has written it.
TimestampComplete == plPc = "finish" => status_wu[tx_next_done].stamped

\* Frame tags are neither lost nor used twice: those of the frames in flight
\* (the one being completed included until its tag is put back) are distinct,
\* and with the available ones they make up the class, until the driver gives up.
TagsConserved ==
    LET held(c) == {i \in Slots : tx_skb[i] # NoSkb /\ tx_skb[i].class = c}
        tags(c) == {tx_skb[i].tag : i \in held(c)}
                   \cup (IF plPc = "put" /\ plSkb.class = c THEN {plSkb.tag} ELSE {})
    IN  ~tx_reset => \A c \in FrameClass :
          /\ Cardinality(tags(c)) + available[c] = TagCount(c)
          /\ tags(c) \subseteq MinTag(c) .. MaxTag(c)

\* A stopped queue is woken (adi_msp_tx_timeout would not do it).
QueueWakes == queue_stopped ~> ~queue_stopped
=============================================================================
