------------------------------- MODULE MspRx -------------------------------
(***************************************************************************)
(* The receive path of the MS-plane Ethernet driver (adi-msp.c): the Rx    *)
(* DMA writes work units into the buffers of a ring of descriptors, and    *)
(* adi_msp_rx_poll, the NAPI poll, takes them out, puts the frames         *)
(* together and gives the descriptors back while the DMA keeps running.    *)
(*                                                                         *)
(* The interface delivers a frame as a start-of-frame data work unit,      *)
(* follow-up data work units if the frame is too long for one buffer, and  *)
(* a status work unit.  Frame contents are the members of Payload.         *)
(***************************************************************************)
EXTENDS Integers, Sequences

CONSTANTS
    NUM_RDS,             \* ADI_MSP_NUM_RDS: Rx descriptors
    PREV_RX_SKB_NUM,     \* size of prev_rx_skb[]
    Budget,              \* NAPI budget of one adi_msp_rx_poll call
    Payload,             \* contents of frames
    MaxDataWus,          \* data work units of the longest frame on the wire
    AllocMayFail,        \* may napi_alloc_skb or dma_map_single fail?
    Coherent,            \* does the CPU always see what the DMA wrote?
    RxFaults             \* "bad": a garbled header, "lost": a lost work unit

DATA_WU_PER_FRAME == 1   \* DIV_ROUND_UP(RX_MAX_FRAME_SIZE, RX_WU_LEN)

ASSUME RxConstants ==
    /\ NUM_RDS \in Nat /\ NUM_RDS > 1
    /\ PREV_RX_SKB_NUM \in Nat /\ PREV_RX_SKB_NUM > DATA_WU_PER_FRAME
    /\ Budget \in Nat /\ Budget > 0
    /\ Payload # {}
    /\ MaxDataWus \in Nat /\ MaxDataWus > 0
    /\ AllocMayFail \in BOOLEAN /\ Coherent \in BOOLEAN
    /\ RxFaults \subseteq {"bad", "lost"}

RxSlots == 0 .. NUM_RDS - 1
RxSlotAfter(i)  == IF i = NUM_RDS - 1 THEN 0 ELSE i + 1   \* (i + 1) & MASK
RxSlotBefore(i) == IF i = 0 THEN NUM_RDS - 1 ELSE i - 1   \* (i - 1) & MASK

\* A work unit by the first byte of its header.  "none" is byte 0 = 0; "err"
\* is a status with RX_STAT_WU_HEADER_ERR or _DROPPED_ERR; "bad" is a header
\* of another type or with a reserved bit set.  `done` says that all of it
\* is in memory.
WuKinds == {"none", "sof", "fup", "stat", "err", "bad"}
SomePayload == CHOOSE p \in Payload : TRUE
Wu(k, p) == [kind |-> k, pay |-> p, done |-> FALSE]
NoWu     == Wu("none", SomePayload)
WorkUnit == [kind : WuKinds, pay : Payload, done : BOOLEAN]

\* A frame given to the stack: the payload of its data work unit, and that
\* of the status work unit its length and timestamp were taken from.
RxFrame == [data : Payload, stat : Payload]

VARIABLES
    \* --- struct adi_msp_private, Rx part ---
    rx_wu,             \* contents of the buffer rx_skb[i]
    rx_skb_dma,        \* address of that buffer; 0 and 1 are two buffers
    rd_ring,           \* receive descriptors: addrstart and FLOW bit
    rx_next_done,
    prev_rx_skb,       \* the first prev_rx_skb_count work units of prev_rx_skb[]
    rx_last,           \* the last frame passed to netif_receive_skb
    \* --- adi_msp_rx_poll: position and locals ---
    rxPc, rxCount,
    rx_int_en,         \* MSP_INT_CTRL_RX has MSP_INT_CTRL_DMADONE
    rxCached,          \* the CPU has cached a zero byte 0 of rx_skb[rx_next_done]
    \* --- hardware ---
    rxdma,             \* Rx DMA engine
    rx_dscptr_prv,     \* its DSCPTR_PRV
    rx_irqdone,        \* its DMA_STAT_IRQDONE
    wire               \* frame being received: data work units so far, payload

rxDrvVars == <<rx_wu, rx_skb_dma, rd_ring, rx_next_done, prev_rx_skb, rx_last>>
rxPollVars == <<rxPc, rxCount, rx_int_en, rxCached>>
rxHwVars == <<rxdma, rx_dscptr_prv, rx_irqdone, wire>>
rxVars == <<rxDrvVars, rxPollVars, rxHwVars>>

RxDmaHalted   == [run |-> "halt", cur |-> 0, flow |-> "stop", addr |-> 0]
RxDmaAt(slot) == [RxDmaHalted EXCEPT !.run = "fetch", !.cur = slot]
WireIdle == [n |-> 0, pay |-> SomePayload]

\* adi_msp_open has allocated the ring and started the Rx DMA at descriptor 0.
RxInit ==
    /\ rx_wu = [i \in RxSlots |-> NoWu]
    /\ rx_skb_dma = [i \in RxSlots |-> 0]
    /\ rd_ring = [i \in RxSlots |->
                    [addr |-> 0, flow |-> IF i = NUM_RDS - 1 THEN "stop" ELSE "dscl"]]
    /\ rx_next_done = 0
    /\ prev_rx_skb = << >>
    /\ rx_last = [data |-> SomePayload, stat |-> SomePayload]
    /\ rxPc = "idle" /\ rxCount = 0 /\ rx_int_en = TRUE /\ rxCached = FALSE
    /\ rxdma = RxDmaAt(0)
    /\ rx_dscptr_prv = NUM_RDS - 1
    /\ rx_irqdone = FALSE
    /\ wire = WireIdle

-----------------------------------------------------------------------------
(***************************************************************************)
(* adi_msp_rx_dma_done_interrupt and adi_msp_rx_poll.                      *)
(***************************************************************************)

\* Level triggered: fires while enabled and DMA_STAT_IRQDONE is set; masks
\* itself and schedules the poll.
RxIrq ==
    /\ rx_irqdone /\ rx_int_en /\ rxPc = "idle"
    /\ rx_int_en' = FALSE
    /\ rxPc' = "loop"
    /\ UNCHANGED <<rxDrvVars, rxCount, rxCached, rxHwVars>>

\* Return from adi_msp_rx with the given count: below the budget, NAPI
\* completes and the interrupt is enabled; otherwise it polls again.
RxPollReturn(count) ==
    /\ IF count < Budget
       THEN rxPc' = "idle" /\ rx_int_en' = TRUE
       ELSE rxPc' = "loop" /\ UNCHANGED rx_int_en
    /\ rxCount' = 0 /\ rxCached' = FALSE

\* Top of the loop: sync the buffer and look at byte 0 of its header.
RxRead ==
    /\ rxPc = "loop"
    /\ LET untouched == rx_wu[rx_next_done].kind = "none" IN
         /\ rxPc' = IF rxCount = Budget \/ untouched THEN "halt" ELSE "check"
         /\ rxCached' = (rxCount < Budget /\ untouched)
    /\ UNCHANGED <<rxDrvVars, rxCount, rx_int_en, rxHwVars>>

RxNeverInProgress(slot) == FALSE

\* ADDR_CUR lies in the buffer of the slot and DSCPTR_PRV is not its
\* descriptor.  The two registers are read one after the other: the outcome
\* is that of reading both at the first or both at the second moment.
RxInProgress(slot) ==
    /\ rxdma.run \in {"run", "write"} /\ rxdma.cur = slot
    /\ rx_dscptr_prv # slot

RxCheck ==
    /\ rxPc = "check"
    /\ rxPc' = IF RxInProgress(rx_next_done) THEN "halt" ELSE "take"
    /\ UNCHANGED <<rxDrvVars, rxCount, rx_int_en, rxCached, rxHwVars>>

\* rx_skb[idx] and rx_skb_dma[idx] become a new buffer with byte 0 = 0.
SwapBuffer(idx) ==
    /\ rx_wu' = [rx_wu EXCEPT ![idx] = NoWu]
    /\ rx_skb_dma' = [rx_skb_dma EXCEPT ![idx] = 1 - @]

\* adi_msp_drop_prev_rx_skb
DropPrev == prev_rx_skb' = << >>

\* A start-of-frame work unit: earlier data without a status is dropped.
TakeSof(wu) ==
    /\ wu.kind = "sof"
    /\ prev_rx_skb' = <<wu>>
    /\ UNCHANGED <<rxCount, rx_last>>

PrevFullTooLate == Len(prev_rx_skb) = PREV_RX_SKB_NUM
PrevFull == Len(prev_rx_skb) = PREV_RX_SKB_NUM - 1

\* Follow-up data: dropped without a start, or with more than fits.
TakeFollowUp(wu) ==
    /\ wu.kind = "fup"
    /\ IF prev_rx_skb = << >> \/ PrevFull
       THEN DropPrev
       ELSE prev_rx_skb' = Append(prev_rx_skb, wu)
    /\ UNCHANGED <<rxCount, rx_last>>

OversizeNever == FALSE
Oversize == Len(prev_rx_skb) > DATA_WU_PER_FRAME

\* A status: the frame is dropped (counted, unless there is no data), or the
\* first data work unit is passed to the stack.
TakeStatus(wu) ==
    /\ wu.kind \in {"stat", "err"}
    /\ DropPrev
    /\ IF wu.kind = "err" \/ prev_rx_skb = << >> \/ Oversize
       THEN UNCHANGED rx_last
       ELSE rx_last' = [data |-> prev_rx_skb[1].pay, stat |-> wu.pay]
    /\ rxCount' = IF wu.kind = "stat" /\ prev_rx_skb = << >> THEN rxCount
                                                             ELSE rxCount + 1

\* Any other header.
TakeInvalid(wu) ==
    /\ wu.kind \in {"bad", "none"}
    /\ DropPrev
    /\ UNCHANGED <<rxCount, rx_last>>

\* Without a new buffer the work unit stays where it is; otherwise its buffer
\* is replaced and it is sorted by its header.
RxTake ==
    /\ rxPc = "take"
    /\ \/ /\ AllocMayFail
          /\ rxPc' = "halt"
          /\ UNCHANGED <<rx_wu, rx_skb_dma, prev_rx_skb, rx_last, rxCount>>
       \/ LET wu == rx_wu[rx_next_done] IN
            /\ SwapBuffer(rx_next_done)
            /\ rxPc' = "recycle"
            /\ TakeSof(wu) \/ TakeFollowUp(wu) \/ TakeStatus(wu) \/ TakeInvalid(wu)
    /\ UNCHANGED <<rd_ring, rx_next_done, rx_int_en, rxCached, rxHwVars>>

RecycleOpen(idx)      == [addr |-> rx_skb_dma[idx], flow |-> "dscl"]
RecycleOldBuffer(idx) == [addr |-> rd_ring[idx].addr, flow |-> "stop"]
RecycledDesc(idx)     == [addr |-> rx_skb_dma[idx], flow |-> "stop"]

\* Put the descriptor back: point it at the new buffer, as the last one ...
RxRecycle ==
    /\ rxPc = "recycle"
    /\ rd_ring' = [rd_ring EXCEPT ![rx_next_done] = RecycledDesc(rx_next_done)]
    /\ rxPc' = "link"
    /\ UNCHANGED <<rx_wu, rx_skb_dma, rx_next_done, prev_rx_skb, rx_last,
                   rxCount, rx_int_en, rxCached, rxHwVars>>

\* ... and only then let the previous descriptor continue to it.
RxLink ==
    /\ rxPc = "link"
    /\ rd_ring' = [rd_ring EXCEPT ![RxSlotBefore(rx_next_done)].flow = "dscl"]
    /\ rxPc' = "ack"
    /\ UNCHANGED <<rx_wu, rx_skb_dma, rx_next_done, prev_rx_skb, rx_last,
                   rxCount, rx_int_en, rxCached, rxHwVars>>

\* Advance rx_next_done and clear DMA_STAT_IRQDONE.
RxAck ==
    /\ rxPc = "ack"
    /\ rx_next_done' = RxSlotAfter(rx_next_done)
    /\ rx_irqdone' = FALSE
    /\ rxPc' = "loop"
    /\ UNCHANGED <<rx_wu, rx_skb_dma, rd_ring, prev_rx_skb, rx_last, rxCount,
                   rx_int_en, rxCached, rxdma, rx_dscptr_prv, wire>>

SeesNeverZero(stale) == FALSE

\* Does the second read of byte 0 give zero?  It is not preceded by a
\* dma_sync_single_for_cpu: the CPU may use the line it cached in the loop.
SeesZero(stale) == stale \/ rx_wu[rx_next_done].kind = "none"

RestartAtZero == 0
RxRestartSlot == rx_next_done

\* A halted Rx DMA: restart it if all its work is done, otherwise use the
\* rest of the budget, otherwise be polled again.
RxHalt ==
    /\ rxPc = "halt"
    /\ \E stale \in {FALSE, ~Coherent /\ rxCached} :
         IF rxdma.run # "halt"
         THEN RxPollReturn(rxCount) /\ UNCHANGED <<rxdma, rx_irqdone>>
         ELSE IF SeesZero(stale)
         THEN /\ rx_irqdone' = FALSE
              /\ rxdma' = RxDmaAt(RxRestartSlot)
              /\ RxPollReturn(IF rxCount < Budget THEN rxCount ELSE Budget - 1)
         ELSE IF rxCount < Budget
         THEN /\ rxPc' = "loop" /\ rxCached' = FALSE
              /\ UNCHANGED <<rxCount, rx_int_en, rxdma, rx_irqdone>>
         ELSE RxPollReturn(rxCount) /\ UNCHANGED <<rxdma, rx_irqdone>>
    /\ UNCHANGED <<rxDrvVars, rx_dscptr_prv, wire>>

-----------------------------------------------------------------------------
(***************************************************************************)
(* The hardware, as the driver relies on it.                               *)
(***************************************************************************)

RxDmaFetch ==
    /\ rxdma.run = "fetch"
    /\ rxdma' = [rxdma EXCEPT !.run = "run",
                              !.flow = rd_ring[rxdma.cur].flow,
                              !.addr = rd_ring[rxdma.cur].addr]
    /\ UNCHANGED <<rxDrvVars, rxPollVars, rx_dscptr_prv, rx_irqdone, wire>>

\* The next work unit of the frame on the wire, and the wire after it.
Arrival(wu, after) ==
    \/ /\ wire.n = 0
       /\ \E p \in Payload : wu = Wu("sof", p) /\ after = [n |-> 1, pay |-> p]
    \/ /\ wire.n \in 1 .. MaxDataWus - 1
       /\ wu = Wu("fup", wire.pay)
       /\ after = [wire EXCEPT !.n = @ + 1]
    \/ /\ wire.n > 0
       /\ \E k \in {"stat", "err"} : wu = Wu(k, wire.pay)
       /\ after = WireIdle

Arriving == {Wu(k, p) : k \in WuKinds \ {"none", "bad"}, p \in Payload}
WireStates == [n : 0 .. MaxDataWus, pay : Payload]

\* The first beat of a work unit: its header is in memory.
RxDmaFirstBeat ==
    /\ rxdma.run = "run"
    /\ \/ \E wu \in Arriving, after \in WireStates :
            /\ Arrival(wu, after)
            /\ rx_wu' = [rx_wu EXCEPT ![rxdma.cur] = wu]
            /\ wire' = after
       \/ /\ "bad" \in RxFaults
          /\ rx_wu' = [rx_wu EXCEPT ![rxdma.cur] = Wu("bad", SomePayload)]
          /\ UNCHANGED wire
    /\ rxdma' = [rxdma EXCEPT !.run = "write"]
    /\ UNCHANGED <<rx_skb_dma, rd_ring, rx_next_done, prev_rx_skb, rx_last,
                   rxPollVars, rx_dscptr_prv, rx_irqdone>>

\* A work unit of the frame on the wire never reaches the DMA.
WuLost ==
    /\ "lost" \in RxFaults
    /\ \E wu \in Arriving, after \in WireStates : Arrival(wu, after) /\ wire' = after
    /\ UNCHANGED <<rxDrvVars, rxPollVars, rxdma, rx_dscptr_prv, rx_irqdone>>

\* The rest of the work unit, then DSCPTR_PRV and IRQDONE; the DMA goes on
\* to the next descriptor or halts.
RxDmaDone ==
    /\ rxdma.run = "write"
    /\ rx_wu' = [rx_wu EXCEPT ![rxdma.cur].done = TRUE]
    /\ rx_dscptr_prv' = rxdma.cur
    /\ rx_irqdone' = TRUE
    /\ rxdma' = IF rxdma.flow = "dscl" THEN RxDmaAt(RxSlotAfter(rxdma.cur))
                                       ELSE RxDmaHalted
    /\ UNCHANGED <<rx_skb_dma, rd_ring, rx_next_done, prev_rx_skb, rx_last,
                   rxPollVars, wire>>

-----------------------------------------------------------------------------
RxPollStep == RxRead \/ RxCheck \/ RxTake \/ RxRecycle \/ RxLink \/ RxAck \/ RxHalt

RxDmaStep == RxDmaFetch \/ RxDmaDone

RxNext == RxIrq \/ RxPollStep \/ RxDmaStep \/ RxDmaFirstBeat \/ WuLost

\* An enabled interrupt is delivered, NAPI polls what is scheduled, a running
\* poll keeps running, and the DMA finishes what it started.  Nothing makes
\* frames arrive.
RxFairness == WF_rxVars(RxIrq) /\ WF_rxVars(RxPollStep) /\ WF_rxVars(RxDmaStep)

RxSpec     == RxInit /\ [][RxNext]_rxVars
RxFairSpec == RxSpec /\ RxFairness

-----------------------------------------------------------------------------
(***************************************************************************)
(* Properties.                                                             *)
(***************************************************************************)

\* The oldest slot whose work unit the poll has not taken yet.
FirstUntaken == IF rxPc \in {"recycle", "link", "ack"} THEN RxSlotAfter(rx_next_done)
                                                       ELSE rx_next_done

RxRingType ==
    /\ rx_wu \in [RxSlots -> WorkUnit]
    /\ rx_skb_dma \in [RxSlots -> {0, 1}]
    /\ rd_ring \in [RxSlots -> [addr : {0, 1}, flow : {"stop", "dscl"}]]
    /\ rx_next_done \in RxSlots

\* There is room in prev_rx_skb[] for one more work unit.
PrevRxType ==
    /\ prev_rx_skb \in Seq(WorkUnit) /\ Len(prev_rx_skb) < PREV_RX_SKB_NUM
    /\ rx_last \in RxFrame

RxPollType ==
    /\ rxPc \in {"idle", "loop", "check", "take", "recycle", "link", "ack", "halt"}
    /\ rxCount \in 0 .. Budget
    /\ rxPc \in {"check", "take"} => rxCount < Budget

RxFlagType ==
    rx_int_en \in BOOLEAN /\ rxCached \in BOOLEAN /\ rx_irqdone \in BOOLEAN

RxHwType ==
    /\ rxdma \in [run : {"halt", "fetch", "run", "write"}, cur : RxSlots,
                  flow : {"stop", "dscl"}, addr : {0, 1}]
    /\ rx_dscptr_prv \in RxSlots
    /\ wire \in WireStates

\* The state is well formed.  The bound on prev_rx_skb is what keeps the
\* stores to prev_rx_skb[prev_rx_skb_count] inside the array: whatever order
\* of work units the interface produces, there is room for one more.
RxTypeOK == RxRingType /\ PrevRxType /\ RxPollType /\ RxFlagType /\ RxHwType

\* The DMA is only ever directed to a descriptor whose work unit the poll has
\* taken: what it received is never written over, and a restart happens only
\* when "all completed rds have been done".
RxNotOverwritten ==
    rxdma.run \in {"fetch", "run"} => rx_wu[rxdma.cur].kind = "none"

\* The DMA writes into the buffer the driver has mapped for the slot, never
\* into one that was unmapped and passed to the stack.
RxBufferOwned ==
    rxdma.run \in {"run", "write"} => rxdma.addr = rx_skb_dma[rxdma.cur]

\* A work unit is taken out of the ring only when all of it is in memory.
RxTakesComplete == rxPc = "take" => rx_wu[rx_next_done].done

\* Reception never stops for good: a Rx DMA that ran into the end of the ring
\* is started again.
RxDmaRestarts == (rxdma.run = "halt") ~> (rxdma.run # "halt")
=============================================================================
