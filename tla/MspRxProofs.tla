---------------------------- MODULE MspRxProofs ----------------------------
(***************************************************************************)
(* Proofs about the receive path, for every ring size, array size, budget, *)
(* set of payloads and set of faults.                                      *)
(***************************************************************************)
EXTENDS MspRxRefinement, FiniteSetTheorems, TLAPS

\* The successor and predecessor of a slot are slots: (i + 1) & MASK and
\* (i - 1) & MASK stay inside the ring.
LEMMA RxSlotFacts ==
    /\ 0 \in RxSlots /\ NUM_RDS - 1 \in RxSlots
    /\ \A i \in RxSlots : RxSlotAfter(i) \in RxSlots /\ RxSlotBefore(i) \in RxSlots
BY RxConstants DEF RxSlots, RxSlotAfter, RxSlotBefore

\* Every work unit the model builds is one, the empty one included.
LEMMA WuFacts ==
    /\ SomePayload \in Payload
    /\ \A k \in WuKinds, p \in Payload : Wu(k, p) \in WorkUnit
    /\ NoWu \in WorkUnit
    /\ WireIdle \in WireStates
<1>1. SomePayload \in Payload
  BY RxConstants DEF SomePayload
<1>2. FALSE \in BOOLEAN
  OBVIOUS
<1>3. \A k \in WuKinds, p \in Payload : Wu(k, p) \in WorkUnit
  BY <1>2 DEF Wu, WorkUnit
<1>4. "none" \in WuKinds
  BY DEF WuKinds
<1>5. WireIdle \in WireStates
  BY <1>1, RxConstants DEF WireIdle, WireStates
<1> QED
  BY <1>1, <1>3, <1>4, <1>5 DEF NoWu

\* What a step leaves alone stays as it was.
LEMMA RxSameParts ==
    /\ RxRingType /\ UNCHANGED <<rx_wu, rx_skb_dma, rd_ring, rx_next_done>> => RxRingType'
    /\ PrevRxType /\ UNCHANGED <<prev_rx_skb, rx_last>> => PrevRxType'
    /\ RxPollType /\ UNCHANGED <<rxPc, rxCount>> => RxPollType'
    /\ RxFlagType /\ UNCHANGED <<rx_int_en, rxCached, rx_irqdone>> => RxFlagType'
    /\ RxHwType /\ UNCHANGED <<rxdma, rx_dscptr_prv, wire>> => RxHwType'
BY DEF RxRingType, PrevRxType, RxPollType, RxFlagType, RxHwType

\* What adi_msp_open leaves is well formed.
LEMMA RxInitType == RxInit => RxTypeOK
<1> SUFFICES ASSUME RxInit PROVE RxTypeOK
  OBVIOUS
<1>1. RxRingType
  BY RxSlotFacts, WuFacts DEF RxInit, RxRingType
<1>2. PrevRxType
  BY WuFacts, RxConstants DEF RxInit, PrevRxType, RxFrame, DATA_WU_PER_FRAME
<1>3. RxPollType
  BY RxConstants DEF RxInit, RxPollType
<1>4. RxFlagType
  BY Zenon DEF RxInit, RxFlagType
<1>5. RxHwType
  BY RxSlotFacts, WuFacts DEF RxInit, RxHwType, RxDmaAt, RxDmaHalted
<1> QED
  BY <1>1, <1>2, <1>3, <1>4, <1>5 DEF RxTypeOK

\* Leaving adi_msp_rx_poll keeps its position and its flags well formed.
LEMMA RxReturnTypes ==
    ASSUME NEW n \in 0 .. Budget, RxFlagType, RxPollReturn(n)
    PROVE  RxPollType' /\ rx_int_en' \in BOOLEAN /\ rxCached' \in BOOLEAN
<1>1. RxPollType'
  BY RxConstants DEF RxPollReturn, RxPollType
<1>2. rx_int_en' \in BOOLEAN /\ rxCached' \in BOOLEAN
  BY Zenon DEF RxPollReturn, RxFlagType
<1> QED
  BY <1>1, <1>2

\* Sorting a work unit by its header leaves room in prev_rx_skb[] for one
\* more, and keeps the count of frames within the budget.
LEMMA SortTypes ==
    ASSUME NEW wu \in WorkUnit, PrevRxType, rxCount \in 0 .. Budget, rxCount < Budget,
           TakeSof(wu) \/ TakeFollowUp(wu) \/ TakeStatus(wu) \/ TakeInvalid(wu)
    PROVE  PrevRxType' /\ rxCount' \in 0 .. Budget
<1>1. CASE TakeSof(wu)
  <2>1. <<wu>> \in Seq(WorkUnit) /\ Len(<<wu>>) = 1
    OBVIOUS
  <2>2. prev_rx_skb' \in Seq(WorkUnit) /\ Len(prev_rx_skb') = 1
    BY <1>1, <2>1, Zenon DEF TakeSof
  <2>3. Len(prev_rx_skb') < PREV_RX_SKB_NUM
    BY <2>2, RxConstants DEF DATA_WU_PER_FRAME
  <2>4. rx_last' = rx_last /\ rxCount' = rxCount
    BY <1>1 DEF TakeSof
  <2> QED
    BY <2>2, <2>3, <2>4 DEF PrevRxType
<1>2. CASE TakeFollowUp(wu)
  <2>1. CASE prev_rx_skb = << >> \/ PrevFull
    <3>1. prev_rx_skb' = << >> /\ rx_last' = rx_last /\ rxCount' = rxCount
      BY <1>2, <2>1 DEF TakeFollowUp, DropPrev
    <3>2. prev_rx_skb' \in Seq(WorkUnit) /\ Len(prev_rx_skb') < PREV_RX_SKB_NUM
      BY <3>1, RxConstants DEF DATA_WU_PER_FRAME
    <3> QED
      BY <3>1, <3>2 DEF PrevRxType
  <2>2. CASE ~(prev_rx_skb = << >> \/ PrevFull)
    <3>1. prev_rx_skb' = Append(prev_rx_skb, wu)
      BY <1>2, <2>2 DEF TakeFollowUp
    <3>2. Len(Append(prev_rx_skb, wu)) = Len(prev_rx_skb) + 1
          /\ Append(prev_rx_skb, wu) \in Seq(WorkUnit)
          /\ Len(prev_rx_skb) \in Nat
      BY DEF PrevRxType
    <3>3. Len(prev_rx_skb) + 1 < PREV_RX_SKB_NUM
      BY <2>2, <3>2, RxConstants DEF PrevFull, PrevRxType
    <3> QED
      BY <1>2, <3>1, <3>2, <3>3 DEF TakeFollowUp, PrevRxType
  <2> QED
    BY <2>1, <2>2
<1>3. CASE TakeStatus(wu)
  <2>1. rx_last' \in RxFrame
    <3>1. CASE wu.kind = "err" \/ prev_rx_skb = << >> \/ Oversize
      BY <1>3, <3>1 DEF TakeStatus, PrevRxType
    <3>2. CASE ~(wu.kind = "err" \/ prev_rx_skb = << >> \/ Oversize)
      <4>1. prev_rx_skb[1] \in WorkUnit
        BY <3>2 DEF PrevRxType
      <4>2. prev_rx_skb[1].pay \in Payload /\ wu.pay \in Payload
        BY <4>1, Zenon DEF WorkUnit
      <4> QED
        BY <1>3, <3>2, <4>2 DEF TakeStatus, RxFrame
    <3> QED
      BY <3>1, <3>2
  <2>2. prev_rx_skb' = << >> /\ rxCount' \in {rxCount, rxCount + 1}
    BY <1>3 DEF TakeStatus, DropPrev
  <2>3. rxCount' \in 0 .. Budget
    BY <2>2, RxConstants
  <2> QED
    BY <2>1, <2>2, <2>3, RxConstants DEF PrevRxType, DATA_WU_PER_FRAME
<1>4. CASE TakeInvalid(wu)
  BY <1>4, RxConstants DEF TakeInvalid, DropPrev, PrevRxType, DATA_WU_PER_FRAME
<1> QED
  BY <1>1, <1>2, <1>3, <1>4

\* Every step of interrupt, poll and DMA keeps the state well formed.
LEMMA RxStepType == RxTypeOK /\ [RxNext]_rxVars => RxTypeOK'
<1> SUFFICES ASSUME RxTypeOK, [RxNext]_rxVars PROVE RxTypeOK'
  OBVIOUS
<1> USE DEF RxTypeOK
<1>1. CASE RxIrq
  <2>1. RxRingType' /\ PrevRxType' /\ RxHwType'
    BY <1>1, RxSameParts DEF RxIrq, rxDrvVars, rxHwVars
  <2>2. RxPollType'
    BY <1>1 DEF RxIrq, RxPollType
  <2>3. RxFlagType'
    BY <1>1, Zenon DEF RxIrq, RxFlagType, rxHwVars
  <2> QED
    BY <2>1, <2>2, <2>3
<1>2. CASE RxRead
  <2>1. RxRingType' /\ PrevRxType' /\ RxHwType'
    BY <1>2, RxSameParts DEF RxRead, rxDrvVars, rxHwVars
  <2>2. RxPollType'
    BY <1>2, RxConstants DEF RxRead, RxPollType
  <2>3. RxFlagType'
    BY <1>2, Zenon DEF RxRead, RxFlagType, rxHwVars
  <2> QED
    BY <2>1, <2>2, <2>3
<1>3. CASE RxCheck
  <2>1. RxRingType' /\ PrevRxType' /\ RxHwType'
    BY <1>3, RxSameParts DEF RxCheck, rxDrvVars, rxHwVars
  <2>2. RxPollType'
    BY <1>3 DEF RxCheck, RxPollType
  <2>3. RxFlagType'
    BY <1>3, RxSameParts DEF RxCheck, rxHwVars
  <2> QED
    BY <2>1, <2>2, <2>3
<1>4. CASE RxTake
  <2>1. RxHwType' /\ RxFlagType'
    BY <1>4, RxSameParts DEF RxTake, rxHwVars
  <2>2. CASE rxPc' = "halt" /\ UNCHANGED <<rx_wu, rx_skb_dma, prev_rx_skb, rx_last, rxCount>>
    <3>1. RxRingType' /\ PrevRxType'
      BY <1>4, <2>2, RxSameParts DEF RxTake
    <3>2. RxPollType'
      BY <2>2 DEF RxPollType
    <3> QED
      BY <2>1, <3>1, <3>2
  <2>3. CASE /\ SwapBuffer(rx_next_done)
             /\ rxPc' = "recycle"
             /\ \/ TakeSof(rx_wu[rx_next_done]) \/ TakeFollowUp(rx_wu[rx_next_done])
                \/ TakeStatus(rx_wu[rx_next_done]) \/ TakeInvalid(rx_wu[rx_next_done])
    <3>1. RxRingType'
      BY <1>4, <2>3, WuFacts DEF RxTake, SwapBuffer, RxRingType
    <3>2. rx_wu[rx_next_done] \in WorkUnit
      BY DEF RxRingType
    <3>3. rxCount \in 0 .. Budget /\ rxCount < Budget
      BY <1>4 DEF RxTake, RxPollType
    <3>4. PrevRxType' /\ rxCount' \in 0 .. Budget
      BY <2>3, <3>2, <3>3, SortTypes
    <3>5. RxPollType'
      BY <2>3, <3>4 DEF RxPollType
    <3> QED
      BY <2>1, <3>1, <3>4, <3>5
  <2> QED
    BY <1>4, <2>2, <2>3 DEF RxTake
<1>5. CASE RxRecycle
  <2>1. PrevRxType' /\ RxHwType' /\ RxFlagType'
    BY <1>5, RxSameParts DEF RxRecycle, rxHwVars
  <2>2. RxRingType'
    BY <1>5 DEF RxRecycle, RxRingType, RecycledDesc
  <2>3. RxPollType'
    BY <1>5 DEF RxRecycle, RxPollType
  <2> QED
    BY <2>1, <2>2, <2>3
<1>6. CASE RxLink
  <2>1. PrevRxType' /\ RxHwType' /\ RxFlagType'
    BY <1>6, RxSameParts DEF RxLink, rxHwVars
  <2>2. RxRingType'
    BY <1>6, RxSlotFacts DEF RxLink, RxRingType
  <2>3. RxPollType'
    BY <1>6 DEF RxLink, RxPollType
  <2> QED
    BY <2>1, <2>2, <2>3
<1>7. CASE RxAck
  <2>1. PrevRxType' /\ RxHwType'
    BY <1>7, RxSameParts DEF RxAck
  <2>2. RxRingType'
    BY <1>7, RxSlotFacts DEF RxAck, RxRingType
  <2>3. RxPollType'
    BY <1>7 DEF RxAck, RxPollType
  <2>4. RxFlagType'
    BY <1>7, Zenon DEF RxAck, RxFlagType
  <2> QED
    BY <2>1, <2>2, <2>3, <2>4
<1>8. CASE RxHalt
  <2>1. RxRingType' /\ PrevRxType'
    BY <1>8, RxSameParts DEF RxHalt, rxDrvVars
  <2>2. rxCount \in 0 .. Budget /\ (rxCount < Budget => rxCount \in 0 .. Budget)
        /\ Budget - 1 \in 0 .. Budget
    BY RxConstants DEF RxPollType
  <2>3. \/ RxPollReturn(rxCount) /\ UNCHANGED <<rxdma, rx_irqdone>>
        \/ /\ rx_irqdone' = FALSE
           /\ rxdma' = RxDmaAt(RxRestartSlot)
           /\ \E n \in 0 .. Budget : RxPollReturn(n)
        \/ /\ rxPc' = "loop" /\ rxCached' = FALSE
           /\ UNCHANGED <<rxCount, rx_int_en, rxdma, rx_irqdone>>
    BY <1>8, <2>2 DEF RxHalt
  <2>4. rx_dscptr_prv' = rx_dscptr_prv /\ wire' = wire
    BY <1>8 DEF RxHalt
  <2>5. CASE RxPollReturn(rxCount) /\ UNCHANGED <<rxdma, rx_irqdone>>
    <3>1. RxHwType'
      BY <2>4, <2>5, RxSameParts
    <3>2. RxPollType' /\ rx_int_en' \in BOOLEAN /\ rxCached' \in BOOLEAN
      BY <2>2, <2>5, RxReturnTypes
    <3>3. RxFlagType'
      BY <2>5, <3>2, Zenon DEF RxFlagType
    <3> QED
      BY <2>1, <3>1, <3>2, <3>3
  <2>6. CASE /\ rx_irqdone' = FALSE
             /\ rxdma' = RxDmaAt(RxRestartSlot)
             /\ \E n \in 0 .. Budget : RxPollReturn(n)
    <3>1. RxHwType'
      BY <2>4, <2>6, RxSlotFacts
         DEF RxHwType, RxDmaAt, RxDmaHalted, RxRestartSlot, RxRingType
    <3>2. RxPollType' /\ rx_int_en' \in BOOLEAN /\ rxCached' \in BOOLEAN
      BY <2>6, RxReturnTypes
    <3>3. RxFlagType'
      BY <2>6, <3>2, Zenon DEF RxFlagType
    <3> QED
      BY <2>1, <3>1, <3>2, <3>3
  <2>7. CASE /\ rxPc' = "loop" /\ rxCached' = FALSE
             /\ UNCHANGED <<rxCount, rx_int_en, rxdma, rx_irqdone>>
    <3>1. RxHwType'
      BY <2>4, <2>7, RxSameParts
    <3>2. RxPollType'
      BY <2>7 DEF RxPollType
    <3>3. RxFlagType'
      BY <2>7, Zenon DEF RxFlagType
    <3> QED
      BY <2>1, <3>1, <3>2, <3>3
  <2> QED
    BY <2>3, <2>5, <2>6, <2>7
<1>9. CASE RxDmaFetch
  <2>1. RxRingType' /\ PrevRxType' /\ RxPollType' /\ RxFlagType'
    BY <1>9, RxSameParts DEF RxDmaFetch, rxDrvVars, rxPollVars
  <2>2. RxHwType'
    BY <1>9 DEF RxDmaFetch, RxHwType, RxRingType
  <2> QED
    BY <2>1, <2>2
<1>10. CASE RxDmaDone
  <2>1. PrevRxType' /\ RxPollType'
    BY <1>10, RxSameParts DEF RxDmaDone, rxPollVars
  <2>2. RxFlagType'
    BY <1>10, Zenon DEF RxDmaDone, rxPollVars, RxFlagType
  <2>3. RxRingType'
    <3>1. rx_wu' = [rx_wu EXCEPT ![rxdma.cur].done = TRUE]
      BY <1>10 DEF RxDmaDone
    <3>2. rx_wu \in [RxSlots -> WorkUnit] /\ rxdma.cur \in RxSlots
      BY DEF RxRingType, RxHwType
    <3>3. [rx_wu[rxdma.cur] EXCEPT !.done = TRUE] \in WorkUnit
      BY <3>2, Zenon DEF WorkUnit
    <3>4. rx_wu' \in [RxSlots -> WorkUnit]
      BY <3>1, <3>2, <3>3
    <3> QED
      BY <1>10, <3>4 DEF RxDmaDone, RxRingType
  <2>4. RxHwType'
    BY <1>10, RxSlotFacts DEF RxDmaDone, RxHwType, RxDmaAt, RxDmaHalted
  <2> QED
    BY <2>1, <2>2, <2>3, <2>4
<1>11. CASE RxDmaFirstBeat
  <2>1. PrevRxType' /\ RxPollType' /\ RxFlagType'
    BY <1>11, RxSameParts DEF RxDmaFirstBeat, rxPollVars
  <2>2. Arriving \subseteq WorkUnit /\ Wu("bad", SomePayload) \in WorkUnit
    BY WuFacts DEF Arriving, WuKinds
  <2>3. \E wu \in WorkUnit : rx_wu' = [rx_wu EXCEPT ![rxdma.cur] = wu]
    BY <1>11, <2>2 DEF RxDmaFirstBeat
  <2>4. RxRingType'
    BY <1>11, <2>3 DEF RxDmaFirstBeat, RxRingType
  <2>5. wire' \in WireStates
    BY <1>11 DEF RxDmaFirstBeat, RxHwType
  <2>6. RxHwType'
    BY <1>11, <2>5 DEF RxDmaFirstBeat, RxHwType
  <2> QED
    BY <2>1, <2>4, <2>6
<1>12. CASE WuLost
  <2>1. RxRingType' /\ PrevRxType' /\ RxPollType' /\ RxFlagType'
    BY <1>12, RxSameParts DEF WuLost, rxDrvVars, rxPollVars
  <2>2. RxHwType'
    BY <1>12 DEF WuLost, RxHwType
  <2> QED
    BY <2>1, <2>2
<1>13. CASE UNCHANGED rxVars
  BY <1>13, RxSameParts DEF rxVars, rxDrvVars, rxPollVars, rxHwVars
<1> QED
  BY <1>1, <1>2, <1>3, <1>4, <1>5, <1>6, <1>7, <1>8, <1>9, <1>10, <1>11, <1>12, <1>13
     DEF RxNext, RxPollStep, RxDmaStep

\* adi_msp_rx keeps the receive state well formed whatever work units the
\* interface produces, in whatever order, garbled and lost ones included: in
\* particular it never stores beyond the end of prev_rx_skb[].
THEOREM RxTypeCorrect == RxSpec => []RxTypeOK
<1>1. RxInit => RxTypeOK
  BY RxInitType
<1>2. RxTypeOK /\ [RxNext]_rxVars => RxTypeOK'
  BY RxStepType
<1> QED
  BY <1>1, <1>2, PTL DEF RxSpec

-----------------------------------------------------------------------------
(***************************************************************************)
(* The ring: the DMA fills it from the oldest free slot on, the poll       *)
(* empties it from the oldest filled one on, and the descriptor before the *)
(* first untaken slot stops the DMA.                                       *)
(***************************************************************************)

\* How many slots after the oldest untaken slot the slot i comes.
RxOffset(from, to) == IF to >= from THEN to - from ELSE to + NUM_RDS - from
Age(i) == RxOffset(FirstUntaken, i)

\* The slot whose descriptor stops the DMA.
LastSlot == IF rxPc = "ack" THEN rx_next_done ELSE RxSlotBefore(rx_next_done)

DmaActive == rxdma.run # "halt"
DmaLatched == rxdma.run \in {"run", "write"}

\* The slots whose work unit is complete, and those with a header in place.
Done   == {i \in RxSlots : rx_wu[i].done}
Filled == {i \in RxSlots : rx_wu[i].kind # "none"}

\* A filled buffer is complete, or the DMA is writing it.
FilledOrWriting ==
    /\ Done \subseteq Filled
    /\ \A i \in Filled : i \in Done \/ (rxdma.run = "write" /\ rxdma.cur = i)
    /\ rxdma.run = "write" => rxdma.cur \in Filled

\* The complete work units are the oldest slots: those the running DMA has
\* left behind.
FilledInOrder ==
    /\ DmaActive => \A i \in RxSlots : i \in Done <=> Age(i) < Age(rxdma.cur)
    /\ \A i \in Done, j \in RxSlots : Age(j) < Age(i) => j \in Done

\* DSCPTR_PRV is the youngest of them, or the one that was taken last.
PrevIsYoungest ==
    /\ \A i \in Done : rx_dscptr_prv \in Done /\ Age(i) <= Age(rx_dscptr_prv)
    /\ rx_dscptr_prv \in Done \/ rx_dscptr_prv = RxSlotBefore(FirstUntaken)
    /\ DmaActive => rx_dscptr_prv # rxdma.cur

\* The DMA does not run past the last slot.
StopsAtLast ==
    /\ rd_ring[LastSlot].flow = "stop"
    /\ rxPc \in {"link", "ack"} => rd_ring[rx_next_done].flow = "stop"
    /\ DmaLatched /\ rxdma.cur = LastSlot => rxdma.flow = "stop"
    /\ DmaActive /\ rxPc \in {"recycle", "link"} => rxdma.cur # rx_next_done

\* The addresses in the descriptors are those of the buffers, but for the
\* one the poll is putting back.
AddressesMatch ==
    /\ \A i \in RxSlots :
         (rxPc = "recycle" /\ i = rx_next_done) \/ rd_ring[i].addr = rx_skb_dma[i]
    /\ DmaLatched => rxdma.addr = rx_skb_dma[rxdma.cur]

\* What the poll has seen of the slot it looks at.
PollKnows ==
    /\ rxPc = "check" => rx_next_done \in Filled
    /\ rxPc = "take" => rx_next_done \in Done

RingOrder == FilledOrWriting /\ FilledInOrder /\ PrevIsYoungest
RingLinks == StopsAtLast /\ AddressesMatch
RxRingInv == RxTypeOK /\ RingOrder /\ RingLinks /\ PollKnows

\* Neighbours in the ring are different slots, and undo each other.
LEMMA RxNeighbours ==
    \A i \in RxSlots : /\ RxSlotAfter(i) # i /\ RxSlotBefore(i) # i
                       /\ RxSlotBefore(RxSlotAfter(i)) = i
                       /\ RxSlotAfter(RxSlotBefore(i)) = i
BY RxConstants DEF RxSlots, RxSlotAfter, RxSlotBefore

\* Ages: their range, which slot has age 0, and that no two are equal.
LEMMA AgeFacts ==
    /\ \A a \in RxSlots, i \in RxSlots : RxOffset(a, i) \in 0 .. NUM_RDS - 1
    /\ \A a \in RxSlots : RxOffset(a, a) = 0
    /\ \A a \in RxSlots, i \in RxSlots : RxOffset(a, i) = 0 => i = a
    /\ \A a \in RxSlots, i \in RxSlots, j \in RxSlots : RxOffset(a, i) = RxOffset(a, j) => i = j
BY RxConstants DEF RxOffset, RxSlots

\* Taking the oldest slot makes every other slot older by one, and itself
\* the youngest.
LEMMA AgeAfterTake ==
    \A a \in RxSlots, i \in RxSlots :
      RxOffset(RxSlotAfter(a), i) = IF i = a THEN NUM_RDS - 1 ELSE RxOffset(a, i) - 1
BY RxConstants DEF RxOffset, RxSlots, RxSlotAfter

\* The DMA moves on to a slot younger by one, unless that is the oldest.
LEMMA AgeOfNext ==
    \A a \in RxSlots, i \in RxSlots :
      RxSlotAfter(i) # a => RxOffset(a, RxSlotAfter(i)) = RxOffset(a, i) + 1
BY RxConstants DEF RxOffset, RxSlots, RxSlotAfter

\* The ends of the ring and the registers are slots.
LEMMA RingSlots ==
    ASSUME RxTypeOK
    PROVE  /\ rx_next_done \in RxSlots /\ FirstUntaken \in RxSlots /\ LastSlot \in RxSlots
           /\ rxdma.cur \in RxSlots /\ rx_dscptr_prv \in RxSlots
           /\ Done \subseteq RxSlots /\ Filled \subseteq RxSlots
BY RxSlotFacts
   DEF RxTypeOK, RxRingType, RxHwType, FirstUntaken, LastSlot, Done, Filled

\* Buffers that are not touched keep their state.
LEMMA SameBuffers == ASSUME UNCHANGED rx_wu PROVE Done' = Done /\ Filled' = Filled
BY DEF Done, Filled

\* The ring after adi_msp_open.
LEMMA RxInitRing == RxInit => RxRingInv
<1> SUFFICES ASSUME RxInit PROVE RxRingInv
  OBVIOUS
<1>1. RxTypeOK
  BY RxInitType
<1>2. Done = {} /\ Filled = {}
  BY Zenon DEF RxInit, Done, Filled, NoWu, Wu
<1>3. FirstUntaken = 0 /\ rxdma.cur = 0 /\ rxdma.run = "fetch" /\ rx_dscptr_prv = NUM_RDS - 1
  BY DEF RxInit, FirstUntaken, RxDmaAt, RxDmaHalted
<1>4. FilledOrWriting
  BY <1>2, <1>3 DEF FilledOrWriting
<1>5. FilledInOrder
  BY <1>2, <1>3, RxSlotFacts, AgeFacts DEF FilledInOrder, Age
<1>6. PrevIsYoungest
  BY <1>2, <1>3, RxConstants DEF PrevIsYoungest, RxSlotBefore
<1>7. LastSlot = NUM_RDS - 1 /\ rd_ring[NUM_RDS - 1].flow = "stop"
  BY RxSlotFacts DEF RxInit, LastSlot, RxSlotBefore
<1>8. StopsAtLast
  BY <1>3, <1>7 DEF StopsAtLast, RxInit, DmaLatched
<1>9. AddressesMatch
  BY <1>3 DEF AddressesMatch, RxInit, DmaLatched
<1>10. PollKnows
  BY DEF PollKnows, RxInit
<1> QED
  BY <1>1, <1>4, <1>5, <1>6, <1>8, <1>9, <1>10 DEF RxRingInv, RingOrder, RingLinks

\* While the poll only looks, the ring stays as it is.
LEMMA LookingKeepsRing ==
    ASSUME RxRingInv,
           rxPc \in {"idle", "loop", "check", "take", "halt"},
           rxPc' \in {"idle", "loop", "check", "take", "halt"},
           UNCHANGED <<rx_wu, rx_skb_dma, rd_ring, rx_next_done, rxdma, rx_dscptr_prv>>
    PROVE  RingOrder' /\ RingLinks'
<1>1. Done' = Done /\ Filled' = Filled
  BY SameBuffers
<1>2. FirstUntaken' = FirstUntaken /\ LastSlot' = LastSlot
  BY DEF FirstUntaken, LastSlot
<1>3. RingOrder'
  BY <1>1, <1>2 DEF RxRingInv, RingOrder, FilledOrWriting, FilledInOrder, PrevIsYoungest,
                    Age, DmaActive
<1>4. RingLinks'
  BY <1>2 DEF RxRingInv, RingLinks, StopsAtLast, AddressesMatch, DmaActive, DmaLatched
<1> QED
  BY <1>3, <1>4

\* Taking the oldest work unit: the DMA is not at its slot.
LEMMA TakeKeepsRing ==
    ASSUME RxRingInv, rxPc = "take", rxPc' = "recycle", SwapBuffer(rx_next_done),
           UNCHANGED <<rd_ring, rx_next_done, rxdma, rx_dscptr_prv>>
    PROVE  RingOrder' /\ RingLinks' /\ Done' = Done \ {rx_next_done}
<1> DEFINE d == rx_next_done
<1>1. d \in RxSlots /\ rxdma.cur \in RxSlots /\ rx_dscptr_prv \in RxSlots
      /\ Done \subseteq RxSlots /\ Filled \subseteq RxSlots
  BY RingSlots DEF RxRingInv
<1>2. FirstUntaken = d /\ FirstUntaken' = RxSlotAfter(d)
      /\ LastSlot = RxSlotBefore(d) /\ LastSlot' = LastSlot
  BY DEF FirstUntaken, LastSlot
<1>3. d \in Done
  BY DEF RxRingInv, PollKnows
<1>4. Done' = Done \ {d} /\ Filled' = Filled \ {d}
  <2>1. rx_wu' = [rx_wu EXCEPT ![d] = NoWu] /\ d \in DOMAIN rx_wu /\ DOMAIN rx_wu = RxSlots
    BY <1>1 DEF SwapBuffer, RxRingInv, RxTypeOK, RxRingType
  <2>2. NoWu.done = FALSE /\ NoWu.kind = "none"
    BY DEF NoWu, Wu
  <2> QED
    BY <2>1, <2>2, Zenon DEF Done, Filled
<1>5. DmaActive => rxdma.cur # d
  BY <1>1, <1>2, <1>3, AgeFacts DEF RxRingInv, RingOrder, FilledInOrder, Age
<1>6. \A i \in RxSlots : i # d =>
         RxOffset(RxSlotAfter(d), i) = RxOffset(d, i) - 1
  BY <1>1, AgeAfterTake
<1>7. RxOffset(RxSlotAfter(d), d) = NUM_RDS - 1
  BY <1>1, AgeAfterTake
<1>8. \A i \in RxSlots : RxOffset(d, i) \in 0 .. NUM_RDS - 1 /\ (i # d => RxOffset(d, i) > 0)
  BY <1>1, AgeFacts
<1>9. FilledOrWriting'
  BY <1>4, <1>5 DEF RxRingInv, RingOrder, FilledOrWriting, DmaActive
<1>10. FilledInOrder'
  <2>1. DmaActive' => \A i \in RxSlots : i \in Done' <=> Age(i)' < Age(rxdma.cur)'
    <3> SUFFICES ASSUME DmaActive', NEW i \in RxSlots
                 PROVE  i \in Done' <=> RxOffset(RxSlotAfter(d), i) < RxOffset(RxSlotAfter(d), rxdma.cur)
      BY <1>2 DEF Age
    <3>1. i \in Done <=> RxOffset(d, i) < RxOffset(d, rxdma.cur)
      BY <1>2 DEF RxRingInv, RingOrder, FilledInOrder, Age, DmaActive
    <3>2. rxdma.cur # d
      BY <1>5 DEF DmaActive
    <3>3. RxOffset(RxSlotAfter(d), rxdma.cur) = RxOffset(d, rxdma.cur) - 1
      BY <1>1, <1>6, <3>2
    <3>4. CASE i = d
      BY <1>1, <1>4, <1>7, <1>8, <3>3, <3>4, RxConstants
    <3>5. CASE i # d
      <4>1. RxOffset(RxSlotAfter(d), i) = RxOffset(d, i) - 1
        BY <1>6, <3>5
      <4>2. RxOffset(d, i) < RxOffset(d, rxdma.cur)
            <=> RxOffset(RxSlotAfter(d), i) < RxOffset(RxSlotAfter(d), rxdma.cur)
        BY <1>1, <1>8, <3>3, <4>1
      <4> QED
        BY <1>4, <3>1, <3>5, <4>2, Zenon
    <3> QED
      BY <3>4, <3>5
  <2>2. \A i \in Done', j \in RxSlots : Age(j)' < Age(i)' => j \in Done'
    <3> SUFFICES ASSUME NEW i \in Done', NEW j \in RxSlots,
                        RxOffset(RxSlotAfter(d), j) < RxOffset(RxSlotAfter(d), i)
                 PROVE  j \in Done'
      BY <1>2 DEF Age
    <3>1. i \in Done /\ i # d /\ i \in RxSlots
      BY <1>1, <1>4
    <3>2. RxOffset(RxSlotAfter(d), i) = RxOffset(d, i) - 1 /\ RxOffset(d, i) \in 0 .. NUM_RDS - 1
      BY <1>6, <1>8, <3>1
    <3>3. j # d
      BY <1>7, <3>2, RxConstants
    <3>4. RxOffset(RxSlotAfter(d), j) = RxOffset(d, j) - 1 /\ RxOffset(d, j) \in 0 .. NUM_RDS - 1
      BY <1>6, <1>8, <3>3
    <3>5. RxOffset(d, j) < RxOffset(d, i)
      BY <3>2, <3>4
    <3>6. j \in Done
      BY <1>2, <3>1, <3>5 DEF RxRingInv, RingOrder, FilledInOrder, Age
    <3> QED
      BY <1>4, <3>3, <3>6
  <2> QED
    BY <2>1, <2>2 DEF FilledInOrder
<1>11. PrevIsYoungest'
  <2>1. rx_dscptr_prv \in Done
    BY <1>3 DEF RxRingInv, RingOrder, PrevIsYoungest
  <2>2. \A i \in Done' : rx_dscptr_prv \in Done' /\ Age(i)' <= Age(rx_dscptr_prv)'
    <3> SUFFICES ASSUME NEW i \in Done'
                 PROVE  /\ rx_dscptr_prv \in Done'
                        /\ RxOffset(RxSlotAfter(d), i) <= RxOffset(RxSlotAfter(d), rx_dscptr_prv)
      BY <1>2 DEF Age
    <3>1. i \in Done /\ i # d /\ i \in RxSlots
      BY <1>1, <1>4
    <3>2. RxOffset(d, i) <= RxOffset(d, rx_dscptr_prv)
      BY <1>2, <3>1 DEF RxRingInv, RingOrder, PrevIsYoungest, Age
    <3>3. rx_dscptr_prv # d
      BY <1>1, <1>8, <3>1, <3>2, AgeFacts
    <3> QED
      BY <1>1, <1>4, <1>6, <1>8, <2>1, <3>1, <3>2, <3>3
  <2>3. rx_dscptr_prv' \in Done' \/ rx_dscptr_prv' = RxSlotBefore(FirstUntaken)'
    BY <1>1, <1>2, <1>4, <2>1, RxNeighbours
  <2>4. DmaActive' => rx_dscptr_prv' # rxdma'.cur
    BY DEF RxRingInv, RingOrder, PrevIsYoungest, DmaActive
  <2> QED
    BY <2>2, <2>3, <2>4 DEF PrevIsYoungest
<1>12. StopsAtLast'
  BY <1>2, <1>5 DEF RxRingInv, RingLinks, StopsAtLast, DmaActive, DmaLatched
<1>13. AddressesMatch'
  <2>1. \A i \in RxSlots : i # d => rx_skb_dma'[i] = rx_skb_dma[i]
    BY <1>1 DEF SwapBuffer, RxRingInv, RxTypeOK, RxRingType
  <2>2. DmaLatched => rxdma.cur # d
    BY <1>5 DEF DmaActive, DmaLatched
  <2> QED
    BY <1>1, <2>1, <2>2 DEF RxRingInv, RingLinks, AddressesMatch, DmaLatched
<1> QED
  BY <1>4, <1>9, <1>10, <1>11, <1>12, <1>13 DEF RingOrder, RingLinks

\* Putting the descriptor back as the last one: the DMA is not at its slot.
LEMMA RecycleKeepsRing ==
    ASSUME RxRingInv, RxRecycle
    PROVE  RingOrder' /\ RingLinks'
<1> DEFINE d == rx_next_done
<1>1. d \in RxSlots /\ RxSlotBefore(d) \in RxSlots /\ RxSlotBefore(d) # d
  BY RingSlots, RxSlotFacts, RxNeighbours DEF RxRingInv
<1>2. Done' = Done /\ Filled' = Filled
  BY SameBuffers DEF RxRecycle
<1>3. FirstUntaken' = FirstUntaken /\ LastSlot = RxSlotBefore(d) /\ LastSlot' = LastSlot
  BY DEF RxRecycle, FirstUntaken, LastSlot
<1>4. RingOrder'
  BY <1>2, <1>3 DEF RxRecycle, rxHwVars, RxRingInv, RingOrder, FilledOrWriting, FilledInOrder,
                    PrevIsYoungest, Age, DmaActive
<1>5. /\ rd_ring'[d] = [addr |-> rx_skb_dma[d], flow |-> "stop"]
      /\ \A i \in RxSlots : i # d => rd_ring'[i] = rd_ring[i]
  BY <1>1 DEF RxRecycle, RecycledDesc, RxRingInv, RxTypeOK, RxRingType
<1>6. StopsAtLast'
  BY <1>1, <1>3, <1>5
     DEF RxRecycle, rxHwVars, RxRingInv, RingLinks, StopsAtLast, DmaActive, DmaLatched
<1>7. AddressesMatch'
  BY <1>1, <1>5 DEF RxRecycle, rxHwVars, RxRingInv, RingLinks, AddressesMatch, DmaLatched
<1> QED
  BY <1>4, <1>6, <1>7 DEF RingLinks

\* Letting the previous descriptor continue: the last slot moves on.
LEMMA LinkKeepsRing ==
    ASSUME RxRingInv, RxLink
    PROVE  RingOrder' /\ RingLinks'
<1> DEFINE d == rx_next_done
<1>1. d \in RxSlots /\ RxSlotBefore(d) \in RxSlots /\ RxSlotBefore(d) # d
  BY RingSlots, RxSlotFacts, RxNeighbours DEF RxRingInv
<1>2. Done' = Done /\ Filled' = Filled
  BY SameBuffers DEF RxLink
<1>3. FirstUntaken' = FirstUntaken /\ LastSlot' = d
  BY DEF RxLink, FirstUntaken, LastSlot
<1>4. RingOrder'
  BY <1>2, <1>3 DEF RxLink, rxHwVars, RxRingInv, RingOrder, FilledOrWriting, FilledInOrder,
                    PrevIsYoungest, Age, DmaActive
<1>5. /\ rd_ring'[d] = rd_ring[d]
      /\ \A i \in RxSlots : rd_ring'[i].addr = rd_ring[i].addr
  BY <1>1 DEF RxLink, RxRingInv, RxTypeOK, RxRingType
<1>6. DmaActive => rxdma.cur # d
  BY DEF RxLink, RxRingInv, RingLinks, StopsAtLast
<1>7. StopsAtLast'
  BY <1>3, <1>5, <1>6
     DEF RxLink, rxHwVars, RxRingInv, RingLinks, StopsAtLast, DmaActive, DmaLatched
<1>8. AddressesMatch'
  BY <1>5 DEF RxLink, rxHwVars, RxRingInv, RingLinks, AddressesMatch, DmaLatched
<1> QED
  BY <1>4, <1>7, <1>8 DEF RingLinks

\* Advancing rx_next_done: neither end of the ring moves.
LEMMA AckKeepsRing ==
    ASSUME RxRingInv, RxAck
    PROVE  RingOrder' /\ RingLinks'
<1> DEFINE d == rx_next_done
<1>1. d \in RxSlots /\ RxSlotBefore(RxSlotAfter(d)) = d
  BY RingSlots, RxNeighbours DEF RxRingInv
<1>2. Done' = Done /\ Filled' = Filled
  BY SameBuffers DEF RxAck
<1>3. FirstUntaken' = FirstUntaken /\ LastSlot = d /\ LastSlot' = d
  BY <1>1 DEF RxAck, FirstUntaken, LastSlot
<1>4. RingOrder'
  BY <1>2, <1>3 DEF RxAck, RxRingInv, RingOrder, FilledOrWriting, FilledInOrder,
                    PrevIsYoungest, Age, DmaActive
<1>5. StopsAtLast'
  BY <1>3 DEF RxAck, RxRingInv, RingLinks, StopsAtLast, DmaActive, DmaLatched
<1>6. AddressesMatch'
  BY DEF RxAck, RxRingInv, RingLinks, AddressesMatch, DmaLatched
<1> QED
  BY <1>4, <1>5, <1>6 DEF RingLinks

\* Restarting the halted DMA at an empty oldest slot: the ring is empty.
LEMMA RestartKeepsRing ==
    ASSUME RxRingInv, rxPc = "halt", rxPc' \in {"idle", "loop"},
           rxdma.run = "halt", rx_next_done \notin Filled,
           rxdma' = RxDmaAt(RxRestartSlot),
           UNCHANGED <<rx_wu, rx_skb_dma, rd_ring, rx_next_done, rx_dscptr_prv>>
    PROVE  RingOrder' /\ RingLinks'
<1> DEFINE d == rx_next_done
<1>1. d \in RxSlots /\ rx_dscptr_prv \in RxSlots /\ Done \subseteq RxSlots
  BY RingSlots DEF RxRingInv
<1>2. Done' = Done /\ Filled' = Filled
  BY SameBuffers
<1>3. FirstUntaken = d /\ FirstUntaken' = d /\ LastSlot' = LastSlot
  BY DEF FirstUntaken, LastSlot
<1>4. rxdma'.run = "fetch" /\ rxdma'.cur = d
  BY DEF RxDmaAt, RxDmaHalted, RxRestartSlot
<1>5. d \notin Done
  BY DEF RxRingInv, RingOrder, FilledOrWriting
<1>6. Done = {}
  <2> SUFFICES ASSUME NEW i \in Done PROVE FALSE
    OBVIOUS
  <2>1. i \in RxSlots /\ i # d
    BY <1>1, <1>5
  <2>2. RxOffset(d, d) < RxOffset(d, i)
    BY <1>1, <2>1, AgeFacts
  <2> QED
    BY <1>1, <1>3, <1>5, <2>2 DEF RxRingInv, RingOrder, FilledInOrder, Age
<1>7. rx_dscptr_prv = RxSlotBefore(d) /\ rx_dscptr_prv # d
  BY <1>1, <1>3, <1>6, RxNeighbours DEF RxRingInv, RingOrder, PrevIsYoungest
<1>8. FilledOrWriting'
  BY <1>2, <1>4 DEF RxRingInv, RingOrder, FilledOrWriting
<1>9. FilledInOrder'
  BY <1>1, <1>2, <1>3, <1>4, <1>6, AgeFacts DEF FilledInOrder, Age
<1>10. PrevIsYoungest'
  BY <1>2, <1>3, <1>4, <1>6, <1>7 DEF PrevIsYoungest
<1>11. StopsAtLast'
  BY <1>3, <1>4 DEF RxRingInv, RingLinks, StopsAtLast, DmaLatched
<1>12. AddressesMatch'
  BY <1>4 DEF RxRingInv, RingLinks, AddressesMatch, DmaLatched
<1> QED
  BY <1>8, <1>9, <1>10, <1>11, <1>12 DEF RingOrder, RingLinks

\* The DMA reads its descriptor.
LEMMA FetchKeepsRing ==
    ASSUME RxRingInv, RxDmaFetch
    PROVE  RingOrder' /\ RingLinks'
<1>1. rxdma.cur \in RxSlots /\ LastSlot \in RxSlots
  BY RingSlots DEF RxRingInv
<1>2. Done' = Done /\ Filled' = Filled
  BY SameBuffers DEF RxDmaFetch, rxDrvVars
<1>3. FirstUntaken' = FirstUntaken /\ LastSlot' = LastSlot
  BY DEF RxDmaFetch, rxDrvVars, rxPollVars, FirstUntaken, LastSlot
<1>4. /\ rxdma'.run = "run" /\ rxdma'.cur = rxdma.cur
      /\ rxdma'.flow = rd_ring[rxdma.cur].flow /\ rxdma'.addr = rd_ring[rxdma.cur].addr
      /\ rxdma.run = "fetch"
  BY DEF RxDmaFetch, RxRingInv, RxTypeOK, RxHwType
<1>5. RingOrder'
  BY <1>2, <1>3, <1>4 DEF RxDmaFetch, RxRingInv, RingOrder, FilledOrWriting, FilledInOrder,
                          PrevIsYoungest, Age, DmaActive
<1>6. StopsAtLast'
  BY <1>3, <1>4 DEF RxDmaFetch, rxDrvVars, rxPollVars, RxRingInv, RingLinks, StopsAtLast,
                    DmaActive, DmaLatched
<1>7. AddressesMatch'
  BY <1>1, <1>4 DEF RxDmaFetch, rxDrvVars, rxPollVars, RxRingInv, RingLinks, StopsAtLast,
                    AddressesMatch, DmaActive, DmaLatched
<1> QED
  BY <1>5, <1>6, <1>7 DEF RingLinks

\* The first beat goes to an empty slot.
LEMMA FirstBeatKeepsRing ==
    ASSUME RxRingInv, RxDmaFirstBeat
    PROVE  RingOrder' /\ RingLinks' /\ Done' = Done /\ Filled \subseteq Filled'
<1> DEFINE c == rxdma.cur
<1>1. c \in RxSlots /\ FirstUntaken \in RxSlots
  BY RingSlots DEF RxRingInv
<1>2. rxdma.run = "run" /\ rxdma'.run = "write" /\ rxdma'.cur = c
      /\ rxdma'.flow = rxdma.flow /\ rxdma'.addr = rxdma.addr
  BY DEF RxDmaFirstBeat, RxRingInv, RxTypeOK, RxHwType
<1>3. c \notin Done
  BY <1>1, <1>2, AgeFacts DEF RxRingInv, RingOrder, FilledInOrder, Age, DmaActive
<1>4. Done' = Done /\ Filled' = Filled \cup {c}
  <2>1. PICK wu \in Arriving \cup {Wu("bad", SomePayload)} :
               rx_wu' = [rx_wu EXCEPT ![c] = wu]
    BY DEF RxDmaFirstBeat
  <2>2. wu.kind # "none"
    BY DEF Arriving, Wu, WuKinds
  <2>3. wu.done = FALSE
    <3>1. \A k, q : Wu(k, q).done = FALSE
      BY Zenon DEF Wu
    <3> QED
      BY <3>1 DEF Arriving
  <2>4. DOMAIN rx_wu = RxSlots
    BY DEF RxRingInv, RxTypeOK, RxRingType
  <2>5. Filled' = Filled \cup {c}
    BY <1>1, <2>1, <2>2, <2>4, Zenon DEF Filled
  <2>6. Done' = Done \ {c}
    BY <1>1, <2>1, <2>3, <2>4, Zenon DEF Done
  <2> QED
    BY <1>3, <2>5, <2>6
<1>5. FirstUntaken' = FirstUntaken /\ LastSlot' = LastSlot
  BY DEF RxDmaFirstBeat, rxPollVars, FirstUntaken, LastSlot
<1>6. RingOrder'
  BY <1>2, <1>4, <1>5 DEF RxDmaFirstBeat, RxRingInv, RingOrder, FilledOrWriting, FilledInOrder,
                          PrevIsYoungest, Age, DmaActive
<1>7. RingLinks'
  BY <1>2, <1>5 DEF RxDmaFirstBeat, rxPollVars, RxRingInv, RingLinks, StopsAtLast,
                    AddressesMatch, DmaActive, DmaLatched
<1> QED
  BY <1>4, <1>6, <1>7

\* Completing a work unit: the DMA goes on to the next slot, which is not the
\* oldest one, or halts.
LEMMA DoneKeepsRing ==
    ASSUME RxRingInv, RxDmaDone
    PROVE  /\ RingOrder' /\ RingLinks'
           /\ Done' = Done \cup {rxdma.cur} /\ Filled' = Filled
<1> DEFINE c == rxdma.cur
           F == FirstUntaken
<1>1. /\ c \in RxSlots /\ F \in RxSlots /\ rx_next_done \in RxSlots
      /\ RxSlotAfter(c) \in RxSlots /\ RxSlotAfter(c) # c
      /\ Done \subseteq RxSlots
  BY RingSlots, RxSlotFacts, RxNeighbours DEF RxRingInv
<1>2. rxdma.run = "write" /\ rx_dscptr_prv' = c
  BY DEF RxDmaDone
<1>3. \A i \in RxSlots : i \in Done <=> RxOffset(F, i) < RxOffset(F, c)
  BY <1>2 DEF RxRingInv, RingOrder, FilledInOrder, Age, DmaActive
<1>4. Done' = Done \cup {c} /\ Filled' = Filled
  <2>1. /\ DOMAIN rx_wu = RxSlots /\ rx_wu[c] \in WorkUnit
        /\ rx_wu' = [rx_wu EXCEPT ![c] = [rx_wu[c] EXCEPT !.done = TRUE]]
    BY <1>1 DEF RxDmaDone, RxRingInv, RxTypeOK, RxRingType
  <2>2. [rx_wu[c] EXCEPT !.done = TRUE].kind = rx_wu[c].kind
    BY <2>1 DEF WorkUnit
  <2>3. [rx_wu[c] EXCEPT !.done = TRUE].done = TRUE
    BY <2>1, Zenon DEF WorkUnit
  <2>4. Filled' = Filled
    BY <1>1, <2>1, <2>2, Zenon DEF Filled
  <2>5. Done' = Done \cup {c}
    BY <1>1, <2>1, <2>3, Zenon DEF Done
  <2> QED
    BY <2>4, <2>5
<1>5. F' = F /\ LastSlot' = LastSlot
  BY DEF RxDmaDone, rxPollVars, FirstUntaken, LastSlot
<1>6. c \in Filled
  BY <1>2 DEF RxRingInv, RingOrder, FilledOrWriting
<1>7. \A i \in RxSlots : i \in Done' <=> RxOffset(F, i) <= RxOffset(F, c)
  BY <1>1, <1>3, <1>4, AgeFacts
<1>8. \A i \in Done', j \in RxSlots : Age(j)' < Age(i)' => j \in Done'
  <2> SUFFICES ASSUME NEW i \in Done', NEW j \in RxSlots, RxOffset(F, j) < RxOffset(F, i)
               PROVE  j \in Done'
    BY <1>5 DEF Age
  <2>1. i \in RxSlots
    BY <1>1, <1>4
  <2> QED
    BY <1>1, <1>7, <2>1, AgeFacts
<1>9. /\ \A i \in Done' : rx_dscptr_prv' \in Done' /\ Age(i)' <= Age(rx_dscptr_prv)'
      /\ rx_dscptr_prv' \in Done'
  BY <1>1, <1>2, <1>4, <1>5, <1>7 DEF Age
<1>10. UNCHANGED <<rx_skb_dma, rd_ring, rx_next_done, rxPc>>
  BY DEF RxDmaDone, rxPollVars
<1>11. CASE rxdma.flow = "dscl"
  <2>1. rxdma' = RxDmaAt(RxSlotAfter(c))
    BY <1>11 DEF RxDmaDone
  <2>2. rxdma'.run = "fetch" /\ rxdma'.cur = RxSlotAfter(c)
    BY <2>1 DEF RxDmaAt, RxDmaHalted
  <2>3. c # LastSlot
    BY <1>2, <1>11 DEF RxRingInv, RingLinks, StopsAtLast, DmaLatched
  <2>4. /\ RxSlotAfter(c) # F
        /\ rxPc \in {"recycle", "link"} => RxSlotAfter(c) # rx_next_done
    <3>1. RxSlotBefore(RxSlotAfter(c)) = c /\ RxSlotBefore(RxSlotAfter(rx_next_done)) = rx_next_done
      BY <1>1, RxNeighbours
    <3>2. CASE rxPc \in {"recycle", "link"}
      <4>1. c # rx_next_done
        BY <1>2, <3>2 DEF RxRingInv, RingLinks, StopsAtLast, DmaActive
      <4>2. F = RxSlotAfter(rx_next_done) /\ LastSlot = RxSlotBefore(rx_next_done)
        BY <3>2 DEF FirstUntaken, LastSlot
      <4> QED
        BY <2>3, <3>1, <4>1, <4>2
    <3>3. CASE rxPc = "ack"
      BY <2>3, <3>1, <3>3 DEF FirstUntaken, LastSlot
    <3>4. CASE rxPc \notin {"recycle", "link", "ack"}
      BY <2>3, <3>1, <3>4 DEF FirstUntaken, LastSlot
    <3> QED
      BY <3>2, <3>3, <3>4
  <2>5. RxOffset(F, RxSlotAfter(c)) = RxOffset(F, c) + 1
    BY <1>1, <2>4, AgeOfNext
  <2>6. \A i \in RxSlots : i \in Done' <=> RxOffset(F, i) < RxOffset(F, RxSlotAfter(c))
    <3> SUFFICES ASSUME NEW i \in RxSlots
                 PROVE  RxOffset(F, i) <= RxOffset(F, c)
                        <=> RxOffset(F, i) < RxOffset(F, RxSlotAfter(c))
      BY <1>7
    <3> QED
      BY <1>1, <2>5, AgeFacts
  <2>7. FilledOrWriting'
    BY <1>2, <1>4, <1>6, <2>2 DEF RxRingInv, RingOrder, FilledOrWriting
  <2>8. FilledInOrder'
    BY <1>5, <1>8, <2>2, <2>6 DEF FilledInOrder, Age
  <2>9. PrevIsYoungest'
    BY <1>1, <1>2, <1>9, <2>2 DEF PrevIsYoungest
  <2>10. StopsAtLast'
    BY <1>5, <1>10, <2>2, <2>4 DEF RxRingInv, RingLinks, StopsAtLast, DmaLatched
  <2>11. AddressesMatch'
    BY <1>10, <2>2 DEF RxRingInv, RingLinks, AddressesMatch, DmaLatched
  <2> QED
    BY <1>4, <2>7, <2>8, <2>9, <2>10, <2>11 DEF RingOrder, RingLinks
<1>12. CASE rxdma.flow # "dscl"
  <2>1. rxdma'.run = "halt"
    BY <1>12 DEF RxDmaDone, RxDmaHalted
  <2>2. FilledOrWriting'
    BY <1>2, <1>4, <1>6, <2>1 DEF RxRingInv, RingOrder, FilledOrWriting
  <2>3. FilledInOrder'
    BY <1>8, <2>1 DEF FilledInOrder, DmaActive
  <2>4. PrevIsYoungest'
    BY <1>9, <2>1 DEF PrevIsYoungest, DmaActive
  <2>5. StopsAtLast'
    BY <1>5, <1>10, <2>1 DEF RxRingInv, RingLinks, StopsAtLast, DmaLatched, DmaActive
  <2>6. AddressesMatch'
    BY <1>10, <2>1 DEF RxRingInv, RingLinks, AddressesMatch, DmaLatched
  <2> QED
    BY <1>4, <2>2, <2>3, <2>4, <2>5, <2>6 DEF RingOrder, RingLinks
<1> QED
  BY <1>11, <1>12

\* The ring invariant is preserved by every step, as long as the CPU sees
\* what the DMA wrote.
LEMMA RxStepRing ==
    ASSUME Coherent
    PROVE  RxRingInv /\ [RxNext]_rxVars => RxRingInv'
<1> SUFFICES ASSUME RxRingInv, [RxNext]_rxVars PROVE RxRingInv'
  OBVIOUS
<1>1. RxTypeOK'
  BY RxStepType DEF RxRingInv
<1> SUFFICES RingOrder' /\ RingLinks' /\ PollKnows'
  BY <1>1 DEF RxRingInv
<1>2. CASE RxIrq
  BY <1>2, LookingKeepsRing DEF RxIrq, rxDrvVars, rxHwVars, PollKnows
<1>3. CASE RxRead
  <2>1. RingOrder' /\ RingLinks'
    BY <1>3, LookingKeepsRing DEF RxRead, rxDrvVars, rxHwVars
  <2>2. rx_next_done' = rx_next_done /\ Filled' = Filled
        /\ (rxPc' = "halt" \/ (rxPc' = "check" /\ rx_wu[rx_next_done].kind # "none"))
    BY <1>3, SameBuffers DEF RxRead, rxDrvVars
  <2>3. PollKnows'
    BY <2>2, RingSlots DEF PollKnows, Filled, RxRingInv
  <2> QED
    BY <2>1, <2>3
<1>4. CASE RxCheck
  <2>1. RingOrder' /\ RingLinks'
    BY <1>4, LookingKeepsRing DEF RxCheck, rxDrvVars, rxHwVars
  <2>2. rx_next_done' = rx_next_done /\ Done' = Done
    BY <1>4, SameBuffers DEF RxCheck, rxDrvVars
  <2>3. ASSUME ~RxInProgress(rx_next_done) PROVE rx_next_done \in Done
    <3>1. rx_next_done \in Filled
      BY <1>4 DEF RxCheck, RxRingInv, PollKnows
    <3> QED
      BY <2>3, <3>1 DEF RxInProgress, RxRingInv, RingOrder, FilledOrWriting, PrevIsYoungest,
                        DmaActive
  <2>4. PollKnows'
    BY <1>4, <2>2, <2>3 DEF RxCheck, PollKnows
  <2> QED
    BY <2>1, <2>4
<1>5. CASE RxTake
  <2>1. CASE rxPc' = "halt" /\ UNCHANGED <<rx_wu, rx_skb_dma, prev_rx_skb, rx_last, rxCount>>
    BY <1>5, <2>1, LookingKeepsRing DEF RxTake, rxHwVars, PollKnows
  <2>2. CASE SwapBuffer(rx_next_done) /\ rxPc' = "recycle"
    BY <1>5, <2>2, TakeKeepsRing DEF RxTake, rxHwVars, PollKnows
  <2> QED
    BY <1>5, <2>1, <2>2 DEF RxTake
<1>6. CASE RxRecycle
  BY <1>6, RecycleKeepsRing DEF RxRecycle, PollKnows
<1>7. CASE RxLink
  BY <1>7, LinkKeepsRing DEF RxLink, PollKnows
<1>8. CASE RxAck
  BY <1>8, AckKeepsRing DEF RxAck, PollKnows
<1>9. CASE RxHalt
  <2>1. rxPc = "halt" /\ UNCHANGED <<rx_wu, rx_skb_dma, rd_ring, rx_next_done, rx_dscptr_prv>>
    BY <1>9 DEF RxHalt, rxDrvVars
  <2>2. rxPc' \in {"idle", "loop"}
    BY <1>9 DEF RxHalt, RxPollReturn
  <2>3. \/ UNCHANGED rxdma
        \/ /\ rxdma.run = "halt" /\ rxdma' = RxDmaAt(RxRestartSlot)
           /\ rx_wu[rx_next_done].kind = "none"
    BY <1>9 DEF RxHalt, SeesZero
  <2>4. PollKnows'
    BY <2>2 DEF PollKnows
  <2>5. CASE UNCHANGED rxdma
    BY <2>1, <2>2, <2>4, <2>5, LookingKeepsRing
  <2>6. CASE /\ rxdma.run = "halt" /\ rxdma' = RxDmaAt(RxRestartSlot)
             /\ rx_wu[rx_next_done].kind = "none"
    <3>1. rx_next_done \notin Filled
      BY <2>6 DEF Filled
    <3> QED
      BY <2>1, <2>2, <2>4, <2>6, <3>1, RestartKeepsRing
  <2> QED
    BY <2>3, <2>5, <2>6
<1>10. CASE RxDmaFetch
  <2>1. UNCHANGED <<rxPc, rx_next_done>> /\ Done' = Done /\ Filled' = Filled
    BY <1>10, SameBuffers DEF RxDmaFetch, rxDrvVars, rxPollVars
  <2> QED
    BY <1>10, <2>1, FetchKeepsRing DEF RxRingInv, PollKnows
<1>11. CASE RxDmaFirstBeat
  <2>1. UNCHANGED <<rxPc, rx_next_done>>
    BY <1>11 DEF RxDmaFirstBeat, rxPollVars
  <2> QED
    BY <1>11, <2>1, FirstBeatKeepsRing DEF RxRingInv, PollKnows
<1>12. CASE RxDmaDone
  <2>1. UNCHANGED <<rxPc, rx_next_done>>
    BY <1>12 DEF RxDmaDone, rxPollVars
  <2> QED
    BY <1>12, <2>1, DoneKeepsRing DEF RxRingInv, PollKnows
<1>13. CASE WuLost \/ UNCHANGED rxVars
  <2>1. UNCHANGED <<rx_wu, rx_skb_dma, rd_ring, rx_next_done, rxdma, rx_dscptr_prv, rxPc>>
    BY <1>13 DEF WuLost, rxVars, rxDrvVars, rxPollVars, rxHwVars
  <2>2. Done' = Done /\ Filled' = Filled
        /\ FirstUntaken' = FirstUntaken /\ LastSlot' = LastSlot
    BY <2>1, SameBuffers DEF FirstUntaken, LastSlot
  <2>3. RingOrder'
    BY <2>1, <2>2 DEF RxRingInv, RingOrder, FilledOrWriting, FilledInOrder, PrevIsYoungest,
                      Age, DmaActive
  <2>4. RingLinks' /\ PollKnows'
    BY <2>1, <2>2 DEF RxRingInv, RingLinks, StopsAtLast, AddressesMatch, DmaActive,
                      DmaLatched, PollKnows
  <2> QED
    BY <2>3, <2>4
<1> QED
  BY <1>2, <1>3, <1>4, <1>5, <1>6, <1>7, <1>8, <1>9, <1>10, <1>11, <1>12, <1>13
     DEF RxNext, RxPollStep, RxDmaStep

\* On a machine where the CPU sees what the DMA wrote, the receive ring is
\* safe for every ring size and every behaviour of the wire: adi_msp_rx never
\* lets the DMA write over a work unit it has not taken ...
THEOREM RxNothingOverwritten ==
    ASSUME Coherent
    PROVE  RxSpec => []RxNotOverwritten
<1>1. RxInit => RxRingInv
  BY RxInitRing
<1>2. RxRingInv /\ [RxNext]_rxVars => RxRingInv'
  BY RxStepRing
<1>3. RxRingInv => RxNotOverwritten
  <2> SUFFICES ASSUME RxRingInv, rxdma.run \in {"fetch", "run"}
               PROVE  rx_wu[rxdma.cur].kind = "none"
    BY DEF RxNotOverwritten
  <2>1. rxdma.cur \in RxSlots /\ FirstUntaken \in RxSlots
    BY RingSlots DEF RxRingInv
  <2>2. rxdma.cur \notin Done
    BY <2>1, AgeFacts DEF RxRingInv, RingOrder, FilledInOrder, Age, DmaActive
  <2>3. rxdma.cur \notin Filled
    BY <2>2 DEF RxRingInv, RingOrder, FilledOrWriting
  <2> QED
    BY <2>1, <2>3 DEF Filled
<1> QED
  BY <1>1, <1>2, <1>3, PTL DEF RxSpec

\* ... nor into a buffer it has unmapped and passed on ...
THEOREM RxBuffersOwned ==
    ASSUME Coherent
    PROVE  RxSpec => []RxBufferOwned
<1>1. RxInit => RxRingInv
  BY RxInitRing
<1>2. RxRingInv /\ [RxNext]_rxVars => RxRingInv'
  BY RxStepRing
<1>3. RxRingInv => RxBufferOwned
  BY DEF RxRingInv, RingLinks, AddressesMatch, DmaLatched, RxBufferOwned
<1> QED
  BY <1>1, <1>2, <1>3, PTL DEF RxSpec

\* ... and the test of ADDR_CUR and DSCPTR_PRV keeps it from taking a work
\* unit that is still being written.
THEOREM RxOnlyComplete ==
    ASSUME Coherent
    PROVE  RxSpec => []RxTakesComplete
<1>1. RxInit => RxRingInv
  BY RxInitRing
<1>2. RxRingInv /\ [RxNext]_rxVars => RxRingInv'
  BY RxStepRing
<1>3. RxRingInv => RxTakesComplete
  BY Zenon DEF RxRingInv, PollKnows, Done, RxTakesComplete
<1> QED
  BY <1>1, <1>2, <1>3, PTL DEF RxSpec

-----------------------------------------------------------------------------
(***************************************************************************)
(* The n-th smallest element of a finite set of numbers.                   *)
(***************************************************************************)

\* Ranks grow with the elements and stay below the size of the set.
LEMMA RankFacts ==
    ASSUME NEW S \in SUBSET Int, IsFiniteSet(S)
    PROVE  /\ Cardinality(S) \in Nat
           /\ \A k \in S : Rank(S, k) \in 0 .. Cardinality(S) - 1
           /\ \A j \in S, k \in S : j < k => Rank(S, j) < Rank(S, k)
           /\ \A j \in S, k \in S : Rank(S, j) = Rank(S, k) => j = k
<1> DEFINE Below(k) == {j \in S : j < k}
<1>1. \A k : Rank(S, k) = Cardinality(Below(k))
  BY DEF Rank
<1>2. Cardinality(S) \in Nat
  BY FS_CardinalityType
<1>3. \A k \in S : /\ IsFiniteSet(Below(k)) /\ Cardinality(Below(k)) \in Nat
                   /\ Cardinality(Below(k)) < Cardinality(S)
  <2> SUFFICES ASSUME NEW k \in S
               PROVE  /\ IsFiniteSet(Below(k)) /\ Cardinality(Below(k)) \in Nat
                      /\ Cardinality(Below(k)) < Cardinality(S)
    OBVIOUS
  <2>1. Below(k) \in SUBSET S /\ k \notin Below(k)
    OBVIOUS
  <2> HIDE DEF Below
  <2>2. /\ IsFiniteSet(Below(k)) /\ Cardinality(Below(k)) <= Cardinality(S)
        /\ Cardinality(S) = Cardinality(Below(k)) => S = Below(k)
    BY <2>1, FS_Subset
  <2>3. Cardinality(Below(k)) \in Nat
    BY <2>2, FS_CardinalityType
  <2> QED
    BY <1>2, <2>1, <2>2, <2>3
<1>4. \A j \in S, k \in S : j < k => Cardinality(Below(j)) < Cardinality(Below(k))
  <2> SUFFICES ASSUME NEW j \in S, NEW k \in S, j < k
               PROVE  Cardinality(Below(j)) < Cardinality(Below(k))
    OBVIOUS
  <2>1. Below(j) \in SUBSET Below(k) /\ j \in Below(k) /\ j \notin Below(j)
    <3>1. \A i \in S : i < j => i < k
      OBVIOUS
    <3>2. j \notin Below(j) /\ j \in Below(k)
      OBVIOUS
    <3> QED
      BY <3>1, <3>2
  <2>2. IsFiniteSet(Below(k)) /\ Cardinality(Below(j)) \in Nat /\ Cardinality(Below(k)) \in Nat
    BY <1>3
  <2> HIDE DEF Below
  <2>3. /\ Cardinality(Below(j)) <= Cardinality(Below(k))
        /\ Cardinality(Below(k)) = Cardinality(Below(j)) => Below(k) = Below(j)
    BY <2>1, <2>2, FS_Subset
  <2> QED
    BY <2>1, <2>2, <2>3
<1> HIDE DEF Below
<1>5. \A k \in S : Rank(S, k) \in 0 .. Cardinality(S) - 1
  BY <1>1, <1>2, <1>3
<1>6. \A j \in S, k \in S : j < k => Rank(S, j) < Rank(S, k)
  BY <1>1, <1>4
<1>7. \A j \in S, k \in S : Rank(S, j) = Rank(S, k) => j = k
  BY <1>5, <1>6
<1> QED
  BY <1>2, <1>5, <1>6, <1>7

\* Every rank is that of an element, which Nth finds.
LEMMA NthFacts ==
    ASSUME NEW S \in SUBSET Int, IsFiniteSet(S)
    PROVE  /\ \A n \in 1 .. Cardinality(S) : Nth(S, n) \in S /\ Rank(S, Nth(S, n)) = n - 1
           /\ \A k \in S, n \in Int : Rank(S, k) = n - 1 => Nth(S, n) = k
<1> DEFINE T == 0 .. Cardinality(S) - 1
           f == [k \in S |-> Rank(S, k)]
<1>1. /\ Cardinality(S) \in Nat
      /\ \A k \in S : Rank(S, k) \in T
      /\ \A j \in S, k \in S : Rank(S, j) = Rank(S, k) => j = k
  BY RankFacts
<1>2. f \in Injection(S, T)
  <2>1. f \in [S -> T] /\ \A j, k \in S : f[j] = f[k] => j = k
    BY <1>1
  <2> HIDE DEF f, T
  <2> QED
    BY <2>1 DEF Injection, IsInjective
<1>3. IsFiniteSet(T) /\ Cardinality(T) = Cardinality(S)
  <2>1. \A n \in Nat : IsFiniteSet(0 .. n - 1) /\ Cardinality(0 .. n - 1) = n
    BY FS_Interval
  <2> QED
    BY <1>1, <2>1
<1>4. \A r \in T : \E k \in S : f[k] = r
  <2> HIDE DEF f, T
  <2>1. f \in Surjection(S, T)
    BY <1>2, <1>3, FS_Injection
  <2> QED
    BY <2>1 DEF Surjection
<1>5. \A n \in 1 .. Cardinality(S) : \E k \in S : Rank(S, k) = n - 1
  <2> SUFFICES ASSUME NEW n \in 1 .. Cardinality(S) PROVE \E k \in S : Rank(S, k) = n - 1
    OBVIOUS
  <2>1. n - 1 \in T
    BY <1>1
  <2>2. PICK k \in S : f[k] = n - 1
    BY <1>4, <2>1
  <2> QED
    BY <2>2
<1>6. \A n \in 1 .. Cardinality(S) : Nth(S, n) \in S /\ Rank(S, Nth(S, n)) = n - 1
  BY <1>5, Zenon DEF Nth
<1>7. \A k \in S, n \in Int : Rank(S, k) = n - 1 => Nth(S, n) = k
  <2> SUFFICES ASSUME NEW k \in S, NEW n \in Int, Rank(S, k) = n - 1 PROVE Nth(S, n) = k
    OBVIOUS
  <2>1. Nth(S, n) \in S /\ Rank(S, Nth(S, n)) = n - 1
    BY Zenon DEF Nth
  <2> QED
    BY <1>1, <2>1
<1> QED
  BY <1>6, <1>7

\* A new greatest element comes last and moves no other.
LEMMA NthWithLast ==
    ASSUME NEW S \in SUBSET Int, IsFiniteSet(S), NEW x \in Int, \A k \in S : k < x
    PROVE  /\ IsFiniteSet(S \cup {x}) /\ Cardinality(S) \in Nat
           /\ Cardinality(S \cup {x}) = Cardinality(S) + 1
           /\ \A n \in 1 .. Cardinality(S) : Nth(S \cup {x}, n) = Nth(S, n)
           /\ Nth(S \cup {x}, Cardinality(S) + 1) = x
<1> DEFINE T == S \cup {x}
<1>1. x \notin S /\ T \in SUBSET Int
  OBVIOUS
<1>2. IsFiniteSet(T) /\ Cardinality(T) = Cardinality(S) + 1 /\ Cardinality(S) \in Nat
  BY <1>1, FS_AddElement, FS_CardinalityType
<1>3. \A k \in S : Rank(T, k) = Rank(S, k)
  <2> SUFFICES ASSUME NEW k \in S PROVE {j \in T : j < k} = {j \in S : j < k}
    BY DEF Rank
  <2> QED
    OBVIOUS
<1>4. Rank(T, x) = Cardinality(S)
  <2>1. {j \in T : j < x} = S
    <3>1. ~(x < x)
      OBVIOUS
    <3> QED
      BY <3>1
  <2> QED
    BY <2>1 DEF Rank
<1> HIDE DEF T
<1>5. Nth(T, Cardinality(S) + 1) = x
  <2>1. x \in T
    BY DEF T
  <2> QED
    BY <1>1, <1>2, <1>4, <2>1, NthFacts
<1>6. ASSUME NEW n \in 1 .. Cardinality(S) PROVE Nth(T, n) = Nth(S, n)
  <2>1. Nth(S, n) \in S /\ Rank(S, Nth(S, n)) = n - 1 /\ S \subseteq T
    BY NthFacts DEF T
  <2> QED
    <3>1. Nth(S, n) \in T /\ Rank(T, Nth(S, n)) = n - 1 /\ n \in Int
      <4>1. n \in Int
        BY <1>2
      <4>2. Rank(T, Nth(S, n)) = Rank(S, Nth(S, n))
        BY <1>3, <2>1
      <4> QED
        BY <2>1, <4>1, <4>2
    <3> QED
      BY <1>1, <1>2, <3>1, NthFacts
<1> QED
  BY <1>2, <1>5, <1>6 DEF T

\* Without the least element the others move up by one.
LEMMA NthWithoutFirst ==
    ASSUME NEW S \in SUBSET Int, IsFiniteSet(S), NEW x \in Int, \A k \in S : x < k
    PROVE  /\ IsFiniteSet(S \cup {x}) /\ Cardinality(S) \in Nat
           /\ Cardinality(S \cup {x}) = Cardinality(S) + 1
           /\ \A n \in 1 .. Cardinality(S) : Nth(S \cup {x}, n + 1) = Nth(S, n)
           /\ Nth(S \cup {x}, 1) = x
<1> DEFINE T == S \cup {x}
<1>1. x \notin S /\ T \in SUBSET Int
  OBVIOUS
<1>2. IsFiniteSet(T) /\ Cardinality(T) = Cardinality(S) + 1 /\ Cardinality(S) \in Nat
  BY <1>1, FS_AddElement, FS_CardinalityType
<1>3. ASSUME NEW k \in S PROVE Rank(T, k) = Rank(S, k) + 1
  <2> DEFINE B == {j \in S : j < k}
  <2>1. {j \in T : j < k} = B \cup {x} /\ x \notin B
    BY <1>1
  <2>2. IsFiniteSet(B)
    BY FS_Subset
  <2> HIDE DEF B
  <2>3. Cardinality(B \cup {x}) = Cardinality(B) + 1
    BY <2>1, <2>2, FS_AddElement
  <2> QED
    BY <2>1, <2>3 DEF Rank, B
<1>4. Rank(T, x) = 0
  <2>1. {j \in T : j < x} = {}
    <3>1. ~(x < x) /\ \A k \in S : ~(k < x)
      OBVIOUS
    <3> QED
      BY <3>1
  <2> QED
    BY <2>1, FS_EmptySet DEF Rank
<1> HIDE DEF T
<1>5. Nth(T, 1) = x
  <2>1. x \in T
    BY DEF T
  <2> QED
    BY <1>1, <1>2, <1>4, <2>1, NthFacts
<1>6. ASSUME NEW n \in 1 .. Cardinality(S) PROVE Nth(T, n + 1) = Nth(S, n)
  <2>1. PICK k \in S : k = Nth(S, n) /\ Rank(S, k) = n - 1
    BY NthFacts
  <2>2. n + 1 \in Int /\ (n - 1) + 1 = (n + 1) - 1 /\ k \in T
    BY <1>2 DEF T
  <2>3. Rank(T, k) = (n + 1) - 1
    BY <1>3, <2>1, <2>2
  <2>4. Nth(T, n + 1) = k
    BY <1>1, <1>2, <2>2, <2>3, NthFacts
  <2> QED
    BY <2>1, <2>4
<1> QED
  BY <1>2, <1>5, <1>6 DEF T

\* Two sets that differ by a shift are of the same size ...
LEMMA ShiftedSize ==
    ASSUME NEW S \in SUBSET Int, IsFiniteSet(S), NEW T \in SUBSET Int, NEW d \in Int,
           \A k \in Int : k \in T <=> k + d \in S
    PROVE  IsFiniteSet(T) /\ Cardinality(T) = Cardinality(S)
<1> DEFINE f == [k \in S |-> k - d]
<1>1. \A k \in S : k - d \in T
  <2> SUFFICES ASSUME NEW k \in S PROVE k - d \in T
    OBVIOUS
  <2>1. k - d \in Int /\ (k - d) + d = k
    OBVIOUS
  <2> QED
    BY <2>1
<1>2. f \in [S -> T] /\ \A j, k \in S : f[j] = f[k] => j = k
  BY <1>1
<1>3. \A t \in T : \E k \in S : f[k] = t
  <2> SUFFICES ASSUME NEW t \in T PROVE t + d \in S /\ f[t + d] = t
    OBVIOUS
  <2>1. t \in Int /\ t + d \in S /\ (t + d) - d = t
    OBVIOUS
  <2> QED
    BY <2>1
<1>4. ExistsBijection(S, T)
  <2> HIDE DEF f
  <2> QED
    BY <1>2, <1>3 DEF ExistsBijection, Bijection, Injection, Surjection, IsInjective
<1> QED
  BY <1>4, FS_Bijection

\* ... and so are their elements.
LEMMA NthShifted ==
    ASSUME NEW S \in SUBSET Int, IsFiniteSet(S), NEW T \in SUBSET Int, NEW d \in Int,
           \A k \in Int : k \in T <=> k + d \in S
    PROVE  /\ IsFiniteSet(T) /\ Cardinality(T) = Cardinality(S) /\ Cardinality(S) \in Nat
           /\ \A n \in 1 .. Cardinality(S) : Nth(T, n) \in T /\ Nth(S, n) = Nth(T, n) + d
<1>1. IsFiniteSet(T) /\ Cardinality(T) = Cardinality(S) /\ Cardinality(S) \in Nat
  BY ShiftedSize, FS_CardinalityType
<1>2. ASSUME NEW k \in T PROVE Rank(S, k + d) = Rank(T, k)
  <2> DEFINE A == {j \in S : j < k + d}
             B == {j \in T : j < k}
  <2>1. A \in SUBSET Int /\ B \in SUBSET Int /\ A \in SUBSET S
    OBVIOUS
  <2>2. \A j \in Int : j \in B <=> j + d \in A
    OBVIOUS
  <2>3. Rank(S, k + d) = Cardinality(A) /\ Rank(T, k) = Cardinality(B)
    BY DEF Rank
  <2> HIDE DEF A, B
  <2>4. IsFiniteSet(A)
    BY <2>1, FS_Subset
  <2>5. Cardinality(B) = Cardinality(A)
    BY <2>1, <2>2, <2>4, ShiftedSize
  <2> QED
    BY <2>3, <2>5
<1>3. ASSUME NEW n \in 1 .. Cardinality(S) PROVE Nth(T, n) \in T /\ Nth(S, n) = Nth(T, n) + d
  <2>1. PICK k \in T : k = Nth(T, n) /\ Rank(T, k) = n - 1
    BY <1>1, NthFacts
  <2>2. k + d \in S /\ n \in Int
    BY <1>1
  <2>3. Rank(S, k + d) = n - 1
    BY <1>2, <2>1
  <2>4. Nth(S, n) = k + d
    BY <2>2, <2>3, NthFacts
  <2> QED
    BY <2>1, <2>4
<1> QED
  BY <1>1, <1>3

\* Sequences are equal when their elements are.
LEMMA RxSameElements ==
    ASSUME NEW S, NEW s \in Seq(S), NEW u \in Seq(S), Len(u) = Len(s),
           \A k \in 1 .. Len(s) : u[k] = s[k]
    PROVE  u = s
OBVIOUS

\* ... when one has an element more.
LEMMA RxAppendEqual ==
    ASSUME NEW S, NEW s \in Seq(S), NEW u \in Seq(S), NEW x \in S, Len(u) = Len(s) + 1,
           \A k \in 1 .. Len(s) : u[k] = s[k], u[Len(s) + 1] = x
    PROVE  u = Append(s, x)
OBVIOUS

\* ... when one lacks the first element of the other.
LEMMA RxTailEqual ==
    ASSUME NEW S, NEW s \in Seq(S), NEW u \in Seq(S), s # << >>, Len(u) = Len(s) - 1,
           \A k \in 1 .. Len(u) : u[k] = s[k + 1]
    PROVE  u = Tail(s)
OBVIOUS

-----------------------------------------------------------------------------
(***************************************************************************)
(* The frames in a line of work units, when the line grows and when its    *)
(* oldest work units leave it.                                             *)
(***************************************************************************)

\* They are frames, one for each start.
LEMMA FramesFacts ==
    ASSUME NEW line \in Seq(WorkUnit)
    PROVE  /\ Starts(line) \in SUBSET Int /\ IsFiniteSet(Starts(line))
           /\ \A k \in Starts(line) : k \in 1 .. Len(line) - 1
           /\ Cardinality(Starts(line)) \in Nat
           /\ FramesOf(line) \in Seq(RxFrame) /\ Len(FramesOf(line)) = Cardinality(Starts(line))
           /\ \A n \in 1 .. Cardinality(Starts(line)) :
                /\ Nth(Starts(line), n) \in Starts(line)
                /\ FramesOf(line)[n] = FrameFrom(line, Nth(Starts(line), n))
<1> DEFINE S == Starts(line)
<1>1. \A k \in S : k \in 1 .. Len(line) - 1
  BY DEF Starts
<1>2. S \in SUBSET (1 .. Len(line) - 1) /\ S \in SUBSET Int /\ Len(line) - 1 \in Int
  BY <1>1
<1>3. IsFiniteSet(1 .. Len(line) - 1)
  BY <1>2, FS_Interval
<1> HIDE DEF S
<1>4. IsFiniteSet(S) /\ Cardinality(S) \in Nat
  BY <1>2, <1>3, FS_Subset, FS_CardinalityType
<1>5. \A n \in 1 .. Cardinality(S) : Nth(S, n) \in S
  BY <1>2, <1>4, NthFacts
<1>6. \A k \in S : FrameFrom(line, k) \in RxFrame
  <2> SUFFICES ASSUME NEW k \in S PROVE FrameFrom(line, k) \in RxFrame
    OBVIOUS
  <2>1. k \in 1 .. Len(line) /\ k + 1 \in 1 .. Len(line)
    BY <1>1
  <2>2. line[k] \in WorkUnit /\ line[k + 1] \in WorkUnit
    BY <2>1
  <2>3. line[k].pay \in Payload /\ line[k + 1].pay \in Payload
    BY <2>2, Zenon DEF WorkUnit
  <2> QED
    BY <2>3 DEF FrameFrom, RxFrame
<1>7. FramesOf(line) = [n \in 1 .. Cardinality(S) |-> FrameFrom(line, Nth(S, n))]
  BY Zenon DEF FramesOf, S
<1>8. FramesOf(line) \in Seq(RxFrame) /\ Len(FramesOf(line)) = Cardinality(S)
      /\ \A n \in 1 .. Cardinality(S) : FramesOf(line)[n] = FrameFrom(line, Nth(S, n))
  BY <1>4, <1>5, <1>6, <1>7
<1> QED
  BY <1>1, <1>2, <1>4, <1>5, <1>8 DEF S

\* A new work unit completes at most one frame, the last.
LEMMA FramesGrow ==
    ASSUME NEW line \in Seq(WorkUnit), NEW wu \in WorkUnit
    PROVE  \/ FramesOf(Append(line, wu)) = FramesOf(line)
           \/ \E f \in RxFrame : FramesOf(Append(line, wu)) = Append(FramesOf(line), f)
<1> DEFINE u == Append(line, wu)
           S == Starts(line)
           T == Starts(u)
           x == Len(line)
<1>1. /\ u \in Seq(WorkUnit) /\ Len(u) = x + 1 /\ x \in Nat
      /\ \A k \in 1 .. x : u[k] = line[k]
  OBVIOUS
<1> HIDE DEF u
<1>2. \A k \in 1 .. x - 1 : u[k] = line[k] /\ u[k + 1] = line[k + 1]
  BY <1>1
<1>3. \A k \in 1 .. x - 1 : k \in T <=> k \in S
  BY <1>1, <1>2 DEF Starts
<1>4. (\A k \in S : k \in 1 .. x - 1) /\ (\A k \in T : k \in 1 .. x)
  BY <1>1 DEF Starts
<1>5. /\ S \in SUBSET Int /\ IsFiniteSet(S) /\ Cardinality(S) \in Nat
      /\ FramesOf(line) \in Seq(RxFrame) /\ Len(FramesOf(line)) = Cardinality(S)
      /\ \A n \in 1 .. Cardinality(S) : /\ Nth(S, n) \in S
                                        /\ FramesOf(line)[n] = FrameFrom(line, Nth(S, n))
  BY FramesFacts
<1>6. /\ FramesOf(u) \in Seq(RxFrame) /\ Len(FramesOf(u)) = Cardinality(T)
      /\ \A n \in 1 .. Cardinality(T) : /\ Nth(T, n) \in T
                                        /\ FramesOf(u)[n] = FrameFrom(u, Nth(T, n))
  BY <1>1, FramesFacts
<1>7. \A k \in S : FrameFrom(u, k) = FrameFrom(line, k)
  BY <1>2, <1>4 DEF FrameFrom
<1> HIDE DEF S, T
<1>8. CASE x \in T
  <2>1. \A k \in S : k < x /\ k \in T
    BY <1>1, <1>3, <1>4
  <2>2. \A k \in T : k \in S \/ k = x
    <3> SUFFICES ASSUME NEW k \in T, k # x PROVE k \in S
      OBVIOUS
    <3>1. k \in 1 .. x - 1
      BY <1>1, <1>4
    <3> QED
      BY <1>3, <3>1
  <2>3. T = S \cup {x}
    BY <1>8, <2>1, <2>2
  <2>4. x \in Int
    BY <1>1
  <2> HIDE DEF x
  <2>5. /\ Cardinality(S \cup {x}) = Cardinality(S) + 1
        /\ \A n \in 1 .. Cardinality(S) : Nth(S \cup {x}, n) = Nth(S, n)
    BY <1>5, <2>1, <2>4, NthWithLast
  <2>6. /\ Cardinality(T) = Cardinality(S) + 1
        /\ \A n \in 1 .. Cardinality(S) : Nth(T, n) = Nth(S, n)
    BY <2>3, <2>5
  <2> DEFINE f == FramesOf(u)[Cardinality(S) + 1]
  <2>7. Cardinality(S) + 1 \in 1 .. Len(FramesOf(u))
    BY <1>5, <1>6, <2>6
  <2>8. f \in RxFrame
    BY <1>6, <2>7
  <2>9. \A n \in 1 .. Cardinality(S) : FramesOf(u)[n] = FramesOf(line)[n]
    <3> SUFFICES ASSUME NEW n \in 1 .. Cardinality(S) PROVE FramesOf(u)[n] = FramesOf(line)[n]
      OBVIOUS
    <3>1. n \in 1 .. Cardinality(T)
      BY <1>5, <2>6
    <3>2. FramesOf(u)[n] = FrameFrom(u, Nth(S, n))
      BY <1>6, <2>6, <3>1
    <3> QED
      BY <1>5, <1>7, <3>2
  <2>10. FramesOf(u) = Append(FramesOf(line), f)
    <3>1. Len(FramesOf(u)) = Len(FramesOf(line)) + 1
      BY <1>5, <1>6, <2>6
    <3> HIDE DEF f
    <3>2. FramesOf(u)[Len(FramesOf(line)) + 1] = f
      BY <1>5 DEF f
    <3> QED
      BY <1>5, <1>6, <2>8, <2>9, <3>1, <3>2, RxAppendEqual
  <2> QED
    BY <2>8, <2>10 DEF u
<1>9. CASE x \notin T
  <2>1. T = S
    <3>1. \A k \in T : k \in 1 .. x - 1
      BY <1>1, <1>4, <1>9
    <3> QED
      BY <1>3, <1>4, <3>1
  <2>2. \A n \in 1 .. Len(FramesOf(line)) : FramesOf(u)[n] = FramesOf(line)[n]
    BY <1>5, <1>6, <1>7, <2>1
  <2>3. FramesOf(u) = FramesOf(line)
    BY <1>5, <1>6, <2>1, <2>2, RxSameElements
  <2> QED
    BY <2>3 DEF u
<1> QED
  BY <1>8, <1>9

\* What the ends of a line that loses its first d work units have in common.
LEMMA StartsShifted ==
    ASSUME NEW line \in Seq(WorkUnit), NEW u \in Seq(WorkUnit), NEW d \in Nat,
           Len(line) = Len(u) + d, \A k \in 1 .. Len(u) : u[k] = line[k + d]
    PROVE  /\ \A k \in Nat \ {0} : k \in Starts(u) <=> k + d \in Starts(line)
           /\ \A k \in Starts(u) : FrameFrom(u, k) = FrameFrom(line, k + d)
<1>1. \A k \in 1 .. Len(u) - 1 : /\ u[k] = line[k + d] /\ u[k + 1] = line[(k + d) + 1]
                                 /\ k + d \in 1 .. Len(line) - 1
  <2> SUFFICES ASSUME NEW k \in 1 .. Len(u) - 1
               PROVE  /\ u[k] = line[k + d] /\ u[k + 1] = line[(k + d) + 1]
                      /\ k + d \in 1 .. Len(line) - 1
    OBVIOUS
  <2>1. Len(u) \in Nat /\ (k + 1) + d = (k + d) + 1 /\ k \in 1 .. Len(u) /\ k + 1 \in 1 .. Len(u)
    OBVIOUS
  <2>2. u[k + 1] = line[(k + 1) + d]
    BY <2>1
  <2> QED
    BY <2>1, <2>2
<1>2. \A k \in Nat \ {0} : k + d \in 1 .. Len(line) - 1 => k \in 1 .. Len(u) - 1
  OBVIOUS
<1> QED
  BY <1>1, <1>2 DEF Starts, FrameFrom

\* Work units that start no frame leave without a trace.
LEMMA FramesKept ==
    ASSUME NEW line \in Seq(WorkUnit), NEW u \in Seq(WorkUnit), NEW d \in Nat,
           Len(line) = Len(u) + d, \A k \in 1 .. Len(u) : u[k] = line[k + d],
           \A k \in 1 .. d : k \notin Starts(line)
    PROVE  FramesOf(u) = FramesOf(line)
<1> DEFINE S == Starts(line)
           T == Starts(u)
<1>1. /\ S \in SUBSET Int /\ IsFiniteSet(S) /\ Cardinality(S) \in Nat
      /\ \A k \in S : k \in 1 .. Len(line) - 1
      /\ FramesOf(line) \in Seq(RxFrame) /\ Len(FramesOf(line)) = Cardinality(S)
      /\ \A n \in 1 .. Cardinality(S) : FramesOf(line)[n] = FrameFrom(line, Nth(S, n))
  BY FramesFacts
<1>2. /\ T \in SUBSET Int /\ \A k \in T : k \in 1 .. Len(u) - 1
      /\ FramesOf(u) \in Seq(RxFrame) /\ Len(FramesOf(u)) = Cardinality(T)
      /\ \A n \in 1 .. Cardinality(T) : FramesOf(u)[n] = FrameFrom(u, Nth(T, n))
  BY FramesFacts
<1>3. /\ \A k \in Nat \ {0} : k \in T <=> k + d \in S
      /\ \A k \in T : FrameFrom(u, k) = FrameFrom(line, k + d)
  BY StartsShifted
<1>4. \A k \in Int : k \in T <=> k + d \in S
  <2> SUFFICES ASSUME NEW k \in Int, k \notin Nat \ {0} PROVE k \notin T /\ k + d \notin S
    BY <1>3
  <2>1. k + d \notin S
    <3>1. CASE k + d \in 1 .. d
      BY <3>1
    <3>2. CASE k + d \notin 1 .. d
      <4>1. k + d <= d
        OBVIOUS
      <4> QED
        BY <1>1, <3>2, <4>1
    <3> QED
      BY <3>1, <3>2
  <2> QED
    BY <1>2, <2>1
<1> HIDE DEF S, T
<1>5. /\ Cardinality(T) = Cardinality(S)
      /\ \A n \in 1 .. Cardinality(S) : Nth(T, n) \in T /\ Nth(S, n) = Nth(T, n) + d
  <2>1. d \in Int /\ S \in SUBSET Int /\ T \in SUBSET Int /\ IsFiniteSet(S)
    BY <1>1, <1>2
  <2> QED
    BY <1>4, <2>1, NthShifted
<1>6. \A n \in 1 .. Len(FramesOf(line)) : FramesOf(u)[n] = FramesOf(line)[n]
  BY <1>1, <1>2, <1>3, <1>5
<1> QED
  BY <1>1, <1>2, <1>5, <1>6, RxSameElements

\* A start-of-frame work unit and its status take the first frame with them.
LEMMA FirstFrameLeaves ==
    ASSUME NEW line \in Seq(WorkUnit), NEW u \in Seq(WorkUnit),
           Len(line) = Len(u) + 2, \A k \in 1 .. Len(u) : u[k] = line[k + 2],
           line[1].kind = "sof", line[2].kind = "stat"
    PROVE  /\ FramesOf(line) # << >> /\ Head(FramesOf(line)) = FrameFrom(line, 1)
           /\ FramesOf(u) = Tail(FramesOf(line))
<1> DEFINE S == Starts(line)
           R == S \ {1}
           T == Starts(u)
<1>1. /\ S \in SUBSET Int /\ IsFiniteSet(S) /\ Cardinality(S) \in Nat
      /\ \A k \in S : k \in 1 .. Len(line) - 1
      /\ FramesOf(line) \in Seq(RxFrame) /\ Len(FramesOf(line)) = Cardinality(S)
      /\ \A n \in 1 .. Cardinality(S) : FramesOf(line)[n] = FrameFrom(line, Nth(S, n))
  BY FramesFacts
<1>2. /\ T \in SUBSET Int /\ \A k \in T : k \in 1 .. Len(u) - 1
      /\ FramesOf(u) \in Seq(RxFrame) /\ Len(FramesOf(u)) = Cardinality(T)
      /\ \A n \in 1 .. Cardinality(T) : FramesOf(u)[n] = FrameFrom(u, Nth(T, n))
  BY FramesFacts
<1>3. /\ \A k \in Nat \ {0} : k \in T <=> k + 2 \in S
      /\ \A k \in T : FrameFrom(u, k) = FrameFrom(line, k + 2)
  BY StartsShifted
<1>4. 1 \in S /\ 2 \notin S
  BY DEF Starts
<1>5. \A k \in Int : k \in T <=> k + 2 \in R
  <2>0. \A k \in Nat \ {0} : k + 2 # 1
    OBVIOUS
  <2> SUFFICES ASSUME NEW k \in Int, k \notin Nat \ {0} PROVE k \notin T /\ k + 2 \notin R
    <3>1. \A k \in Nat \ {0} : k \in T <=> k + 2 \in R
      BY <1>3, <2>0
    <3> QED
      BY <3>1
  <2>1. k \notin T
    BY <1>2
  <2>2. CASE k + 2 \in {1, 2}
    BY <1>4, <2>1, <2>2
  <2>3. CASE k + 2 \notin {1, 2}
    <3>1. k + 2 < 1
      BY <2>3
    <3> QED
      BY <1>1, <2>1, <3>1
  <2> QED
    BY <2>2, <2>3
<1> HIDE DEF T
<1>6. S = R \cup {1} /\ R \in SUBSET Int /\ (\A k \in R : 1 < k)
  BY <1>1, <1>4
<1>7. IsFiniteSet(R)
  BY <1>1, FS_Subset
<1> HIDE DEF S, R
<1>8. /\ Cardinality(R) \in Nat /\ Cardinality(S) = Cardinality(R) + 1
      /\ \A n \in 1 .. Cardinality(R) : Nth(S, n + 1) = Nth(R, n)
      /\ Nth(S, 1) = 1
  <2>1. 1 \in Int
    OBVIOUS
  <2>2. /\ Cardinality(R) \in Nat /\ Cardinality(R \cup {1}) = Cardinality(R) + 1
        /\ \A n \in 1 .. Cardinality(R) : Nth(R \cup {1}, n + 1) = Nth(R, n)
        /\ Nth(R \cup {1}, 1) = 1
    BY <1>6, <1>7, <2>1, NthWithoutFirst
  <2> QED
    BY <1>6, <2>2
<1>9. /\ Cardinality(T) = Cardinality(R)
      /\ \A n \in 1 .. Cardinality(R) : Nth(T, n) \in T /\ Nth(R, n) = Nth(T, n) + 2
  <2>1. 2 \in Int /\ R \in SUBSET Int /\ T \in SUBSET Int
    BY <1>2, <1>6
  <2> QED
    BY <1>5, <1>7, <2>1, NthShifted
<1>10. FramesOf(line) # << >> /\ Head(FramesOf(line)) = FrameFrom(line, 1)
  BY <1>1, <1>8
<1>11. ASSUME NEW n \in 1 .. Len(FramesOf(u)) PROVE FramesOf(u)[n] = FramesOf(line)[n + 1]
  <2>1. n \in 1 .. Cardinality(R) /\ n + 1 \in 1 .. Cardinality(S)
    BY <1>2, <1>8, <1>9
  <2>2. FramesOf(u)[n] = FrameFrom(line, Nth(T, n) + 2)
    BY <1>2, <1>3, <1>9, <2>1
  <2>3. FramesOf(line)[n + 1] = FrameFrom(line, Nth(R, n))
    BY <1>1, <1>8, <2>1
  <2> QED
    BY <1>9, <2>1, <2>2, <2>3
<1>12. Len(FramesOf(u)) = Len(FramesOf(line)) - 1
  BY <1>1, <1>2, <1>8, <1>9
<1> QED
  BY <1>1, <1>2, <1>10, <1>11, <1>12, RxTailEqual

\* A line of work units in two parts, as the driver holds it.
LEMMA JoinFacts ==
    \A s \in Seq(WorkUnit), t \in Seq(WorkUnit) :
      /\ s \o t \in Seq(WorkUnit) /\ Len(s \o t) = Len(s) + Len(t)
      /\ Len(s) \in Nat /\ Len(t) \in Nat
      /\ \A k \in 1 .. Len(s) : (s \o t)[k] = s[k]
      /\ \A k \in 1 .. Len(t) : (s \o t)[Len(s) + k] = t[k]
OBVIOUS

\* What the driver holds of a frame: its start, then follow-up data.
HeldInOrder(held) ==
    \A k \in 1 .. Len(held) : held[k].kind = IF k = 1 THEN "sof" ELSE "fup"

\* The work units that are left of some when the first is taken.
Follows(rest, ring) ==
    Len(ring) = Len(rest) + 1 /\ \A k \in 1 .. Len(rest) : rest[k] = ring[k + 1]

\* The oldest work unit has moved out of the ring, which is left with rest,
\* and the driver now holds next, that is all but the first d of what it held
\* and the work unit.
MovedOn(held, ring, next, rest, d) ==
    /\ Follows(rest, ring)
    /\ Len(next) + d = Len(held) + 1
    /\ \A k \in 1 .. Len(next) : next[k] = (held \o ring)[k + d]

\* A line that has lost its first d work units and nothing else.
Shortened(line, u, d) ==
    Len(line) = Len(u) + d /\ \A k \in 1 .. Len(u) : u[k] = line[k + d]

\* When the ring has moved on the line is shortened.
LEMMA LineAfterTake ==
    ASSUME NEW held \in Seq(WorkUnit), NEW ring \in Seq(WorkUnit), NEW rest \in Seq(WorkUnit),
           NEW next \in Seq(WorkUnit), NEW d \in Nat, MovedOn(held, ring, next, rest, d)
    PROVE  Shortened(held \o ring, next \o rest, d)
<1> DEFINE line == held \o ring
           u == next \o rest
           p == Len(held)
           q == Len(next)
           r == Len(rest)
<1>1. /\ Len(held \o ring) = p + Len(ring) /\ p \in Nat
      /\ \A k \in 1 .. Len(ring) : (held \o ring)[p + k] = ring[k]
  BY JoinFacts, Zenon
<1>2. /\ Len(next \o rest) = q + r /\ q \in Nat /\ r \in Nat
      /\ \A k \in 1 .. q : (next \o rest)[k] = next[k]
      /\ \A k \in 1 .. r : (next \o rest)[q + k] = rest[k]
  BY JoinFacts, Zenon
<1>3. Len(line) = p + (r + 1) /\ \A k \in 1 .. r + 1 : line[p + k] = ring[k]
  BY <1>1, Zenon DEF MovedOn, Follows
<1>4. \A k \in 1 .. q : u[k] = line[k + d]
  BY <1>2, Zenon DEF MovedOn
<1>5. \A k \in 1 .. r : u[q + k] = rest[k]
  BY <1>2, Zenon
<1>6. q + d = p + 1 /\ \A k \in 1 .. r : rest[k] = ring[k + 1]
  BY DEF MovedOn, Follows
<1> HIDE DEF line, u, p, q, r
<1>7. \A k \in 1 .. r : u[q + k] = line[p + (k + 1)]
  <2> SUFFICES ASSUME NEW k \in 1 .. r PROVE u[q + k] = line[p + (k + 1)]
    OBVIOUS
  <2>1. k + 1 \in 1 .. r + 1
    BY <1>2
  <2>2. line[p + (k + 1)] = ring[k + 1]
    BY <1>3, <2>1, Zenon
  <2> QED
    BY <1>5, <1>6, <2>2, Zenon
<1>8. p \in Nat /\ q \in Nat /\ r \in Nat
  BY <1>1, <1>2
<1>9. p + (r + 1) = (q + r) + d
  BY <1>6, <1>8
<1>10. ASSUME NEW k \in 1 .. q + r PROVE u[k] = line[k + d]
  <2>1. CASE k \in 1 .. q
    BY <1>4, <2>1
  <2>2. CASE k \notin 1 .. q
    <3>1. PICK j \in 1 .. r : k = q + j
      <4>1. k - q \in 1 .. r /\ k = q + (k - q)
        BY <1>8, <2>2
      <4> QED
        BY <4>1
    <3>2. p + (j + 1) = k + d
      BY <1>6, <1>8, <3>1
    <3> QED
      BY <1>7, <3>1, <3>2
  <2> QED
    BY <2>1, <2>2
<1> QED
  BY <1>2, <1>3, <1>9, <1>10, Zenon DEF Shortened, line, u

\* The work units up to the one that is taken, and where a frame can start.
LEMMA StartsBeforeTake ==
    ASSUME NEW held \in Seq(WorkUnit), NEW ring \in Seq(WorkUnit), ring # << >>,
           HeldInOrder(held)
    PROVE  /\ held # << >> => (held \o ring)[1].kind = "sof" /\ (held \o ring)[1] = held[1]
           /\ (held \o ring)[Len(held) + 1] = ring[1]
           /\ \A k \in 1 .. Len(held) :
                k \in Starts(held \o ring) => k = 1 /\ Len(held) = 1 /\ ring[1].kind = "stat"
           /\ Len(held) + 1 \in Starts(held \o ring) => ring[1].kind = "sof"
<1> DEFINE line == held \o ring
           p    == Len(held)
<1>1. /\ p \in Nat /\ Len(ring) \in Nat /\ Len(ring) >= 1
      /\ \A k \in 1 .. p : line[k] = held[k]
      /\ \A k \in 1 .. Len(ring) : line[p + k] = ring[k]
  BY JoinFacts
<1> HIDE DEF line
<1>2. line[p + 1] = ring[1]
  BY <1>1
<1>3. ASSUME NEW k \in 1 .. p, k \in Starts(line) PROVE k = 1 /\ p = 1 /\ ring[1].kind = "stat"
  <2>1. line[k].kind = "sof" /\ line[k + 1].kind = "stat"
    BY <1>3 DEF Starts
  <2>2. line[k].kind = IF k = 1 THEN "sof" ELSE "fup"
    BY <1>1 DEF HeldInOrder
  <2>3. k = 1
    BY <2>1, <2>2
  <2>4. CASE p = 1
    BY <1>2, <2>1, <2>3, <2>4
  <2>5. CASE p # 1
    <3>1. 2 \in 1 .. p /\ k + 1 = 2
      <4> HIDE DEF p
      <4> QED
        BY <1>1, <2>3, <2>5
    <3>2. line[2].kind = "fup"
      BY <1>1, <3>1 DEF HeldInOrder
    <3> QED
      BY <2>1, <3>1, <3>2
  <2> QED
    BY <2>4, <2>5
<1>4. p + 1 \in Starts(line) => ring[1].kind = "sof"
  BY <1>2 DEF Starts
<1>5. held # << >> => line[1].kind = "sof" /\ line[1] = held[1]
  <2>1. held # << >> => 1 \in 1 .. p
    OBVIOUS
  <2> QED
    BY <1>1, <2>1 DEF HeldInOrder
<1> QED
  BY <1>2, <1>3, <1>4, <1>5 DEF line

\* What the driver makes of the work unit it takes, by its header: the line
\* stays, or loses its first d work units, which are no frame or exactly one.
LEMMA SortFrames ==
    ASSUME prev_rx_skb \in Seq(WorkUnit), prev_rx_skb' \in Seq(WorkUnit),
           HeldInOrder(prev_rx_skb),
           NEW ring \in Seq(WorkUnit), NEW rest \in Seq(WorkUnit), Follows(rest, ring),
           NEW wu \in WorkUnit, wu = ring[1],
           TakeSof(wu) \/ TakeFollowUp(wu) \/ TakeStatus(wu) \/ TakeInvalid(wu)
    PROVE  /\ HeldInOrder(prev_rx_skb')
           /\ \/ /\ FramesOf(prev_rx_skb' \o rest) = FramesOf(prev_rx_skb \o ring)
                 /\ rx_last' = rx_last
              \/ /\ FramesOf(prev_rx_skb \o ring) # << >>
                 /\ rx_last' = Head(FramesOf(prev_rx_skb \o ring))
                 /\ FramesOf(prev_rx_skb' \o rest) = Tail(FramesOf(prev_rx_skb \o ring))
<1> SUFFICES ASSUME NEW held \in Seq(WorkUnit), prev_rx_skb = held, HeldInOrder(held),
                    NEW next \in Seq(WorkUnit), prev_rx_skb' = next
             PROVE  /\ HeldInOrder(next)
                    /\ \/ /\ FramesOf(next \o rest) = FramesOf(held \o ring)
                          /\ rx_last' = rx_last
                       \/ /\ FramesOf(held \o ring) # << >>
                          /\ rx_last' = Head(FramesOf(held \o ring))
                          /\ FramesOf(next \o rest) = Tail(FramesOf(held \o ring))
  BY Zenon
<1> DEFINE p == Len(held)
<1>1. PICK line \in Seq(WorkUnit) : line = held \o ring
  BY JoinFacts, Zenon
<1>2. PICK u \in Seq(WorkUnit) : u = next \o rest
  BY JoinFacts, Zenon
<1>3. p \in Nat /\ ring # << >> /\ \A k \in 1 .. p : line[k] = held[k]
  <2>1. ring # << >>
    BY DEF Follows
  <2>2. p \in Nat /\ \A k \in 1 .. p : (held \o ring)[k] = held[k]
    BY JoinFacts, Zenon
  <2> QED
    BY <1>1, <2>1, <2>2, Zenon
<1>4. /\ held # << >> => line[1].kind = "sof" /\ line[1] = held[1]
      /\ line[p + 1] = wu
      /\ \A k \in 1 .. p : k \in Starts(line) => k = 1 /\ p = 1 /\ wu.kind = "stat"
      /\ p + 1 \in Starts(line) => wu.kind = "sof"
  BY <1>1, <1>3, StartsBeforeTake, Zenon
<1>5. ASSUME NEW d \in Nat, Len(next) + d = p + 1,
             \A k \in 1 .. Len(next) : next[k] = line[k + d]
      PROVE  Len(line) = Len(u) + d /\ \A k \in 1 .. Len(u) : u[k] = line[k + d]
  <2>1. MovedOn(held, ring, next, rest, d)
    BY <1>1, <1>5, Zenon DEF MovedOn
  <2>2. Shortened(held \o ring, next \o rest, d)
    BY <2>1, LineAfterTake, Zenon
  <2> QED
    BY <1>1, <1>2, <2>2, Zenon DEF Shortened
<1>6. ASSUME NEW d \in Nat, Len(next) + d = p + 1,
             \A k \in 1 .. Len(next) : next[k] = line[k + d],
             \A k \in 1 .. d : k \notin Starts(line)
      PROVE  FramesOf(u) = FramesOf(line)
  <2>1. Len(line) = Len(u) + d /\ \A k \in 1 .. Len(u) : u[k] = line[k + d]
    BY <1>5, <1>6
  <2> QED
    BY <1>6, <2>1, FramesKept
<1> SUFFICES /\ HeldInOrder(next)
             /\ \/ FramesOf(u) = FramesOf(line) /\ rx_last' = rx_last
                \/ /\ FramesOf(line) # << >> /\ rx_last' = Head(FramesOf(line))
                   /\ FramesOf(u) = Tail(FramesOf(line))
  BY <1>1, <1>2
<1>7. ASSUME next = << >>
      PROVE  /\ HeldInOrder(next) /\ p + 1 \in Nat
             /\ Len(next) + (p + 1) = p + 1
             /\ \A k \in 1 .. Len(next) : next[k] = line[k + (p + 1)]
  <2>1. Len(next) = 0 /\ 1 .. 0 = {}
    BY <1>7
  <2> QED
    BY <1>3, <2>1 DEF HeldInOrder
<1>8. ASSUME next = << >>, \A k \in 1 .. p + 1 : k \notin Starts(line)
      PROVE  HeldInOrder(next) /\ FramesOf(u) = FramesOf(line)
  BY <1>6, <1>7, <1>8
<1>9. CASE TakeSof(wu)
  <2>1. next = <<wu>> /\ wu.kind = "sof" /\ rx_last' = rx_last
    BY <1>9, Zenon DEF TakeSof
  <2>2. Len(next) = 1 /\ next[1] = wu
    BY <2>1
  <2>3. HeldInOrder(next)
    BY <2>1, <2>2 DEF HeldInOrder
  <2>4. Len(next) + p = p + 1 /\ \A k \in 1 .. Len(next) : next[k] = line[k + p]
    <3>1. 1 + p = p + 1 /\ \A k \in 1 .. 1 : k = 1
      BY <1>3
    <3> QED
      BY <1>4, <2>2, <3>1
  <2>5. \A k \in 1 .. p : k \notin Starts(line)
    BY <1>4, <2>1
  <2> QED
    BY <1>3, <1>6, <2>1, <2>3, <2>4, <2>5
<1>10. CASE TakeFollowUp(wu)
  <2>1. wu.kind = "fup" /\ rx_last' = rx_last
        /\ (next = << >> \/ (held # << >> /\ next = Append(held, wu)))
    BY <1>10 DEF TakeFollowUp, DropPrev
  <2>2. CASE next = << >>
    <3>1. \A k \in 1 .. p + 1 : k \notin Starts(line)
      BY <1>3, <1>4, <2>1
    <3> QED
      BY <1>8, <2>1, <2>2, <3>1
  <2>3. CASE held # << >> /\ next = Append(held, wu)
    <3>1. /\ Len(next) = p + 1 /\ next[p + 1] = wu
          /\ \A k \in 1 .. p : next[k] = held[k]
      BY <2>3
    <3>2. \A k \in 1 .. p + 1 : k \in 1 .. p \/ k = p + 1
      BY <1>3
    <3>3. p + 1 # 1
      BY <1>3, <2>3
    <3>4. HeldInOrder(next)
      BY <2>1, <3>1, <3>2, <3>3 DEF HeldInOrder
    <3>5. \A k \in 1 .. Len(next) : next[k] = line[k + 0]
      <4> SUFFICES ASSUME NEW k \in 1 .. p + 1 PROVE next[k] = line[k + 0]
        BY <3>1
      <4>1. k + 0 = k
        BY <1>3
      <4> QED
        BY <1>3, <1>4, <3>1, <3>2, <4>1
    <3>6. Len(next) + 0 = p + 1 /\ 0 \in Nat /\ 1 .. 0 = {}
      BY <1>3, <3>1
    <3> QED
      BY <1>6, <2>1, <3>4, <3>5, <3>6
  <2> QED
    BY <2>1, <2>2, <2>3
<1>11. CASE TakeStatus(wu)
  <2>1. next = << >> /\ wu.kind \in {"stat", "err"}
    BY <1>11 DEF TakeStatus, DropPrev
  <2>2. CASE wu.kind = "err" \/ held = << >> \/ Oversize
    <3>1. rx_last' = rx_last
      BY <1>11, <2>2 DEF TakeStatus
    <3>2. p # 1 \/ wu.kind # "stat"
      <4>1. held = << >> => p = 0
        OBVIOUS
      <4>2. Oversize => p > 1
        BY Zenon DEF Oversize, DATA_WU_PER_FRAME
      <4> HIDE DEF p
      <4> QED
        BY <1>3, <2>2, <4>1, <4>2
    <3>3. \A k \in 1 .. p + 1 : k \notin Starts(line)
      BY <1>3, <1>4, <2>1, <3>2
    <3> QED
      BY <1>8, <2>1, <3>1, <3>3
  <2>3. CASE ~(wu.kind = "err" \/ held = << >> \/ Oversize)
    <3>1. wu.kind = "stat" /\ held # << >> /\ rx_last' = [data |-> held[1].pay, stat |-> wu.pay]
      BY <1>11, <2>1, <2>3 DEF TakeStatus
    <3>2. p = 1
      <4>1. held # << >> => p # 0
        OBVIOUS
      <4>2. p > 1 => Oversize
        BY Zenon DEF Oversize, DATA_WU_PER_FRAME
      <4> HIDE DEF p
      <4> QED
        BY <1>3, <2>3, <4>1, <4>2
    <3>3. line[1].kind = "sof" /\ line[1] = held[1] /\ line[2] = wu
      BY <1>4, <3>1, <3>2
    <3>4. Len(line) = Len(u) + 2 /\ \A k \in 1 .. Len(u) : u[k] = line[k + 2]
      <4>1. p + 1 = 2
        BY <3>2
      <4> QED
        BY <1>5, <1>7, <2>1, <4>1
    <3>5. /\ FramesOf(line) # << >> /\ Head(FramesOf(line)) = FrameFrom(line, 1)
          /\ FramesOf(u) = Tail(FramesOf(line))
      BY <3>1, <3>3, <3>4, FirstFrameLeaves
    <3>6. FrameFrom(line, 1) = [data |-> held[1].pay, stat |-> wu.pay]
      BY <3>3 DEF FrameFrom
    <3> QED
      BY <1>7, <2>1, <3>1, <3>5, <3>6
  <2> QED
    BY <2>2, <2>3
<1>12. CASE TakeInvalid(wu)
  <2>1. next = << >> /\ wu.kind \in {"bad", "none"} /\ rx_last' = rx_last
    BY <1>12 DEF TakeInvalid, DropPrev
  <2>2. \A k \in 1 .. p + 1 : k \notin Starts(line)
    <3>1. \A k \in 1 .. p + 1 : k \in 1 .. p \/ k = p + 1
      BY <1>3
    <3>2. wu.kind # "stat" /\ wu.kind # "sof"
      BY <2>1
    <3> QED
      BY <1>4, <3>1, <3>2
  <2> QED
    BY <1>8, <2>1, <2>2
<1> QED
  BY <1>9, <1>10, <1>11, <1>12

-----------------------------------------------------------------------------
(***************************************************************************)
(* The line of work units in the ring.                                     *)
(***************************************************************************)

\* The slots of a set are the oldest ones of a ring that starts at first.
AreOldest(slots, first) ==
    \A i \in RxSlots : i \in slots <=> RxOffset(first, i) < Cardinality(slots)

\* Slots by their distance from the oldest one.
LEMMA SlotFromFacts ==
    /\ \A a \in RxSlots, k \in 1 .. NUM_RDS : /\ RxSlotFrom(a, k) \in RxSlots
                                              /\ RxOffset(a, RxSlotFrom(a, k)) = k - 1
    /\ \A a \in RxSlots, k \in 1 .. NUM_RDS - 1 :
         RxSlotFrom(RxSlotAfter(a), k) = RxSlotFrom(a, k + 1)
    /\ \A a \in RxSlots : RxSlotFrom(a, 1) = a
BY RxConstants DEF RxSlots, RxSlotFrom, RxOffset, RxSlotAfter

\* The size of a set of slots.
LEMMA SlotCount ==
    ASSUME NEW D \in SUBSET RxSlots
    PROVE  IsFiniteSet(D) /\ Cardinality(D) \in Nat /\ Cardinality(D) <= NUM_RDS
<1>1. 0 \in Int /\ NUM_RDS - 1 \in Int /\ NUM_RDS \in Nat /\ 0 <= NUM_RDS - 1
  BY RxConstants
<1>2. IsFiniteSet(RxSlots) /\ Cardinality(RxSlots) = NUM_RDS
  BY <1>1, FS_Interval DEF RxSlots
<1>3. IsFiniteSet(D) /\ Cardinality(D) <= Cardinality(RxSlots)
  BY <1>2, FS_Subset
<1> QED
  BY <1>2, <1>3, FS_CardinalityType

\* The work units in n slots are a sequence, and the slots n different ones.
LEMMA WusFacts ==
    ASSUME NEW wus \in [RxSlots -> WorkUnit], NEW a \in RxSlots, NEW n \in Nat, n <= NUM_RDS
    PROVE  /\ WusFrom(wus, a, n) \in Seq(WorkUnit) /\ Len(WusFrom(wus, a, n)) = n
           /\ \A k \in 1 .. n : /\ WusFrom(wus, a, n)[k] = wus[RxSlotFrom(a, k)]
                                /\ RxSlotFrom(a, k) \in RxSlots
                                /\ RxOffset(a, RxSlotFrom(a, k)) = k - 1
<1>1. \A k \in 1 .. n : k \in 1 .. NUM_RDS
  BY RxConstants
<1>2. \A k \in 1 .. n : /\ RxSlotFrom(a, k) \in RxSlots
                        /\ RxOffset(a, RxSlotFrom(a, k)) = k - 1
  BY <1>1, SlotFromFacts, Zenon
<1>3. \A k \in 1 .. n : wus[RxSlotFrom(a, k)] \in WorkUnit
  BY <1>2
<1>4. WusFrom(wus, a, n) = [k \in 1 .. n |-> wus[RxSlotFrom(a, k)]]
  BY DEF WusFrom
<1>5. WusFrom(wus, a, n) \in Seq(WorkUnit) /\ Len(WusFrom(wus, a, n)) = n
      /\ \A k \in 1 .. n : WusFrom(wus, a, n)[k] = wus[RxSlotFrom(a, k)]
  BY <1>3, <1>4
<1> QED
  BY <1>2, <1>5

\* When the complete work units are the oldest the place of the youngest is
\* their number.
LEMMA YoungestIs ==
    ASSUME NEW wus \in [RxSlots -> WorkUnit], NEW a \in RxSlots,
           NEW D, D = {i \in RxSlots : wus[i].done}, AreOldest(D, a)
    PROVE  YoungestDone(wus, a) = Cardinality(D)
<1> DEFINE n == Cardinality(D)
<1>1. D \in SUBSET RxSlots /\ n \in Nat /\ n <= NUM_RDS
  <2>1. D \in SUBSET RxSlots
    OBVIOUS
  <2> QED
    BY <2>1, SlotCount
<1>2. \A i \in RxSlots : i \in D <=> RxOffset(a, i) < n
  BY DEF AreOldest
<1>3. \A i \in RxSlots : wus[i].done <=> i \in D
  BY Zenon
<1> HIDE DEF n
<1>4. \A k \in 1 .. NUM_RDS : wus[RxSlotFrom(a, k)].done <=> k \in 1 .. n
  <2> SUFFICES ASSUME NEW k \in 1 .. NUM_RDS
               PROVE  wus[RxSlotFrom(a, k)].done <=> k \in 1 .. n
    OBVIOUS
  <2>1. RxSlotFrom(a, k) \in RxSlots /\ RxOffset(a, RxSlotFrom(a, k)) = k - 1
    BY SlotFromFacts, Zenon
  <2>2. k - 1 < n <=> k \in 1 .. n
    BY <1>1, RxConstants
  <2>3. RxSlotFrom(a, k) \in D <=> k \in 1 .. n
    BY <1>2, <2>1, <2>2
  <2> QED
    BY <1>3, <2>1, <2>3, Zenon
<1> DEFINE Last(k) == /\ k = 0 \/ wus[RxSlotFrom(a, k)].done
                      /\ \A j \in k + 1 .. NUM_RDS : ~wus[RxSlotFrom(a, j)].done
<1>5. n \in 0 .. NUM_RDS /\ Last(n)
  <2>1. n = 0 \/ (n \in 1 .. NUM_RDS /\ n \in 1 .. n)
    BY <1>1, RxConstants
  <2>2. \A j \in n + 1 .. NUM_RDS : j \in 1 .. NUM_RDS /\ j \notin 1 .. n
    BY <1>1, RxConstants
  <2>3. n \in 0 .. NUM_RDS
    BY <1>1, RxConstants
  <2> QED
    BY <1>4, <2>1, <2>2, <2>3, Zenon
<1>6. ASSUME NEW k \in 0 .. NUM_RDS, Last(k) PROVE k = n
  <2>1. CASE k < n
    <3>1. n \in k + 1 .. NUM_RDS /\ n \in 1 .. NUM_RDS /\ n \in 1 .. n
      BY <1>1, <2>1, RxConstants
    <3> QED
      BY <1>4, <1>6, <3>1, Zenon
  <2>2. CASE k > n
    <3>1. k \in 1 .. NUM_RDS /\ k \notin 1 .. n /\ k # 0
      BY <1>1, <2>2, RxConstants
    <3> QED
      BY <1>4, <1>6, <3>1, Zenon
  <2> QED
    BY <1>1, <2>1, <2>2, RxConstants
<1>7. YoungestDone(wus, a) = CHOOSE k \in 0 .. NUM_RDS : Last(k)
  BY Zenon DEF YoungestDone
<1> HIDE DEF Last
<1> QED
  BY <1>5, <1>6, <1>7, Zenon DEF n

\* Buffers that differ in one slot only.
SameBut(now, wus, slot) == \A i \in RxSlots : i # slot => now[i] = wus[i]

\* The slots older than a slot.
AreOlder(slots, slot, first) ==
    \A i \in RxSlots : i \in slots <=> RxOffset(first, i) < RxOffset(first, slot)

\* The oldest slot leaves: the others are the oldest from the next slot on,
\* and the line has lost its first work unit.
LEMMA OldestLeaves ==
    ASSUME NEW D \in SUBSET RxSlots, NEW a \in D, AreOldest(D, a),
           NEW wus \in [RxSlots -> WorkUnit], NEW left \in [RxSlots -> WorkUnit],
           SameBut(left, wus, a)
    PROVE  /\ AreOldest(D \ {a}, RxSlotAfter(a))
           /\ WusFrom(wus, a, Cardinality(D)) \in Seq(WorkUnit)
           /\ WusFrom(wus, a, Cardinality(D))[1] = wus[a]
           /\ WusFrom(left, RxSlotAfter(a), Cardinality(D \ {a})) \in Seq(WorkUnit)
           /\ Follows(WusFrom(left, RxSlotAfter(a), Cardinality(D \ {a})),
                      WusFrom(wus, a, Cardinality(D)))
<1> DEFINE n == Cardinality(D)
           m == Cardinality(D \ {a})
           b == RxSlotAfter(a)
           ring == WusFrom(wus, a, n)
           rest == WusFrom(left, b, m)
<1>1. IsFiniteSet(D) /\ n \in Nat /\ n <= NUM_RDS /\ a \in RxSlots /\ b \in RxSlots
  BY SlotCount, RxSlotFacts
<1>2. m \in Nat /\ n = m + 1
  <2>1. m = n - 1 /\ D \ {a} \in SUBSET RxSlots
    BY <1>1, FS_RemoveElement
  <2>2. m \in Nat
    BY <2>1, SlotCount
  <2> QED
    BY <1>1, <2>1, <2>2
<1>3. \A i \in RxSlots : i \in D <=> RxOffset(a, i) < n
  BY DEF AreOldest
<1>4. \A i \in RxSlots : i # a => RxOffset(b, i) = RxOffset(a, i) - 1
  BY <1>1, AgeAfterTake
<1>5. RxOffset(b, a) = NUM_RDS - 1
  BY <1>1, AgeAfterTake
<1>6. \A i \in RxSlots : RxOffset(a, i) \in Int
  BY <1>1, AgeFacts
<1> HIDE DEF n, m, b
<1>7. \A i \in RxSlots : i \in D \ {a} <=> RxOffset(b, i) < m
  <2> SUFFICES ASSUME NEW i \in RxSlots PROVE i \in D \ {a} <=> RxOffset(b, i) < m
    OBVIOUS
  <2>1. CASE i = a
    BY <1>1, <1>2, <1>5, <2>1, RxConstants
  <2>2. CASE i # a
    <3>1. RxOffset(a, i) < n <=> RxOffset(b, i) < m
      BY <1>2, <1>4, <1>6, <2>2
    <3> QED
      BY <1>3, <2>2, <3>1
  <2> QED
    BY <2>1, <2>2
<1>8. /\ ring \in Seq(WorkUnit) /\ Len(ring) = n
      /\ \A k \in 1 .. n : ring[k] = wus[RxSlotFrom(a, k)] /\ RxSlotFrom(a, k) \in RxSlots
                           /\ RxOffset(a, RxSlotFrom(a, k)) = k - 1
  BY <1>1, WusFacts
<1>9. m <= NUM_RDS /\ b \in RxSlots
  BY <1>1, <1>2, RxConstants
<1>10. /\ rest \in Seq(WorkUnit) /\ Len(rest) = m
       /\ \A k \in 1 .. m : rest[k] = left[RxSlotFrom(b, k)]
  BY <1>1, <1>2, <1>9, WusFacts
<1>11. ASSUME NEW k \in 1 .. m PROVE rest[k] = ring[k + 1]
  <2>1. k + 1 \in 1 .. n /\ k \in 1 .. NUM_RDS - 1 /\ k \in Int
    BY <1>1, <1>2, RxConstants
  <2>2. RxSlotFrom(b, k) = RxSlotFrom(a, k + 1)
    BY <1>1, <2>1, SlotFromFacts DEF b
  <2>3. RxSlotFrom(a, k + 1) # a
    <3>1. RxOffset(a, RxSlotFrom(a, k + 1)) = k
      BY <1>8, <2>1
    <3> QED
      BY <1>1, <3>1, AgeFacts
  <2> QED
    BY <1>8, <1>10, <2>1, <2>2, <2>3 DEF SameBut
<1>12. ring[1] = wus[a]
  BY <1>1, <1>2, <1>8, SlotFromFacts
<1> QED
  <2> HIDE DEF ring, rest
  <2>1. Follows(rest, ring)
    BY <1>2, <1>8, <1>10, <1>11 DEF Follows
  <2>2. AreOldest(D \ {a}, b)
    BY <1>7 DEF AreOldest, m
  <2> QED
    BY <1>8, <1>10, <1>12, <2>1, <2>2 DEF n, m, b, ring, rest

\* The slot next in age joins: the line gains a work unit.
LEMMA YoungestJoins ==
    ASSUME NEW D \in SUBSET RxSlots, NEW a \in RxSlots, AreOldest(D, a),
           NEW c \in RxSlots, AreOlder(D, c, a),
           NEW wus \in [RxSlots -> WorkUnit], NEW now \in [RxSlots -> WorkUnit],
           SameBut(now, wus, c)
    PROVE  /\ AreOldest(D \cup {c}, a)
           /\ WusFrom(now, a, Cardinality(D \cup {c}))
                = Append(WusFrom(wus, a, Cardinality(D)), now[c])
<1> DEFINE n == Cardinality(D)
           m == Cardinality(D \cup {c})
<1>1. IsFiniteSet(D) /\ n \in Nat /\ n <= NUM_RDS
  BY SlotCount
<1>2. \A i \in RxSlots : RxOffset(a, i) \in 0 .. NUM_RDS - 1
  BY AgeFacts
<1>3. c \notin D /\ \A i \in RxSlots : i \in D <=> RxOffset(a, i) < RxOffset(a, c)
  BY <1>2 DEF AreOlder
<1>4. m = n + 1 /\ m \in Nat /\ m <= NUM_RDS
  <2>1. m = n + 1
    BY <1>1, <1>3, FS_AddElement
  <2>2. D \cup {c} \in SUBSET RxSlots
    OBVIOUS
  <2> QED
    BY <2>1, <2>2, SlotCount
<1>5. \A i \in RxSlots : i \in D <=> RxOffset(a, i) < n
  BY DEF AreOldest
<1> HIDE DEF n, m
<1>6. RxSlotFrom(a, n + 1) = c /\ RxOffset(a, c) = n
  <2>1. n + 1 \in 1 .. NUM_RDS
    BY <1>1, <1>4
  <2>2. PICK i \in RxSlots : i = RxSlotFrom(a, n + 1) /\ RxOffset(a, i) = n
    <3>1. RxOffset(a, RxSlotFrom(a, n + 1)) = (n + 1) - 1 /\ RxSlotFrom(a, n + 1) \in RxSlots
      BY <2>1, SlotFromFacts
    <3> QED
      BY <1>1, <3>1
  <2>3. i \notin D
    BY <1>1, <1>5, <2>2
  <2>4. RxOffset(a, c) = n
    BY <1>1, <1>2, <1>3, <1>5, <2>2, <2>3
  <2>5. i = c
    BY <2>2, <2>4, AgeFacts
  <2> QED
    BY <2>2, <2>4, <2>5
<1>7. \A i \in RxSlots : i \in D \cup {c} <=> RxOffset(a, i) < m
  <2> SUFFICES ASSUME NEW i \in RxSlots PROVE i \in D \cup {c} <=> RxOffset(a, i) < m
    OBVIOUS
  <2>1. RxOffset(a, i) < m <=> RxOffset(a, i) < n \/ RxOffset(a, i) = n
    BY <1>1, <1>2, <1>4
  <2>2. RxOffset(a, i) = n <=> i = c
    BY <1>6, AgeFacts
  <2> QED
    BY <1>5, <2>1, <2>2
<1>8. /\ WusFrom(wus, a, n) \in Seq(WorkUnit) /\ Len(WusFrom(wus, a, n)) = n
      /\ \A k \in 1 .. n : /\ WusFrom(wus, a, n)[k] = wus[RxSlotFrom(a, k)]
                           /\ RxSlotFrom(a, k) \in RxSlots
                           /\ RxOffset(a, RxSlotFrom(a, k)) = k - 1
  BY <1>1, WusFacts
<1>9. /\ WusFrom(now, a, m) \in Seq(WorkUnit) /\ Len(WusFrom(now, a, m)) = m
      /\ \A k \in 1 .. m : WusFrom(now, a, m)[k] = now[RxSlotFrom(a, k)]
  BY <1>4, WusFacts
<1>10. ASSUME NEW k \in 1 .. n PROVE WusFrom(now, a, m)[k] = WusFrom(wus, a, n)[k]
  <2>1. k \in 1 .. m /\ k - 1 # n
    BY <1>1, <1>4
  <2>2. RxSlotFrom(a, k) # c /\ RxSlotFrom(a, k) \in RxSlots
    BY <1>6, <1>8, <2>1
  <2> QED
    BY <1>8, <1>9, <2>1, <2>2 DEF SameBut
<1>11. WusFrom(now, a, m)[n + 1] = now[c] /\ now[c] \in WorkUnit
  <2>1. n + 1 \in 1 .. m
    BY <1>1, <1>4
  <2> QED
    BY <1>6, <1>9, <2>1
<1>12. WusFrom(now, a, m) = Append(WusFrom(wus, a, n), now[c])
  BY <1>4, <1>8, <1>9, <1>10, <1>11, RxAppendEqual
<1> QED
  BY <1>7, <1>12 DEF AreOldest, n, m

\* What happens to other slots does not change the line.
LEMMA SameLine ==
    ASSUME NEW D \in SUBSET RxSlots, NEW a \in RxSlots, AreOldest(D, a),
           NEW wus \in [RxSlots -> WorkUnit], NEW now \in [RxSlots -> WorkUnit],
           \A i \in D : now[i] = wus[i]
    PROVE  WusFrom(now, a, Cardinality(D)) = WusFrom(wus, a, Cardinality(D))
<1> DEFINE n == Cardinality(D)
<1>1. n \in Nat /\ n <= NUM_RDS
  BY SlotCount
<1>2. \A i \in RxSlots : i \in D <=> RxOffset(a, i) < n
  BY DEF AreOldest
<1> HIDE DEF n
<1>3. /\ WusFrom(wus, a, n) \in Seq(WorkUnit) /\ Len(WusFrom(wus, a, n)) = n
      /\ \A k \in 1 .. n : /\ WusFrom(wus, a, n)[k] = wus[RxSlotFrom(a, k)]
                           /\ RxSlotFrom(a, k) \in RxSlots
                           /\ RxOffset(a, RxSlotFrom(a, k)) = k - 1
  BY <1>1, WusFacts
<1>4. /\ WusFrom(now, a, n) \in Seq(WorkUnit) /\ Len(WusFrom(now, a, n)) = n
      /\ \A k \in 1 .. n : WusFrom(now, a, n)[k] = now[RxSlotFrom(a, k)]
  BY <1>1, WusFacts
<1>5. ASSUME NEW k \in 1 .. n PROVE WusFrom(now, a, n)[k] = WusFrom(wus, a, n)[k]
  <2>1. k - 1 < n
    BY <1>1
  <2>2. RxSlotFrom(a, k) \in D
    BY <1>2, <1>3, <2>1
  <2> QED
    BY <1>3, <1>4, <2>2
<1> QED
  BY <1>3, <1>4, <1>5, RxSameElements DEF n

-----------------------------------------------------------------------------
(***************************************************************************)
(* The receive path implements RxFifo.                                     *)
(***************************************************************************)

\* What the refinement rests on: the ring invariant, that the complete work
\* units are the oldest ones, and what the driver holds of a frame.
RxLineInv == RxRingInv /\ AreOldest(Done, FirstUntaken) /\ HeldInOrder(prev_rx_skb)

\* A step that leaves the line alone ...
LineKept ==
    /\ Done' = Done /\ FirstUntaken' = FirstUntaken
    /\ \A i \in Done : rx_wu'[i] = rx_wu[i]
    /\ UNCHANGED <<prev_rx_skb, rx_last>>

\* ... one that completes a work unit ...
LineGrows ==
    /\ AreOlder(Done, rxdma.cur, FirstUntaken)
    /\ Done' = Done \cup {rxdma.cur} /\ FirstUntaken' = FirstUntaken
    /\ SameBut(rx_wu', rx_wu, rxdma.cur)
    /\ UNCHANGED <<prev_rx_skb, rx_last>>

\* ... and one that takes the oldest.
LineMovesOn ==
    /\ FirstUntaken = rx_next_done /\ FirstUntaken' = RxSlotAfter(rx_next_done)
    /\ rx_next_done \in Done /\ Done' = Done \ {rx_next_done}
    /\ SameBut(rx_wu', rx_wu, rx_next_done)
    /\ \/ TakeSof(rx_wu[rx_next_done]) \/ TakeFollowUp(rx_wu[rx_next_done])
       \/ TakeStatus(rx_wu[rx_next_done]) \/ TakeInvalid(rx_wu[rx_next_done])

\* There are no other steps.
LEMMA LineSteps ==
    ASSUME RxRingInv, [RxNext]_rxVars
    PROVE  LineKept \/ LineGrows \/ LineMovesOn
<1>1. DOMAIN rx_wu = RxSlots /\ rxdma.cur \in RxSlots /\ rx_next_done \in RxSlots
      /\ FirstUntaken \in RxSlots
  BY RingSlots DEF RxRingInv, RxTypeOK, RxRingType
<1>2. ASSUME UNCHANGED <<rx_wu, prev_rx_skb, rx_last>>, FirstUntaken' = FirstUntaken
      PROVE  LineKept
  BY <1>2, SameBuffers DEF LineKept
<1>3. CASE RxIrq \/ RxRead \/ RxCheck \/ RxHalt
  <2>1. UNCHANGED <<rx_wu, prev_rx_skb, rx_last, rx_next_done>>
        /\ rxPc \in {"idle", "loop", "check", "halt"}
        /\ rxPc' \in {"idle", "loop", "check", "take", "halt"}
    BY <1>3 DEF RxIrq, RxRead, RxCheck, RxHalt, RxPollReturn, rxDrvVars
  <2> QED
    BY <1>2, <2>1 DEF FirstUntaken
<1>4. CASE RxTake
  <2>1. CASE rxPc' = "halt" /\ UNCHANGED <<rx_wu, rx_skb_dma, prev_rx_skb, rx_last, rxCount>>
    <3>1. FirstUntaken' = FirstUntaken
      BY <1>4, <2>1 DEF RxTake, FirstUntaken
    <3> QED
      BY <1>2, <2>1, <3>1
  <2>2. CASE /\ SwapBuffer(rx_next_done) /\ rxPc' = "recycle"
             /\ \/ TakeSof(rx_wu[rx_next_done]) \/ TakeFollowUp(rx_wu[rx_next_done])
                \/ TakeStatus(rx_wu[rx_next_done]) \/ TakeInvalid(rx_wu[rx_next_done])
    <3>1. FirstUntaken = rx_next_done /\ FirstUntaken' = RxSlotAfter(rx_next_done)
      BY <1>4, <2>2 DEF RxTake, FirstUntaken
    <3>2. Done' = Done \ {rx_next_done}
      BY <1>4, <2>2, TakeKeepsRing DEF RxTake, rxHwVars
    <3>3. rx_next_done \in Done
      BY <1>4 DEF RxTake, RxRingInv, PollKnows
    <3>4. SameBut(rx_wu', rx_wu, rx_next_done)
      BY <1>1, <2>2 DEF SwapBuffer, SameBut
    <3> QED
      BY <2>2, <3>1, <3>2, <3>3, <3>4 DEF LineMovesOn
  <2> QED
    BY <1>4, <2>1, <2>2 DEF RxTake
<1>5. CASE RxRecycle \/ RxLink \/ RxAck
  <2>1. UNCHANGED <<rx_wu, prev_rx_skb, rx_last>> /\ FirstUntaken' = FirstUntaken
    BY <1>5 DEF RxRecycle, RxLink, RxAck, FirstUntaken
  <2> QED
    BY <1>2, <2>1
<1>6. CASE RxDmaFetch \/ WuLost \/ UNCHANGED rxVars
  <2>1. UNCHANGED <<rx_wu, prev_rx_skb, rx_last, rxPc, rx_next_done>>
    BY <1>6 DEF RxDmaFetch, WuLost, rxVars, rxDrvVars, rxPollVars
  <2> QED
    BY <1>2, <2>1 DEF FirstUntaken
<1>7. CASE RxDmaFirstBeat
  <2>1. UNCHANGED <<prev_rx_skb, rx_last>> /\ FirstUntaken' = FirstUntaken /\ rxdma.run = "run"
    BY <1>7 DEF RxDmaFirstBeat, rxPollVars, FirstUntaken
  <2>2. Done' = Done
    BY <1>7, FirstBeatKeepsRing
  <2>3. rxdma.cur \notin Done
    BY <1>1, <2>1, AgeFacts DEF RxRingInv, RingOrder, FilledInOrder, Age, DmaActive
  <2>4. \A i \in RxSlots : i # rxdma.cur => rx_wu'[i] = rx_wu[i]
    BY <1>1, <1>7 DEF RxDmaFirstBeat
  <2> QED
    BY <2>1, <2>2, <2>3, <2>4 DEF LineKept, Done
<1>8. CASE RxDmaDone
  <2>1. UNCHANGED <<prev_rx_skb, rx_last>> /\ FirstUntaken' = FirstUntaken /\ rxdma.run = "write"
    BY <1>8 DEF RxDmaDone, rxPollVars, FirstUntaken
  <2>2. Done' = Done \cup {rxdma.cur}
    BY <1>8, DoneKeepsRing
  <2>3. AreOlder(Done, rxdma.cur, FirstUntaken)
    BY <2>1 DEF RxRingInv, RingOrder, FilledInOrder, Age, DmaActive, AreOlder
  <2>4. SameBut(rx_wu', rx_wu, rxdma.cur)
    BY <1>1, <1>8 DEF RxDmaDone, SameBut
  <2> QED
    BY <2>1, <2>2, <2>3, <2>4 DEF LineGrows
<1> QED
  BY <1>3, <1>4, <1>5, <1>6, <1>7, <1>8 DEF RxNext, RxPollStep, RxDmaStep

\* The frames of the line, before ...
LEMMA PendingBefore ==
    ASSUME rx_wu \in [RxSlots -> WorkUnit], FirstUntaken \in RxSlots, AreOldest(Done, FirstUntaken)
    PROVE  PendingFrames
             = FramesOf(prev_rx_skb \o WusFrom(rx_wu, FirstUntaken, Cardinality(Done)))
<1>1. YoungestDone(rx_wu, FirstUntaken) = Cardinality(Done)
  BY YoungestIs DEF Done
<1>2. PendingFrames = FramesOf(Line)
  BY Zenon DEF PendingFrames
<1> QED
  BY <1>1, <1>2 DEF Line

\* ... and after a step.
LEMMA PendingAfter ==
    ASSUME rx_wu' \in [RxSlots -> WorkUnit], FirstUntaken' \in RxSlots,
           AreOldest(Done', FirstUntaken')
    PROVE  PendingFrames'
             = FramesOf(prev_rx_skb' \o WusFrom(rx_wu', FirstUntaken', Cardinality(Done')))
<1>1. YoungestDone(rx_wu', FirstUntaken') = Cardinality(Done')
  BY YoungestIs DEF Done
<1>2. PendingFrames' = FramesOf(Line)'
  BY Zenon DEF PendingFrames
<1> QED
  BY <1>1, <1>2 DEF Line

\* A step of the receive path is a step of the queue of frames, or none.
LEMMA RxFifoStep ==
    ASSUME RxLineInv, RxTypeOK', [RxNext]_rxVars
    PROVE  /\ AreOldest(Done', FirstUntaken') /\ HeldInOrder(prev_rx_skb')
           /\ [Fifo!RxFifoNext]_(Fifo!rxFifoVars)
<1> DEFINE D == Done
           a == FirstUntaken
           ring == WusFrom(rx_wu, a, Cardinality(D))
           rest == WusFrom(rx_wu', a', Cardinality(D'))
<1>1. /\ rx_wu \in [RxSlots -> WorkUnit] /\ rx_wu' \in [RxSlots -> WorkUnit]
      /\ prev_rx_skb \in Seq(WorkUnit) /\ prev_rx_skb' \in Seq(WorkUnit)
      /\ D \in SUBSET RxSlots /\ a \in RxSlots /\ a' \in RxSlots /\ rxdma.cur \in RxSlots
  <2>1. /\ rx_wu \in [RxSlots -> WorkUnit] /\ rx_wu' \in [RxSlots -> WorkUnit]
        /\ prev_rx_skb \in Seq(WorkUnit) /\ prev_rx_skb' \in Seq(WorkUnit)
    BY DEF RxLineInv, RxRingInv, RxTypeOK, RxRingType, PrevRxType
  <2>2. D \in SUBSET RxSlots /\ a \in RxSlots /\ rxdma.cur \in RxSlots
    BY RingSlots DEF RxLineInv, RxRingInv
  <2>3. a' \in RxSlots
    BY RxSlotFacts DEF RxTypeOK, RxRingType, FirstUntaken
  <2> QED
    BY <2>1, <2>2, <2>3
<1>2. AreOldest(D, a) /\ HeldInOrder(prev_rx_skb)
  BY DEF RxLineInv
<1>3. /\ PendingFrames = FramesOf(prev_rx_skb \o ring)
      /\ AreOldest(D', a') => PendingFrames' = FramesOf(prev_rx_skb' \o rest)
  BY <1>1, <1>2, PendingBefore, PendingAfter
<1>4. ASSUME PendingFrames' = PendingFrames, rx_last' = rx_last
      PROVE  [Fifo!RxFifoNext]_(Fifo!rxFifoVars)
  BY <1>4 DEF Fifo!rxFifoVars
<1>5. CASE LineKept
  <2>1. D' = D /\ a' = a /\ prev_rx_skb' = prev_rx_skb /\ rx_last' = rx_last
        /\ \A i \in D : rx_wu'[i] = rx_wu[i]
    BY <1>5 DEF LineKept
  <2> HIDE DEF D, a
  <2>2. WusFrom(rx_wu', a, Cardinality(D)) = WusFrom(rx_wu, a, Cardinality(D))
    BY <1>1, <1>2, <2>1, SameLine
  <2>3. PendingFrames' = PendingFrames
    BY <1>2, <1>3, <2>1, <2>2
  <2> QED
    BY <1>2, <1>4, <2>1, <2>3 DEF D, a
<1>6. CASE LineGrows
  <2> DEFINE c == rxdma.cur
  <2>1. /\ AreOlder(D, c, a) /\ SameBut(rx_wu', rx_wu, c)
        /\ D' = D \cup {c} /\ a' = a /\ prev_rx_skb' = prev_rx_skb /\ rx_last' = rx_last
    BY <1>6 DEF LineGrows
  <2>2. c \in RxSlots
    BY <1>1
  <2> HIDE DEF D, a, c
  <2>3. /\ AreOldest(D \cup {c}, a)
        /\ WusFrom(rx_wu', a, Cardinality(D \cup {c})) = Append(ring, rx_wu'[c])
    <3>1. /\ D \in SUBSET RxSlots /\ a \in RxSlots
          /\ rx_wu \in [RxSlots -> WorkUnit] /\ rx_wu' \in [RxSlots -> WorkUnit]
      BY <1>1
    <3>2. AreOldest(D, a) /\ AreOlder(D, c, a) /\ SameBut(rx_wu', rx_wu, c)
      BY <1>2, <2>1
    <3>3. /\ AreOldest(D \cup {c}, a)
          /\ WusFrom(rx_wu', a, Cardinality(D \cup {c}))
               = Append(WusFrom(rx_wu, a, Cardinality(D)), rx_wu'[c])
      BY <2>2, <3>1, <3>2, YoungestJoins
    <3> QED
      BY <3>3
  <2>4. ring \in Seq(WorkUnit) /\ rx_wu'[c] \in WorkUnit /\ rest = Append(ring, rx_wu'[c])
    <3>1. Cardinality(D) \in Nat /\ Cardinality(D) <= NUM_RDS
      BY <1>1, SlotCount
    <3>2. ring \in Seq(WorkUnit)
      BY <1>1, <3>1, WusFacts
    <3> QED
      BY <1>1, <2>1, <2>2, <2>3, <3>2
  <2> HIDE DEF ring, rest
  <2>5. prev_rx_skb' \o rest = Append(prev_rx_skb \o ring, rx_wu'[c])
        /\ prev_rx_skb \o ring \in Seq(WorkUnit)
    BY <1>1, <2>1, <2>4
  <2>6. \/ PendingFrames' = PendingFrames
        \/ \E f \in RxFrame : PendingFrames' = Append(PendingFrames, f)
    <3>1. PendingFrames' = FramesOf(Append(prev_rx_skb \o ring, rx_wu'[c]))
      BY <1>3, <2>1, <2>3, <2>5
    <3> QED
      BY <1>3, <2>4, <2>5, <3>1, FramesGrow
  <2>7. PendingFrames \in Seq(RxFrame)
    BY <1>3, <2>5, FramesFacts
  <2>8. [Fifo!RxFifoNext]_(Fifo!rxFifoVars)
    <3>1. CASE PendingFrames' = PendingFrames
      BY <1>4, <2>1, <3>1
    <3>2. CASE \E f \in RxFrame : PendingFrames' = Append(PendingFrames, f)
      <4>1. Len(PendingFrames') = Len(PendingFrames) + 1
        BY <2>7, <3>2
      <4>2. Fifo!Receive
        BY <2>1, <3>2, <4>1 DEF Fifo!Receive
      <4> QED
        BY <4>2 DEF Fifo!RxFifoNext
    <3> QED
      BY <2>6, <3>1, <3>2
  <2> QED
    BY <1>2, <2>1, <2>3, <2>8 DEF D, a
<1>7. CASE LineMovesOn
  <2> DEFINE wu == rx_wu[a]
  <2>1. /\ a \in D /\ D' = D \ {a} /\ a' = RxSlotAfter(a)
        /\ SameBut(rx_wu', rx_wu, a)
        /\ TakeSof(wu) \/ TakeFollowUp(wu) \/ TakeStatus(wu) \/ TakeInvalid(wu)
    BY <1>7 DEF LineMovesOn
  <2>2. rest = WusFrom(rx_wu', RxSlotAfter(a), Cardinality(D \ {a}))
    BY <2>1
  <2>3. wu \in WorkUnit
    BY <1>1
  <2> HIDE DEF D, a, wu, ring, rest
  <2>4. /\ AreOldest(D \ {a}, RxSlotAfter(a))
        /\ ring \in Seq(WorkUnit) /\ rest \in Seq(WorkUnit)
        /\ Follows(rest, ring) /\ ring[1] = wu
    BY <1>1, <1>2, <2>1, <2>2, OldestLeaves DEF ring, wu
  <2>5. /\ HeldInOrder(prev_rx_skb')
        /\ \/ PendingFrames' = PendingFrames /\ rx_last' = rx_last
           \/ /\ PendingFrames # << >>
              /\ rx_last' = Head(PendingFrames)
              /\ PendingFrames' = Tail(PendingFrames)
    <3>1. PendingFrames' = FramesOf(prev_rx_skb' \o rest)
      BY <1>3, <2>1, <2>4
    <3> QED
      BY <1>1, <1>2, <1>3, <2>1, <2>3, <2>4, <3>1, SortFrames
  <2>6. [Fifo!RxFifoNext]_(Fifo!rxFifoVars)
    <3>1. CASE PendingFrames' = PendingFrames /\ rx_last' = rx_last
      BY <1>4, <3>1
    <3>2. CASE /\ PendingFrames # << >> /\ rx_last' = Head(PendingFrames)
               /\ PendingFrames' = Tail(PendingFrames)
      BY <3>2 DEF Fifo!RxFifoNext, Fifo!Deliver
    <3> QED
      BY <2>5, <3>1, <3>2
  <2> QED
    BY <2>1, <2>4, <2>5, <2>6 DEF D, a
<1> QED
  BY <1>5, <1>6, <1>7, LineSteps DEF RxLineInv

\* The line is empty when the interface is opened.
LEMMA RxFifoStart == RxInit => RxLineInv /\ Fifo!RxFifoInit
<1> SUFFICES ASSUME RxInit PROVE RxLineInv /\ Fifo!RxFifoInit
  OBVIOUS
<1>1. RxRingInv
  BY RxInitRing
<1>2. Done = {} /\ prev_rx_skb = << >> /\ FirstUntaken \in RxSlots
      /\ rx_wu \in [RxSlots -> WorkUnit] /\ rx_last \in RxFrame
  <2>1. Done = {}
    BY Zenon DEF RxInit, Done, NoWu, Wu
  <2>2. prev_rx_skb = << >>
    BY DEF RxInit
  <2> QED
    BY <1>1, <2>1, <2>2, RingSlots DEF RxRingInv, RxTypeOK, RxRingType, PrevRxType
<1>3. Cardinality(Done) = 0
  BY <1>2, FS_EmptySet
<1>4. AreOldest(Done, FirstUntaken)
  <2>1. \A i \in RxSlots : ~(RxOffset(FirstUntaken, i) < 0)
    BY <1>2, AgeFacts
  <2> QED
    BY <1>2, <1>3, <2>1 DEF AreOldest
<1>5. HeldInOrder(prev_rx_skb)
  BY <1>2 DEF HeldInOrder
<1>6. PICK line \in Seq(WorkUnit) :
        line = prev_rx_skb \o WusFrom(rx_wu, FirstUntaken, Cardinality(Done)) /\ Len(line) = 0
  <2> DEFINE ring == WusFrom(rx_wu, FirstUntaken, Cardinality(Done))
  <2>1. 0 \in Nat /\ 0 <= NUM_RDS
    BY RxConstants
  <2>2. ring \in Seq(WorkUnit) /\ Len(ring) = 0
    BY <1>2, <1>3, <2>1, WusFacts
  <2> HIDE DEF ring
  <2>3. prev_rx_skb \o ring \in Seq(WorkUnit) /\ Len(prev_rx_skb \o ring) = 0
    BY <1>2, <2>2
  <2> QED
    BY <2>3 DEF ring
<1>7. FramesOf(line) \in Seq(RxFrame) /\ Len(FramesOf(line)) = 0
  <2>1. Starts(line) = {}
    BY <1>6 DEF Starts
  <2> QED
    BY <2>1, FramesFacts, FS_EmptySet
<1>8. PendingFrames = << >>
  <2>1. PendingFrames = FramesOf(line)
    BY <1>2, <1>4, <1>6, PendingBefore
  <2> QED
    BY <1>7, <2>1
<1> QED
  BY <1>1, <1>2, <1>4, <1>5, <1>8 DEF RxLineInv, Fifo!RxFifoInit

\* On a machine where the CPU sees what the DMA wrote, adi_msp_rx gives the
\* stack the frames that were received without error, each once and in the
\* order of reception, whatever the ring size, the budget and the place where
\* the poll and the DMA meet, and whichever work units are garbled or lost.
THEOREM RxImplementsFifo ==
    ASSUME Coherent
    PROVE  RxSpec => ImplementsRxFifo
<1>1. RxInit => RxLineInv /\ Fifo!RxFifoInit
  BY RxFifoStart
<1>2. RxLineInv /\ [RxNext]_rxVars => RxLineInv' /\ [Fifo!RxFifoNext]_(Fifo!rxFifoVars)
  <2> SUFFICES ASSUME RxLineInv, [RxNext]_rxVars
               PROVE  RxLineInv' /\ [Fifo!RxFifoNext]_(Fifo!rxFifoVars)
    OBVIOUS
  <2>1. RxRingInv'
    BY RxStepRing DEF RxLineInv
  <2>2. RxTypeOK'
    BY <2>1 DEF RxRingInv
  <2>3. /\ AreOldest(Done', FirstUntaken') /\ HeldInOrder(prev_rx_skb')
        /\ [Fifo!RxFifoNext]_(Fifo!rxFifoVars)
    BY <2>2, RxFifoStep
  <2> QED
    BY <2>1, <2>3 DEF RxLineInv
<1> QED
  BY <1>1, <1>2, PTL DEF RxSpec, ImplementsRxFifo, Fifo!RxFifoSpec
=============================================================================
