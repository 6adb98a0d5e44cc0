-------------------------- MODULE MspTxFlowProofs --------------------------
(***************************************************************************)
(* Proofs about what flows through the transmit path: the ring of status   *)
(* work units between the status DMA and adi_msp_status, and the frames    *)
(* between adi_msp_send_packet, the Tx DMA and the status; and that all of *)
(* it together implements TxFifo.                                          *)
(***************************************************************************)
EXTENDS MspTxProofs, MspTxRefinement

(***************************************************************************)
(* The status ring.  The status DMA fills it from the oldest free work     *)
(* unit on, the poll clears it from the oldest written one on, and the     *)
(* descriptor before the first uncleared one stops the DMA.  All of this   *)
(* survives reset_tx, which leaves the ring as it is.                      *)
(***************************************************************************)

\* The oldest work unit the poll has not cleared, and a slot's distance to it.
FirstUncleared ==
    IF plPc \in {"link", "ack"} THEN SlotAfter(tx_next_done) ELSE tx_next_done
StAge(i) == Offset(FirstUncleared, i)

\* The slot whose descriptor stops the status DMA.
LastStatus == IF plPc = "ack" THEN tx_next_done ELSE SlotBefore(tx_next_done)

StActive  == stdma.run # Halt
StLatched == stdma.run \in {"run", "write"}

\* The work units whose first beat has arrived, and the complete ones.
Written  == {i \in Slots : status_wu[i].type # 0}
Complete == {i \in Slots : status_wu[i].stamped}

\* A work unit is zero, being written by the status DMA, or complete.
WrittenOrZero ==
    /\ Complete \subseteq Written
    /\ \A i \in Slots : i \in Written \/ status_wu[i] = ZeroWu
    /\ \A i \in Written : i \in Complete \/ (stdma.run = "write" /\ stdma.cur = i)
    /\ stdma.run = "write" => stdma.cur \in Written

\* The complete work units are the oldest ones: those the status DMA has left
\* behind.
WrittenInOrder ==
    /\ StActive => \A i \in Slots : i \in Complete <=> StAge(i) < StAge(stdma.cur)
    /\ \A i \in Complete, j \in Slots : StAge(j) < StAge(i) => j \in Complete

\* DSCPTR_PRV is the youngest of them, or the one that was cleared last.
StPrevIsYoungest ==
    /\ \A i \in Complete : dscptr_prv \in Complete /\ StAge(i) <= StAge(dscptr_prv)
    /\ dscptr_prv \in Complete \/ dscptr_prv = SlotBefore(FirstUncleared)
    /\ StActive => dscptr_prv # stdma.cur

\* The status DMA does not run past the last slot.
StStopsAtLast ==
    /\ sd_flow[LastStatus] = "stop"
    /\ plPc \in {"link", "ack"} => sd_flow[tx_next_done] = "stop"
    /\ StLatched /\ stdma.cur = LastStatus => stdma.flow = "stop"
    /\ StActive /\ plPc = "link" => stdma.cur # tx_next_done

\* What the poll has seen of the work unit it looks at.
PollKnows ==
    /\ plPc = "check" => tx_next_done \in Written
    /\ plPc \in {"put", "wakecheck", "wake", "finish", "recycle"} => tx_next_done \in Complete

StRing == WrittenOrZero /\ WrittenInOrder /\ StPrevIsYoungest /\ StStopsAtLast
StInv  == StRing /\ PollKnows

\* Neighbours in the ring are different slots, and undo each other.
LEMMA Neighbours ==
    \A i \in Slots : /\ SlotAfter(i) # i /\ SlotBefore(i) # i
                     /\ SlotBefore(SlotAfter(i)) = i
                     /\ SlotAfter(SlotBefore(i)) = i
BY TxConstants DEF Slots, SlotAfter, SlotBefore

\* The ends of the status ring and the registers are slots.
LEMMA StRingSlots ==
    ASSUME TypeOK
    PROVE  /\ tx_next_done \in Slots /\ FirstUncleared \in Slots /\ LastStatus \in Slots
           /\ stdma.cur \in Slots /\ dscptr_prv \in Slots
           /\ Complete \subseteq Slots /\ Written \subseteq Slots
BY SlotFacts DEF TypeOK, ChainType, HwType, FirstUncleared, LastStatus, Complete, Written

\* Work units that are not touched keep their state.
LEMMA SameWus == ASSUME UNCHANGED status_wu PROVE Complete' = Complete /\ Written' = Written
BY DEF Complete, Written

\* The status ring after adi_msp_open.
LEMMA StInitInv == Init => StInv
<1> SUFFICES ASSUME Init PROVE StInv
  OBVIOUS
<1>1. Complete = {} /\ Written = {}
  BY Zenon DEF Init, Complete, Written, ZeroWu
<1>2. FirstUncleared = 0 /\ stdma.cur = 0 /\ stdma.run = "fetch" /\ dscptr_prv = NUM_TDS - 1
  BY DEF Init, FirstUncleared, StDmaAt, StDmaHalted
<1>3. WrittenOrZero
  BY <1>1, <1>2 DEF WrittenOrZero, Init
<1>4. WrittenInOrder
  BY <1>1, <1>2, SlotFacts, OffsetFacts DEF WrittenInOrder, StAge
<1>5. StPrevIsYoungest
  BY <1>1, <1>2, TxConstants DEF StPrevIsYoungest, SlotBefore
<1>6. LastStatus = NUM_TDS - 1 /\ sd_flow[NUM_TDS - 1] = "stop"
  BY SlotFacts DEF Init, LastStatus, SlotBefore
<1>7. StStopsAtLast
  BY <1>2, <1>6 DEF StStopsAtLast, Init, StLatched
<1>8. PollKnows
  BY DEF PollKnows, Init
<1> QED
  BY <1>3, <1>4, <1>5, <1>7, <1>8 DEF StInv, StRing

\* A step that touches neither the ring nor the engine, and moves neither
\* end, keeps the ring as it is.
LEMMA StLooking ==
    ASSUME StInv, UNCHANGED <<status_wu, sd_flow, tx_next_done, stdma, dscptr_prv>>,
           plPc' = plPc \/ (plPc \notin {"link", "ack"} /\ plPc' \notin {"link", "ack"})
    PROVE  StRing'
<1>1. Complete' = Complete /\ Written' = Written
  BY SameWus
<1>2. FirstUncleared' = FirstUncleared /\ LastStatus' = LastStatus
  BY DEF FirstUncleared, LastStatus
<1>3. WrittenOrZero' /\ WrittenInOrder' /\ StPrevIsYoungest'
  BY <1>1, <1>2 DEF StInv, StRing, WrittenOrZero, WrittenInOrder, StPrevIsYoungest, StAge, StActive
<1>4. StStopsAtLast'
  BY <1>2 DEF StInv, StRing, StStopsAtLast, StActive, StLatched
<1> QED
  BY <1>3, <1>4 DEF StRing

\* reset_desc_and_wu: the status DMA is not at the slot that is cleared.
LEMMA StRecycle ==
    ASSUME TypeOK, StInv, RecycleStop
    PROVE  StRing'
<1> DEFINE d == tx_next_done
           c == stdma.cur
<1>1. /\ d \in Slots /\ c \in Slots /\ dscptr_prv \in Slots /\ SlotBefore(d) \in Slots
      /\ Complete \subseteq Slots /\ Written \subseteq Slots
      /\ SlotBefore(d) # d /\ SlotBefore(SlotAfter(d)) = d
  BY StRingSlots, SlotFacts, Neighbours
<1>2. /\ FirstUncleared = d /\ FirstUncleared' = SlotAfter(d)
      /\ LastStatus = SlotBefore(d) /\ LastStatus' = LastStatus
      /\ UNCHANGED <<stdma, dscptr_prv>> /\ plPc' = "link" /\ tx_next_done' = d
  BY DEF FirstUncleared, LastStatus, RecycleStop, hwVars, stVars
<1>3. d \in Complete
  BY DEF StInv, PollKnows, RecycleStop
<1>4. /\ status_wu' = [status_wu EXCEPT ![d] = ZeroWu] /\ DOMAIN status_wu = Slots
      /\ sd_flow' = [sd_flow EXCEPT ![d] = "stop"] /\ DOMAIN sd_flow = Slots
  BY DEF RecycleStop, ResetDescAndWu, TypeOK, RingType
<1>5. Complete' = Complete \ {d} /\ Written' = Written \ {d}
  <2>1. ZeroWu.stamped = FALSE /\ ZeroWu.type = 0
    BY DEF ZeroWu
  <2> QED
    BY <1>1, <1>4, <2>1, Zenon DEF Complete, Written
<1>6. StActive => c # d
  BY <1>1, <1>2, <1>3, OffsetFacts DEF StInv, StRing, WrittenInOrder, StAge
<1>7. \A i \in Slots : /\ i # d => Offset(SlotAfter(d), i) = Offset(d, i) - 1
                       /\ Offset(d, i) \in 0 .. NUM_TDS - 1 /\ (i # d => Offset(d, i) > 0)
  BY <1>1, OffsetFromNext, OffsetFacts
<1>8. Offset(SlotAfter(d), d) = NUM_TDS - 1
  BY <1>1, OffsetFromNext
<1>9. WrittenOrZero'
  <2>1. status_wu'[d] = ZeroWu /\ \A i \in Slots : i # d => status_wu'[i] = status_wu[i]
    BY <1>1, <1>4
  <2> QED
    BY <1>1, <1>2, <1>5, <1>6, <2>1 DEF StInv, StRing, WrittenOrZero, StActive, Halt
<1>10. WrittenInOrder'
  <2>1. StActive' => \A i \in Slots : i \in Complete' <=> StAge(i)' < StAge(stdma.cur)'
    <3> SUFFICES ASSUME StActive', NEW i \in Slots
                 PROVE  i \in Complete' <=> Offset(SlotAfter(d), i) < Offset(SlotAfter(d), c)
      BY <1>2 DEF StAge
    <3>1. i \in Complete <=> Offset(d, i) < Offset(d, c)
      BY <1>2 DEF StInv, StRing, WrittenInOrder, StAge, StActive
    <3>2. Offset(SlotAfter(d), c) = Offset(d, c) - 1 /\ Offset(d, c) \in 0 .. NUM_TDS - 1
      BY <1>1, <1>2, <1>6, <1>7 DEF StActive
    <3>3. CASE i = d
      BY <1>5, <1>8, <3>2, <3>3, TxConstants
    <3>4. CASE i # d
      <4>1. Offset(d, i) < Offset(d, c) <=> Offset(SlotAfter(d), i) < Offset(SlotAfter(d), c)
        BY <1>7, <3>2, <3>4
      <4> QED
        BY <1>5, <3>1, <3>4, <4>1, Zenon
    <3> QED
      BY <3>3, <3>4
  <2>2. \A i \in Complete', j \in Slots : StAge(j)' < StAge(i)' => j \in Complete'
    <3> SUFFICES ASSUME NEW i \in Complete', NEW j \in Slots,
                        Offset(SlotAfter(d), j) < Offset(SlotAfter(d), i)
                 PROVE  j \in Complete'
      BY <1>2 DEF StAge
    <3>1. i \in Complete /\ i # d /\ i \in Slots
      BY <1>1, <1>5
    <3>2. j # d
      BY <1>7, <1>8, <3>1, TxConstants
    <3>3. Offset(d, j) < Offset(d, i)
      BY <1>7, <3>1, <3>2
    <3>4. j \in Complete
      BY <1>2, <3>1, <3>3 DEF StInv, StRing, WrittenInOrder, StAge
    <3> QED
      BY <1>5, <3>2, <3>4
  <2> QED
    BY <2>1, <2>2 DEF WrittenInOrder
<1>11. StPrevIsYoungest'
  <2>1. dscptr_prv \in Complete
    BY <1>3 DEF StInv, StRing, StPrevIsYoungest
  <2>2. ASSUME NEW i \in Complete'
        PROVE  /\ dscptr_prv \in Complete'
               /\ Offset(SlotAfter(d), i) <= Offset(SlotAfter(d), dscptr_prv)
    <3>1. i \in Complete /\ i # d /\ i \in Slots
      BY <1>1, <1>5
    <3>2. Offset(d, i) <= Offset(d, dscptr_prv)
      BY <1>2, <3>1 DEF StInv, StRing, StPrevIsYoungest, StAge
    <3>3. dscptr_prv # d
      BY <1>1, <1>7, <3>1, <3>2, OffsetFacts
    <3> QED
      BY <1>1, <1>5, <1>7, <2>1, <3>1, <3>2, <3>3
  <2>3. dscptr_prv' \in Complete' \/ dscptr_prv' = SlotBefore(FirstUncleared)'
    BY <1>1, <1>2, <1>5, <2>1
  <2>4. StActive' => dscptr_prv' # stdma'.cur
    BY <1>2 DEF StInv, StRing, StPrevIsYoungest, StActive
  <2> QED
    BY <1>2, <2>2, <2>3, <2>4 DEF StPrevIsYoungest, StAge
<1>12. StStopsAtLast'
  BY <1>1, <1>2, <1>4, <1>6 DEF StInv, StRing, StStopsAtLast, StActive, StLatched
<1> QED
  BY <1>9, <1>10, <1>11, <1>12 DEF StRing

\* Letting the previous descriptor continue: the last slot moves on.
LEMMA StLink ==
    ASSUME TypeOK, StInv, RecycleLink
    PROVE  StRing'
<1> DEFINE d == tx_next_done
<1>1. d \in Slots /\ SlotBefore(d) \in Slots /\ SlotBefore(d) # d
  BY StRingSlots, SlotFacts, Neighbours
<1>2. Complete' = Complete /\ Written' = Written
  BY SameWus DEF RecycleLink
<1>3. FirstUncleared' = FirstUncleared /\ LastStatus' = d
      /\ UNCHANGED <<status_wu, stdma, dscptr_prv>>
  BY DEF RecycleLink, FirstUncleared, LastStatus, hwVars, stVars
<1>4. WrittenOrZero' /\ WrittenInOrder' /\ StPrevIsYoungest'
  BY <1>2, <1>3 DEF StInv, StRing, WrittenOrZero, WrittenInOrder, StPrevIsYoungest, StAge, StActive
<1>5. sd_flow'[d] = sd_flow[d]
  BY <1>1 DEF RecycleLink, TypeOK, RingType
<1>6. StStopsAtLast'
  BY <1>3, <1>5 DEF RecycleLink, StInv, StRing, StStopsAtLast, StActive, StLatched, Halt
<1> QED
  BY <1>4, <1>6 DEF StRing

\* Advancing tx_next_done: neither end of the ring moves.
LEMMA StAck ==
    ASSUME TypeOK, StInv, RecycleAck
    PROVE  StRing'
<1> DEFINE d == tx_next_done
<1>1. d \in Slots /\ SlotBefore(SlotAfter(d)) = d
  BY StRingSlots, Neighbours
<1>2. Complete' = Complete /\ Written' = Written
  BY SameWus DEF RecycleAck, ringVars
<1>3. FirstUncleared' = FirstUncleared /\ LastStatus = d /\ LastStatus' = d
      /\ UNCHANGED <<status_wu, sd_flow, stdma, dscptr_prv>>
  BY <1>1 DEF RecycleAck, FirstUncleared, LastStatus, ringVars
<1>4. WrittenOrZero' /\ WrittenInOrder' /\ StPrevIsYoungest'
  BY <1>2, <1>3 DEF StInv, StRing, WrittenOrZero, WrittenInOrder, StPrevIsYoungest, StAge, StActive
<1>5. StStopsAtLast'
  BY <1>3 DEF RecycleAck, StInv, StRing, StStopsAtLast, StActive, StLatched
<1> QED
  BY <1>4, <1>5 DEF StRing

\* If the oldest work unit is zero, all of them are, or about to be written.
LEMMA StEmpty ==
    ASSUME TypeOK, StInv, status_wu[FirstUncleared].type = 0
    PROVE  Complete = {}
<1> SUFFICES ASSUME NEW i \in Complete PROVE FALSE
  OBVIOUS
<1>1. i \in Slots /\ FirstUncleared \in Slots
  BY StRingSlots
<1>2. FirstUncleared \notin Complete
  BY DEF StInv, StRing, WrittenOrZero, Written
<1>3. i # FirstUncleared /\ StAge(FirstUncleared) < StAge(i)
  BY <1>1, <1>2, OffsetFacts DEF StAge
<1> QED
  BY <1>1, <1>2, <1>3 DEF StInv, StRing, WrittenInOrder

\* Restarting the halted status DMA at a zero work unit: the ring is empty.
LEMMA StRestart ==
    ASSUME TypeOK, StInv, plPc \notin {"link", "ack"}, plPc' \notin {"link", "ack"},
           stdma.run = Halt, status_wu[tx_next_done].type = 0,
           stdma' = StDmaAt(tx_next_done),
           UNCHANGED <<status_wu, sd_flow, tx_next_done, dscptr_prv>>
    PROVE  StRing'
<1> DEFINE d == tx_next_done
<1>1. d \in Slots /\ dscptr_prv \in Slots
  BY StRingSlots
<1>2. Complete' = Complete /\ Written' = Written
  BY SameWus
<1>3. FirstUncleared = d /\ FirstUncleared' = d /\ LastStatus' = LastStatus
  BY DEF FirstUncleared, LastStatus
<1>4. stdma'.run = "fetch" /\ stdma'.cur = d
  BY DEF StDmaAt, StDmaHalted
<1>5. Complete = {}
  BY <1>3, StEmpty
<1>6. dscptr_prv = SlotBefore(d) /\ dscptr_prv # d
  BY <1>1, <1>3, <1>5, Neighbours DEF StInv, StRing, StPrevIsYoungest
<1>7. WrittenOrZero'
  BY <1>2, <1>4 DEF StInv, StRing, WrittenOrZero, Halt
<1>8. WrittenInOrder'
  BY <1>1, <1>2, <1>3, <1>4, <1>5, OffsetFacts DEF WrittenInOrder, StAge
<1>9. StPrevIsYoungest'
  BY <1>2, <1>3, <1>4, <1>5, <1>6 DEF StPrevIsYoungest
<1>10. StStopsAtLast'
  BY <1>3, <1>4 DEF StInv, StRing, StStopsAtLast, StLatched
<1> QED
  BY <1>7, <1>8, <1>9, <1>10 DEF StRing

\* The status DMA reads its descriptor.
LEMMA StFetched ==
    ASSUME TypeOK, StInv, StFetch
    PROVE  StRing'
<1>1. UNCHANGED <<status_wu, sd_flow, tx_next_done, dscptr_prv, plPc>>
  BY DEF StFetch, drvVars, ringVars, plVars
<1>2. Complete' = Complete /\ Written' = Written
  BY <1>1, SameWus
<1>3. FirstUncleared' = FirstUncleared /\ LastStatus' = LastStatus
  BY <1>1 DEF FirstUncleared, LastStatus
<1>4. /\ stdma'.run = "run" /\ stdma'.cur = stdma.cur
      /\ stdma'.flow = sd_flow[stdma.cur] /\ stdma.run = "fetch"
  BY DEF StFetch, TypeOK, HwType
<1>5. WrittenOrZero' /\ WrittenInOrder' /\ StPrevIsYoungest'
  BY <1>1, <1>2, <1>3, <1>4
     DEF StInv, StRing, WrittenOrZero, WrittenInOrder, StPrevIsYoungest, StAge, StActive, Halt
<1>6. StStopsAtLast'
  BY <1>1, <1>3, <1>4 DEF StInv, StRing, StStopsAtLast, StActive, StLatched, Halt
<1> QED
  BY <1>5, <1>6 DEF StRing

\* A report is a started work unit: never zero, not yet stamped.
LEMMA ReportStarted ==
    ASSUME NEW skb \in Skb, NEW wu \in Report(skb)
    PROVE  wu.type # 0 /\ wu.stamped = FALSE
<1> DEFINE truth == [type |-> WU_TYPE_TX_STAT, err |-> FALSE, class |-> skb.class,
                     tag |-> skb.tag, stamped |-> FALSE]
<1>1. truth.type = 3 /\ truth.stamped = FALSE
  BY DEF WU_TYPE_TX_STAT
<1>2. \/ wu = truth \/ wu = [truth EXCEPT !.err = TRUE]
      \/ wu = [truth EXCEPT !.type = 1]
      \/ \E cl \in FrameClass : wu = [truth EXCEPT !.class = cl]
      \/ \E t \in 0 .. MAX_PTP_TAG : wu = [truth EXCEPT !.tag = t]
  BY DEF Report
<1>3. wu.type \in {1, 3}
  BY <1>1, <1>2
<1>4. wu.stamped = FALSE
  BY <1>1, <1>2, Zenon
<1> QED
  BY <1>3, <1>4

\* The first beat goes to a zero work unit.
LEMMA StBeat ==
    ASSUME TypeOK, StInv, StFirstBeat
    PROVE  StRing' /\ Complete' = Complete /\ Written \subseteq Written'
<1> DEFINE c == stdma.cur
<1>1. c \in Slots /\ FirstUncleared \in Slots
  BY StRingSlots
<1>2. /\ stdma.run = "run" /\ stdma'.run = "write" /\ stdma'.cur = c
      /\ stdma'.flow = stdma.flow
      /\ UNCHANGED <<sd_flow, tx_next_done, dscptr_prv, plPc>>
  BY DEF StFirstBeat, TypeOK, HwType, plVars
<1>3. c \notin Complete
  BY <1>1, <1>2, OffsetFacts DEF StInv, StRing, WrittenInOrder, StAge, StActive, Halt
<1>4. PICK wu \in Report(Head(mspq)) : status_wu' = [status_wu EXCEPT ![c] = wu]
  BY DEF StFirstBeat
<1>5. wu.type # 0 /\ wu.stamped = FALSE
  <2>1. Head(mspq) \in Skb
    BY DEF StFirstBeat, TypeOK, HwType
  <2> QED
    BY <2>1, ReportStarted
<1>6. DOMAIN status_wu = Slots
  BY DEF TypeOK, RingType
<1>7. Written' = Written \cup {c} /\ Complete' = Complete
  <2>1. Written' = Written \cup {c}
    BY <1>1, <1>4, <1>5, <1>6, Zenon DEF Written
  <2>2. Complete' = Complete \ {c}
    BY <1>1, <1>4, <1>5, <1>6, Zenon DEF Complete
  <2> QED
    BY <1>3, <2>1, <2>2
<1>8. FirstUncleared' = FirstUncleared /\ LastStatus' = LastStatus
  BY <1>2 DEF FirstUncleared, LastStatus
<1>9. WrittenOrZero'
  <2>1. \A i \in Slots : i # c => status_wu'[i] = status_wu[i]
    BY <1>1, <1>4, <1>6
  <2> QED
    BY <1>2, <1>7, <2>1 DEF StInv, StRing, WrittenOrZero
<1>10. WrittenInOrder' /\ StPrevIsYoungest'
  BY <1>2, <1>7, <1>8
     DEF StInv, StRing, WrittenInOrder, StPrevIsYoungest, StAge, StActive, Halt
<1>11. StStopsAtLast'
  BY <1>2, <1>8 DEF StInv, StRing, StStopsAtLast, StActive, StLatched, Halt
<1> QED
  BY <1>7, <1>9, <1>10, <1>11 DEF StRing

\* Completing a work unit: the status DMA goes on to the next slot, which is
\* not the oldest one, or halts.
LEMMA StCompleted ==
    ASSUME TypeOK, StInv, StDone
    PROVE  StRing' /\ Complete' = Complete \cup {stdma.cur} /\ Written' = Written
<1> DEFINE c == stdma.cur
           d == tx_next_done
           F == FirstUncleared
<1>1. /\ c \in Slots /\ F \in Slots /\ d \in Slots
      /\ SlotAfter(c) \in Slots /\ SlotAfter(c) # c /\ Complete \subseteq Slots
  BY StRingSlots, SlotFacts, Neighbours
<1>2. /\ stdma.run = "write" /\ dscptr_prv' = c
      /\ UNCHANGED <<sd_flow, tx_next_done, plPc>>
  BY DEF StDone, plVars
<1>3. \A i \in Slots : i \in Complete <=> Offset(F, i) < Offset(F, c)
  BY <1>2 DEF StInv, StRing, WrittenInOrder, StAge, StActive, Halt
<1>4. Complete' = Complete \cup {c} /\ Written' = Written
      /\ \A i \in Slots : i # c => status_wu'[i] = status_wu[i]
  <2>1. /\ DOMAIN status_wu = Slots /\ status_wu[c] \in StatusWu
        /\ status_wu' = [status_wu EXCEPT ![c] = [status_wu[c] EXCEPT !.stamped = TRUE]]
    BY <1>1 DEF StDone, TypeOK, RingType
  <2>2. [status_wu[c] EXCEPT !.stamped = TRUE].type = status_wu[c].type
    BY <2>1 DEF StatusWu
  <2>3. [status_wu[c] EXCEPT !.stamped = TRUE].stamped = TRUE
    BY <2>1, Zenon DEF StatusWu
  <2>4. Written' = Written
    BY <1>1, <2>1, <2>2, Zenon DEF Written
  <2>5. Complete' = Complete \cup {c}
    BY <1>1, <2>1, <2>3, Zenon DEF Complete
  <2> QED
    BY <1>1, <2>1, <2>4, <2>5
<1>5. F' = F /\ LastStatus' = LastStatus
  BY <1>2 DEF FirstUncleared, LastStatus
<1>6. c \in Written
  BY <1>2 DEF StInv, StRing, WrittenOrZero
<1>7. \A i \in Slots : i \in Complete' <=> Offset(F, i) <= Offset(F, c)
  BY <1>1, <1>3, <1>4, OffsetFacts, OffsetInjective
<1>8. \A i \in Complete', j \in Slots : StAge(j)' < StAge(i)' => j \in Complete'
  <2> SUFFICES ASSUME NEW i \in Complete', NEW j \in Slots, Offset(F, j) < Offset(F, i)
               PROVE  j \in Complete'
    BY <1>5 DEF StAge
  <2>1. i \in Slots
    BY <1>1, <1>4
  <2> QED
    BY <1>1, <1>7, <2>1, OffsetFacts
<1>9. /\ \A i \in Complete' : dscptr_prv' \in Complete' /\ StAge(i)' <= StAge(dscptr_prv)'
      /\ dscptr_prv' \in Complete'
  BY <1>1, <1>2, <1>4, <1>5, <1>7 DEF StAge
<1>10. CASE stdma.flow = "dscl"
  <2>1. stdma'.run = "fetch" /\ stdma'.cur = SlotAfter(c)
    BY <1>10 DEF StDone, StDmaAt, StDmaHalted
  <2>2. c # LastStatus
    BY <1>2, <1>10 DEF StInv, StRing, StStopsAtLast, StLatched
  <2>3. SlotAfter(c) # F /\ (plPc = "link" => SlotAfter(c) # d)
    <3>1. SlotBefore(SlotAfter(c)) = c /\ SlotBefore(SlotAfter(d)) = d
      BY <1>1, Neighbours
    <3>2. CASE plPc = "link"
      <4>1. c # d
        BY <1>2, <3>2 DEF StInv, StRing, StStopsAtLast, StActive, Halt
      <4>2. F = SlotAfter(d) /\ LastStatus = SlotBefore(d)
        BY <3>2 DEF FirstUncleared, LastStatus
      <4> QED
        BY <2>2, <3>1, <4>1, <4>2
    <3>3. CASE plPc # "link"
      BY <2>2, <3>1, <3>3 DEF FirstUncleared, LastStatus
    <3> QED
      BY <3>2, <3>3
  <2>4. Offset(F, SlotAfter(c)) = Offset(F, c) + 1
    BY <1>1, <2>3, OffsetToNext, OffsetFacts
  <2>5. \A i \in Slots : i \in Complete' <=> Offset(F, i) < Offset(F, SlotAfter(c))
    <3> SUFFICES ASSUME NEW i \in Slots
                 PROVE  Offset(F, i) <= Offset(F, c) <=> Offset(F, i) < Offset(F, SlotAfter(c))
      BY <1>7
    <3> QED
      BY <1>1, <2>4, OffsetFacts
  <2>6. WrittenOrZero'
    BY <1>2, <1>4, <1>6, <2>1 DEF StInv, StRing, WrittenOrZero
  <2>7. WrittenInOrder'
    BY <1>5, <1>8, <2>1, <2>5 DEF WrittenInOrder, StAge
  <2>8. StPrevIsYoungest'
    BY <1>1, <1>2, <1>9, <2>1 DEF StPrevIsYoungest
  <2>9. StStopsAtLast'
    BY <1>2, <1>5, <2>1, <2>3 DEF StInv, StRing, StStopsAtLast, StLatched
  <2> QED
    BY <1>4, <2>6, <2>7, <2>8, <2>9 DEF StRing
<1>11. CASE stdma.flow # "dscl"
  <2>1. stdma'.run = Halt
    BY <1>11 DEF StDone, StDmaHalted
  <2>2. WrittenOrZero'
    BY <1>2, <1>4, <1>6, <2>1 DEF StInv, StRing, WrittenOrZero, Halt
  <2>3. WrittenInOrder' /\ StPrevIsYoungest'
    BY <1>8, <1>9, <2>1 DEF WrittenInOrder, StPrevIsYoungest, StActive
  <2>4. StStopsAtLast'
    BY <1>2, <1>5, <2>1 DEF StInv, StRing, StStopsAtLast, StActive, StLatched, Halt
  <2> QED
    BY <1>4, <2>2, <2>3, <2>4 DEF StRing
<1> QED
  BY <1>10, <1>11

\* Every step of sender, poll and hardware keeps the status ring in order.
LEMMA StStepInv == TypeOK /\ StInv /\ [Next]_vars => StInv'
<1> SUFFICES ASSUME TypeOK, StInv, [Next]_vars PROVE StInv'
  OBVIOUS
<1> USE DEF drvVars, ringVars, tagVars, chainVars, sndVars, plVars, stVars, hwVars
<1> DEFINE same == UNCHANGED <<status_wu, sd_flow, tx_next_done, stdma, dscptr_prv>>
           idling == plPc' \in {"idle", "loop", "restart", "halt"}
\* The sender and the Tx DMA do not come near the status ring.
<1>1. ASSUME NEW c \in Classes, SendPacket(c) PROVE same /\ plPc' = plPc
  BY <1>1 DEF SendPacket
<1>2. ASSUME SendStep PROVE same /\ plPc' = plPc
  BY <1>2 DEF SendStep, SendCheck, SendStopQueue, SendMap, SendCommit, SendStat, SendChain
<1>3. ASSUME TxDmaStep \/ UNCHANGED vars PROVE same /\ plPc' = plPc
  BY <1>3 DEF TxDmaStep, TxDmaFetch, TxDmaXfer, vars
<1>4. CASE same /\ plPc' = plPc
  <2>1. Complete' = Complete /\ Written' = Written
    BY <1>4, SameWus
  <2> QED
    BY <1>4, <2>1, StLooking DEF StInv, PollKnows
\* The poll while it only looks, and where it returns.
<1>5. ASSUME StatusIrq PROVE same /\ idling /\ plPc \notin {"link", "ack"}
  BY <1>5 DEF StatusIrq
<1>6. ASSUME PollRestart PROVE same /\ idling /\ plPc \notin {"link", "ack"}
  BY <1>6 DEF PollRestart
<1>7. CASE same /\ idling /\ plPc \notin {"link", "ack"}
  BY <1>7, StLooking DEF StInv, PollKnows
<1>8. CASE PollRead
  <2>1. same /\ plPc = "loop" /\ plPc' \in {"restart", "check"}
        /\ (plPc' = "check" => status_wu[tx_next_done].type # 0)
    BY <1>8 DEF PollRead
  <2>2. Written' = Written
    BY <2>1, SameWus
  <2>3. PollKnows'
    BY <2>1, <2>2, StRingSlots DEF PollKnows, Written
  <2> QED
    BY <2>1, <2>3, StLooking DEF StInv
<1>9. CASE PollCheck
  <2>1. same /\ plPc = "check" /\ plPc' \in {"restart", "idle", "loop", "put"}
        /\ (plPc' = "put" => ~StatusInProgress(tx_next_done))
    BY <1>9 DEF PollCheck, reset_tx, PollReturn
  <2>2. Complete' = Complete
    BY <2>1, SameWus
  <2>3. ASSUME ~StatusInProgress(tx_next_done) PROVE tx_next_done \in Complete
    BY <2>1, <2>3 DEF StatusInProgress, StInv, PollKnows, StRing, WrittenOrZero,
                      StPrevIsYoungest, StActive, Halt
  <2>4. PollKnows'
    BY <2>1, <2>2, <2>3 DEF PollKnows
  <2> QED
    BY <2>1, <2>4, StLooking DEF StInv
<1>10. CASE PollPut \/ PollWakeCheck \/ PollWake \/ PollFinish
  <2>1. same /\ plPc \in {"put", "wakecheck", "wake", "finish"}
        /\ (idling \/ plPc' \in {"put", "wakecheck", "wake", "finish", "recycle"})
    BY <1>10 DEF PollPut, PollWakeCheck, PollWake, PollFinish, reset_tx, PollReturn
  <2>2. Complete' = Complete
    BY <2>1, SameWus
  <2>3. PollKnows'
    BY <2>1, <2>2 DEF StInv, PollKnows
  <2> QED
    BY <2>1, <2>3, StLooking DEF StInv
\* The poll where it gives a work unit back.
<1>11. CASE RecycleStop
  BY <1>11, StRecycle DEF StInv, RecycleStop, PollKnows
<1>12. CASE RecycleLink
  BY <1>12, StLink DEF StInv, RecycleLink, PollKnows
<1>13. CASE RecycleAck
  BY <1>13, StAck DEF StInv, RecycleAck, PollKnows
<1>14. CASE PollHalt
  <2>1. /\ plPc = "halt" /\ plPc' \in {"idle", "loop"}
        /\ UNCHANGED <<status_wu, sd_flow, tx_next_done, dscptr_prv>>
    BY <1>14 DEF PollHalt, PollReturn
  <2>2. \/ UNCHANGED stdma
        \/ /\ stdma.run = Halt /\ stdma' = StDmaAt(tx_next_done)
           /\ status_wu[tx_next_done].type = 0
    BY <1>14 DEF PollHalt
  <2>3. StRing'
    BY <2>1, <2>2, StLooking, StRestart
  <2> QED
    BY <2>1, <2>3 DEF StInv, PollKnows
\* The status DMA.
<1>15. CASE StFetch
  <2>1. UNCHANGED <<plPc, tx_next_done>> /\ Complete' = Complete /\ Written' = Written
    BY <1>15, SameWus DEF StFetch
  <2> QED
    BY <1>15, <2>1, StFetched DEF StInv, PollKnows
<1>16. CASE StFirstBeat
  <2>1. UNCHANGED <<plPc, tx_next_done>>
    BY <1>16 DEF StFirstBeat
  <2> QED
    BY <1>16, <2>1, StBeat DEF StInv, PollKnows
<1>17. CASE StDone
  <2>1. UNCHANGED <<plPc, tx_next_done>>
    BY <1>17 DEF StDone
  <2> QED
    BY <1>17, <2>1, StCompleted DEF StInv, PollKnows
<1> HIDE DEF same, idling
<1> QED
  BY <1>1, <1>2, <1>3, <1>4, <1>5, <1>6, <1>7, <1>8, <1>9, <1>10, <1>11, <1>12, <1>13, <1>14,
     <1>15, <1>16, <1>17 DEF Next, PollStep, StDmaStep

\* For every ring size and every status the interface may write, faulty ones
\* included, and also after reset_tx: the status DMA never writes over a work
\* unit that adi_msp_status has not cleared, because reset_desc_and_wu stops
\* the ring at a cleared slot before it links that slot in.
THEOREM TxStatusNotOverwritten == Spec => []StatusNotOverwritten
<1>1. TxInv => TypeOK
  BY DEF TxInv
<1>2. TxInv /\ StInv => StatusNotOverwritten
  <2> SUFFICES ASSUME TypeOK, StInv, stdma.run = "run"
               PROVE  status_wu[stdma.cur] = ZeroWu
    BY <1>1 DEF StatusNotOverwritten
  <2>1. stdma.cur \in Slots /\ FirstUncleared \in Slots
    BY StRingSlots
  <2>2. stdma.cur \notin Complete
    BY <2>1, OffsetFacts DEF StInv, StRing, WrittenInOrder, StAge, StActive, Halt
  <2> QED
    BY <2>1, <2>2 DEF StInv, StRing, WrittenOrZero
<1> QED
  BY <1>1, <1>2, TxInitInv, TxStepInv, StInitInv, StStepInv, PTL DEF Spec

\* The test of ADDR_CUR and DSCPTR_PRV in adi_msp_status is enough: when the
\* poll reads the timestamp of a status, the status DMA has written all of it.
THEOREM TxTimestampComplete == Spec => []TimestampComplete
<1>1. TxInv => TypeOK
  BY DEF TxInv
<1>2. TxInv /\ StInv => TimestampComplete
  BY Zenon DEF StInv, PollKnows, Complete, TimestampComplete
<1> QED
  BY <1>1, <1>2, TxInitInv, TxStepInv, StInitInv, StStepInv, PTL DEF Spec

-----------------------------------------------------------------------------
(***************************************************************************)
(* The frames in flight.  Counted from the oldest one, the first r of them *)
(* have a status, those up to q are inside the MSP Tx interface, those up  *)
(* to e are in the chain the Tx DMA works on, and the rest wait in the     *)
(* chain that starts at tx_chain_head.                                     *)
(***************************************************************************)

Place(i) == Offset(FirstInFlight, i)

\* The poll has taken the frame but not yet cleared its work unit.
PollHolding == plPc \in {"put", "wakecheck", "wake", "finish", "recycle"}

\* The work units of frames in flight.
ReportedSlots == {i \in Written : ~(PollHolding /\ i = tx_next_done)}

\* The frame at tx_chain_tail is counted, but not yet part of a chain.
Unchained == IF Chaining THEN 1 ELSE 0

FlowBounds(r, q, e) ==
    /\ r <= q /\ q <= e /\ e <= tx_count - Unchained
    /\ Len(mspq) = q - r

\* Statuses are written in the order of the frames.
FlowStatus(r) ==
    /\ \A i \in Slots : i \in ReportedSlots <=> Place(i) < r
    /\ StActive => Place(stdma.cur) = IF stdma.run = "write" THEN r - 1 ELSE r

\* So are the frames inside the interface.
FlowQueue(r, q) ==
    \A k \in 1 .. q - r, i \in Slots : Place(i) = r + k - 1 => mspq[k] = tx_skb[i]

\* The Tx DMA works on the next one, with what it latched of its descriptor.
FlowDma(q, e) ==
    /\ txdma.run = Halt <=> q = e
    /\ txdma.run # Halt => Place(txdma.cur) = q
    /\ txdma.run = "xfer" =>
         /\ txdma.skb = tx_skb[txdma.cur]
         /\ IF q + 1 < e THEN txdma.flow = "dscl" /\ txdma.nxt = SlotAfter(txdma.cur)
                         ELSE txdma.flow = "stop"
    /\ sndPc = "chain" /\ sndHalted => txdma.run = Halt

\* The descriptors that have not been sent: each leads to the next one, up to
\* the end of its chain.
FlowLinks(q, e) ==
    \A i \in Slots : q <= Place(i) /\ Place(i) < tx_count =>
      /\ td_ring[i].skb = tx_skb[i]
      /\ IF Place(i) + 1 = e \/ Place(i) + 1 >= tx_count - Unchained
         THEN td_ring[i].flow = "stop"
         ELSE td_ring[i].flow = "dscl" /\ td_ring[i].nxt = SlotAfter(i)

\* The waiting chain.
FlowChain(e) ==
    /\ Place(tx_chain_head) = IF e = NUM_TDS THEN 0 ELSE e
    /\ tx_chain_filled <=> e < tx_count - Unchained

Flow(r, q, e) ==
    /\ FlowBounds(r, q, e) /\ FlowStatus(r) /\ FlowQueue(r, q) /\ FlowDma(q, e)
    /\ FlowLinks(q, e) /\ FlowChain(e)

FlowInv == ~tx_reset => \E r, q, e \in Nat : Flow(r, q, e)

\* What a status says of its frame, as far as adi_msp_status looks at it.
SameStatus(wu, v) == wu.type = v.type /\ wu.class = v.class /\ wu.tag = v.tag
Reports(wu, skb) == \E v \in Report(skb) : SameStatus(wu, v)

\* The status of a frame in flight is a report of that frame, and so is the
\* one the poll has read.
ReportsMatch ==
    ~tx_reset =>
      /\ \A i \in ReportedSlots : Reports(status_wu[i], tx_skb[i])
      /\ plPc = "check" => SameStatus(plWu, status_wu[tx_next_done])
      /\ plPc \in {"put", "wakecheck", "wake", "finish"} => Reports(plWu, plSkb)

\* What the flow lemmas start from.
FlowBase == TxInv /\ TxRingConsistent /\ StInv /\ ~tx_reset

\* The places of the slots, and the places that are taken.
LEMMA PlaceFacts ==
    ASSUME FlowBase
    PROVE  /\ TypeOK /\ FirstInFlight \in Slots /\ NextFree \in Slots
           /\ tx_count \in 0 .. NUM_TDS /\ NUM_TDS \in Nat /\ NUM_TDS > 1
           /\ Unchained \in {0, 1}
           /\ \A i \in Slots : Place(i) \in 0 .. NUM_TDS - 1
           /\ \A i \in Slots, j \in Slots : Place(i) = Place(j) => i = j
           /\ \A i \in Slots : tx_skb[i] # NoSkb <=> Place(i) < tx_count
           /\ Place(NextFree) = IF tx_count = NUM_TDS THEN 0 ELSE tx_count
           /\ \A i \in Slots : Place(SlotAfter(i)) = IF Place(i) = NUM_TDS - 1 THEN 0 ELSE Place(i) + 1
           /\ Place(FirstInFlight) = 0
<1>1. TypeOK /\ FirstInFlight \in Slots /\ NextFree \in Slots
  BY RingEnds DEF FlowBase, TxInv
<1>2. tx_count \in 0 .. NUM_TDS /\ NUM_TDS \in Nat /\ NUM_TDS > 1 /\ Unchained \in {0, 1}
  BY <1>1, TxConstants DEF TypeOK, ChainType, Unchained
<1>3. /\ \A i \in Slots : Place(i) \in 0 .. NUM_TDS - 1
      /\ \A i \in Slots, j \in Slots : Place(i) = Place(j) => i = j
      /\ Place(FirstInFlight) = 0
  BY <1>1, OffsetFacts, OffsetInjective DEF Place
<1>4. /\ \A i \in Slots : tx_skb[i] # NoSkb <=> Place(i) < tx_count
      /\ Place(NextFree) = IF tx_count = NUM_TDS THEN 0 ELSE tx_count
  BY DEF FlowBase, TxRingConsistent, Place
<1>5. \A i \in Slots : Place(SlotAfter(i)) = IF Place(i) = NUM_TDS - 1 THEN 0 ELSE Place(i) + 1
  BY <1>1, OffsetToNext DEF Place
<1> QED
  BY <1>1, <1>2, <1>3, <1>4, <1>5

\* A step that moves no frame from one stage to the next leaves the flow.
LEMMA FlowSame ==
    ASSUME NEW r \in Nat, NEW q \in Nat, NEW e \in Nat, Flow(r, q, e),
           UNCHANGED <<tx_skb, td_ring, tx_count, tx_chain_head, tx_chain_filled, mspq, txdma>>,
           FirstInFlight' = FirstInFlight, Unchained' = Unchained,
           ReportedSlots' = ReportedSlots,
           StActive' => /\ StActive /\ stdma'.cur = stdma.cur
                        /\ stdma'.run = "write" <=> stdma.run = "write",
           sndPc' = "chain" /\ sndHalted' => txdma.run = Halt
    PROVE  Flow(r, q, e)'
<1>1. \A i : Place(i)' = Place(i)
  BY DEF Place
<1>2. FlowBounds(r, q, e)'
  BY DEF Flow, FlowBounds
<1>3. FlowStatus(r)'
  BY <1>1 DEF Flow, FlowStatus, Place
<1>4. FlowQueue(r, q)'
  BY <1>1 DEF Flow, FlowQueue
<1>5. FlowDma(q, e)'
  BY <1>1 DEF Flow, FlowDma, Place
<1>6. FlowLinks(q, e)'
  BY <1>1 DEF Flow, FlowLinks
<1>7. FlowChain(e)'
  BY <1>1 DEF Flow, FlowChain, Place
<1> QED
  BY <1>2, <1>3, <1>4, <1>5, <1>6, <1>7 DEF Flow

\* SendCommit: the new frame is the last one, and not yet chained.
LEMMA FlowCommit ==
    ASSUME FlowBase, SendCommit, NEW r \in Nat, NEW q \in Nat, NEW e \in Nat, Flow(r, q, e)
    PROVE  Flow(r, q, e)'
<1> DEFINE t == tx_chain_tail
           skb == [class |-> sndClass, tag |-> sndTag]
<1>1. /\ t \in Slots /\ txdma.cur \in Slots /\ tx_chain_head \in Slots
      /\ tx_skb \in [Slots -> Skb]
      /\ td_ring \in [Slots -> [skb : Skb, nxt : Slots, flow : {"stop", "dscl"}]]
      /\ stdma.cur \in Slots
  BY PlaceFacts DEF TypeOK, ChainType, RingType, HwType
<1>2. /\ tx_count' = tx_count + 1 /\ tx_count < NUM_TDS /\ tx_count \in Nat
      /\ Unchained = 0 /\ Unchained' = 1
      /\ FirstInFlight' = FirstInFlight /\ NextFree = t
      /\ UNCHANGED <<tx_chain_head, tx_chain_filled, mspq, txdma, stdma, status_wu, plPc,
                     tx_next_done, sndHalted>>
      /\ sndPc' = "stat"
  BY PlaceFacts DEF SendCommit, FlowBase, TxInv, SenderHolds, Unchained, Chaining, FirstInFlight,
         Completing, NextFree, plVars, chainVars, hwVars, stVars
<1>3. /\ tx_skb' = [tx_skb EXCEPT ![t] = skb]
      /\ td_ring' = [td_ring EXCEPT ![t].skb = skb, ![t].flow = "stop"]
  BY DEF SendCommit
<1> HIDE DEF skb
<1>4. /\ td_ring'[t].skb = skb /\ td_ring'[t].flow = "stop" /\ tx_skb'[t] = skb
      /\ \A i \in Slots : i # t => tx_skb'[i] = tx_skb[i] /\ td_ring'[i] = td_ring[i]
  BY <1>1, <1>3
<1>5. \A i \in Slots : Place(i)' = Place(i)
  BY <1>2 DEF Place
<1>6. Place(t) = tx_count /\ \A i \in Slots : Place(i) < tx_count => i # t
  BY <1>1, <1>2, PlaceFacts
<1>7. FlowBounds(r, q, e)'
  BY <1>2 DEF Flow, FlowBounds
<1>8. r <= q /\ q <= e /\ e <= tx_count
  BY <1>2 DEF Flow, FlowBounds
<1>9. FlowStatus(r)'
  <2>1. ReportedSlots' = ReportedSlots
    BY <1>2 DEF ReportedSlots, Written, PollHolding
  <2> QED
    BY <1>1, <1>2, <1>5, <2>1 DEF Flow, FlowStatus, Place, StActive
<1>10. FlowQueue(r, q)'
  <2> SUFFICES ASSUME NEW k \in 1 .. q - r, NEW i \in Slots, Place(i) = r + k - 1
               PROVE  mspq[k] = tx_skb'[i]
    BY <1>2, <1>5 DEF FlowQueue
  <2>1. Place(i) < tx_count
    BY <1>2, <1>8
  <2> QED
    BY <1>4, <1>6, <2>1 DEF Flow, FlowQueue
<1>11. FlowDma(q, e)'
  <2>1. txdma.run # Halt => Place(txdma.cur) < tx_count
    BY <1>2, <1>8 DEF Flow, FlowDma
  <2>2. txdma.run # Halt => tx_skb'[txdma.cur] = tx_skb[txdma.cur]
    BY <1>1, <1>4, <1>6, <2>1
  <2> QED
    BY <1>1, <1>2, <2>2 DEF Flow, FlowDma, Place, Halt
<1>12. FlowLinks(q, e)'
  <2> SUFFICES ASSUME NEW i \in Slots, q <= Place(i), Place(i) < tx_count + 1
               PROVE  /\ td_ring'[i].skb = tx_skb'[i]
                      /\ IF Place(i) + 1 = e \/ Place(i) + 1 >= tx_count
                         THEN td_ring'[i].flow = "stop"
                         ELSE td_ring'[i].flow = "dscl" /\ td_ring'[i].nxt = SlotAfter(i)
    BY <1>2, <1>5 DEF FlowLinks
  <2>1. CASE i = t
    BY <1>2, <1>4, <1>6, <2>1
  <2>2. CASE i # t
    <3>1. Place(i) < tx_count
      BY <1>1, <1>2, <1>6, <2>2, PlaceFacts
    <3> QED
      BY <1>2, <1>4, <2>2, <3>1 DEF Flow, FlowLinks
  <2> QED
    BY <2>1, <2>2
<1>13. FlowChain(e)'
  BY <1>1, <1>2, <1>5 DEF Flow, FlowChain, Place
<1> QED
  BY <1>7, <1>9, <1>10, <1>11, <1>12, <1>13 DEF Flow

\* SendChain: the new frame joins the waiting chain, and the whole chain goes
\* to the Tx DMA if that was seen halted.
LEMMA FlowChained ==
    ASSUME FlowBase, SendChain, NEW r \in Nat, NEW q \in Nat, NEW e \in Nat, Flow(r, q, e)
    PROVE  IF sndHalted THEN Flow(r, q, tx_count)' ELSE Flow(r, q, e)'
<1> DEFINE t == tx_chain_tail
<1>1. /\ t \in Slots /\ txdma.cur \in Slots /\ tx_chain_head \in Slots /\ stdma.cur \in Slots
      /\ td_ring \in [Slots -> [skb : Skb, nxt : Slots, flow : {"stop", "dscl"}]]
      /\ SlotBefore(t) \in Slots /\ SlotAfter(SlotBefore(t)) = t
      /\ tx_chain_filled \in BOOLEAN /\ sndHalted \in BOOLEAN
  BY PlaceFacts, SlotFacts, Neighbours DEF TypeOK, ChainType, RingType, HwType, FlagType
<1>2. /\ sndPc = "chain" /\ Unchained = 1 /\ Unchained' = 0
      /\ FirstInFlight' = FirstInFlight /\ NextFree = SlotAfter(t)
      /\ tx_chain_tail' = SlotAfter(t) /\ sndPc' = "idle"
      /\ UNCHANGED <<tx_count, tx_skb, mspq, stdma, status_wu, plPc, tx_next_done>>
  BY DEF SendChain, SendReturn, Unchained, Chaining, FirstInFlight, Completing, NextFree,
         plVars, stVars
<1>3. r <= q /\ q <= e /\ e < tx_count /\ Len(mspq) = q - r /\ tx_count \in 1 .. NUM_TDS
  BY <1>2, PlaceFacts DEF Flow, FlowBounds
<1>4. Place(t) = tx_count - 1
  BY <1>1, <1>2, <1>3, PlaceFacts
<1>5. \A i \in Slots : Place(i)' = Place(i)
  BY <1>2 DEF Place
<1>6. tx_chain_filled <=> e < tx_count - 1
  BY <1>2 DEF Flow, FlowChain
\* The links: only the last descriptor of the waiting chain changes.
<1>7. ASSUME NEW i \in Slots
      PROVE  /\ td_ring'[i].skb = td_ring[i].skb
             /\ IF tx_chain_filled /\ i = SlotBefore(t)
                THEN td_ring'[i].flow = "dscl" /\ td_ring'[i].nxt = t
                ELSE td_ring'[i] = td_ring[i]
  BY <1>1, <1>7 DEF SendChain, LinksToPrev
<1>8. tx_count > 1 => Place(SlotBefore(t)) = tx_count - 2
  <2>1. Place(t) = IF Place(SlotBefore(t)) = NUM_TDS - 1 THEN 0 ELSE Place(SlotBefore(t)) + 1
    BY <1>1, PlaceFacts
  <2>2. Place(SlotBefore(t)) \in Nat
    BY <1>1, PlaceFacts
  <2> QED
    BY <1>3, <1>4, <2>1, <2>2
<1>9. ASSUME NEW i \in Slots, q <= Place(i), Place(i) < tx_count
      PROVE  /\ td_ring'[i].skb = tx_skb[i]
             /\ IF Place(i) + 1 = e \/ Place(i) + 1 >= tx_count
                THEN td_ring'[i].flow = "stop"
                ELSE td_ring'[i].flow = "dscl" /\ td_ring'[i].nxt = SlotAfter(i)
  <2>1. /\ td_ring[i].skb = tx_skb[i]
        /\ IF Place(i) + 1 = e \/ Place(i) + 1 >= tx_count - 1
           THEN td_ring[i].flow = "stop"
           ELSE td_ring[i].flow = "dscl" /\ td_ring[i].nxt = SlotAfter(i)
    BY <1>2, <1>9 DEF Flow, FlowLinks
  <2>2. Place(i) \in Nat
    BY PlaceFacts
  <2>3. CASE tx_chain_filled /\ i = SlotBefore(t)
    BY <1>1, <1>3, <1>6, <1>7, <1>8, <2>1, <2>2, <2>3
  <2>4. CASE ~(tx_chain_filled /\ i = SlotBefore(t))
    <3>1. td_ring'[i] = td_ring[i]
      BY <1>7, <2>4
    <3>2. Place(i) + 1 = tx_count - 1 => e = tx_count - 1
      BY <1>1, <1>3, <1>6, <1>8, <2>2, <2>4, PlaceFacts
    <3> QED
      BY <1>3, <2>1, <2>2, <3>1, <3>2
  <2> QED
    BY <2>3, <2>4
<1>10. FlowStatus(r)' /\ FlowQueue(r, q)'
  <2>1. ReportedSlots' = ReportedSlots
    BY <1>2 DEF ReportedSlots, Written, PollHolding
  <2> QED
    BY <1>1, <1>2, <1>5, <2>1 DEF Flow, FlowStatus, FlowQueue, Place, StActive
<1>11. CASE sndHalted
  <2>1. txdma.run = Halt /\ q = e
    BY <1>2, <1>11 DEF Flow, FlowDma
  <2>2. txdma'.run = "fetch" /\ txdma'.cur = tx_chain_head /\ tx_chain_head' = SlotAfter(t)
        /\ tx_chain_filled' = FALSE
    BY <1>11, Zenon DEF SendChain, StartChain, TxDmaAt, TxDmaHalted
  <2>3. FlowBounds(r, q, tx_count)'
    BY <1>2, <1>3, <2>1 DEF FlowBounds
  <2>4. Place(tx_chain_head) = q
    BY <1>3, <2>1 DEF Flow, FlowChain
  <2>5. FlowDma(q, tx_count)'
    BY <1>1, <1>2, <1>3, <1>5, <2>1, <2>2, <2>4 DEF FlowDma, Place, Halt
  <2>6. FlowLinks(q, tx_count)'
    <3> SUFFICES ASSUME NEW i \in Slots, q <= Place(i), Place(i) < tx_count
                 PROVE  /\ td_ring'[i].skb = tx_skb[i]
                        /\ IF Place(i) + 1 = tx_count \/ Place(i) + 1 >= tx_count
                           THEN td_ring'[i].flow = "stop"
                           ELSE td_ring'[i].flow = "dscl" /\ td_ring'[i].nxt = SlotAfter(i)
      BY <1>2, <1>3, <1>5 DEF FlowLinks
    <3>1. Place(i) + 1 # e /\ Place(i) \in Nat
      BY <2>1, PlaceFacts
    <3> QED
      BY <1>3, <1>9, <3>1
  <2>7. FlowChain(tx_count)'
    BY <1>1, <1>2, <1>3, <1>5, <2>2, PlaceFacts DEF FlowChain, Place
  <2> QED
    BY <1>10, <1>11, <2>3, <2>5, <2>6, <2>7 DEF Flow
<1>12. CASE ~sndHalted
  <2>1. tx_chain_filled' = TRUE /\ UNCHANGED <<txdma, tx_chain_head>>
    BY <1>12 DEF SendChain
  <2>2. FlowBounds(r, q, e)'
    BY <1>2, <1>3 DEF FlowBounds
  <2>3. FlowDma(q, e)'
    BY <1>1, <1>2, <1>5, <2>1 DEF Flow, FlowDma, Place, Halt
  <2>4. FlowLinks(q, e)'
    <3> SUFFICES ASSUME NEW i \in Slots, q <= Place(i), Place(i) < tx_count
                 PROVE  /\ td_ring'[i].skb = tx_skb[i]
                        /\ IF Place(i) + 1 = e \/ Place(i) + 1 >= tx_count
                           THEN td_ring'[i].flow = "stop"
                           ELSE td_ring'[i].flow = "dscl" /\ td_ring'[i].nxt = SlotAfter(i)
      BY <1>2, <1>3, <1>5 DEF FlowLinks
    <3> QED
      BY <1>9
  <2>5. FlowChain(e)'
    BY <1>1, <1>2, <1>3, <1>5, <2>1 DEF Flow, FlowChain, Place
  <2> QED
    BY <1>10, <1>12, <2>2, <2>3, <2>4, <2>5 DEF Flow
<1> QED
  BY <1>1, <1>11, <1>12

\* PollCheck takes the oldest frame: every other frame moves up one place.
LEMMA FlowTake ==
    ASSUME FlowBase, PollCheck, plPc' = "put",
           NEW r \in Nat, NEW q \in Nat, NEW e \in Nat, Flow(r, q, e)
    PROVE  r > 0 /\ Flow(r - 1, q - 1, e - 1)'
<1> DEFINE d == tx_next_done
           c == stdma.cur
           New(i) == Offset(SlotAfter(d), i)
<1>1. /\ d \in Slots /\ txdma.cur \in Slots /\ tx_chain_head \in Slots /\ c \in Slots
      /\ tx_skb \in [Slots -> Skb]
  BY PlaceFacts DEF TypeOK, ChainType, RingType, HwType
<1>2. /\ plPc = "check" /\ tx_next_done' = d
      /\ FirstInFlight = d /\ FirstInFlight' = SlotAfter(d) /\ Unchained' = Unchained
      /\ UNCHANGED <<td_ring, tx_chain_head, tx_chain_filled, mspq, txdma, stdma, status_wu,
                     sndPc, sndHalted>>
  BY DEF PollCheck, FirstInFlight, Completing, Unchained, Chaining, sndVars, chainVars,
         hwVars, stVars
<1>3. /\ tx_count' = tx_count - 1 /\ tx_skb' = [tx_skb EXCEPT ![d] = NoSkb]
      /\ ~StatusInProgress(d)
  BY DEF PollCheck, reset_tx, PollReturn
<1>4. r <= q /\ q <= e /\ e <= tx_count - Unchained /\ Len(mspq) = q - r
      /\ tx_count \in 0 .. NUM_TDS /\ Unchained \in {0, 1}
  BY PlaceFacts DEF Flow, FlowBounds
<1>5. Place(d) = 0
  BY <1>2, PlaceFacts
<1>6. d \in Written /\ d \in Complete
  <2>1. d \in Written
    BY <1>2 DEF FlowBase, StInv, PollKnows
  <2>2. d \in Complete
    BY <1>3, <2>1 DEF StatusInProgress, FlowBase, StInv, StRing, WrittenOrZero,
                      StPrevIsYoungest, StActive, Halt
  <2> QED
    BY <2>1, <2>2
<1>7. ReportedSlots = Written /\ ReportedSlots' = Written \ {d}
  BY <1>2 DEF ReportedSlots, Written, PollHolding
<1>8. r > 0
  BY <1>1, <1>5, <1>6, <1>7 DEF Flow, FlowStatus
<1>9. StActive => c # d
  <2>1. FirstUncleared = d
    BY <1>2 DEF FirstUncleared
  <2> QED
    BY <1>1, <1>6, <2>1, OffsetFacts DEF FlowBase, StInv, StRing, WrittenInOrder, StAge
<1>10. \A i \in Slots : /\ i # d => New(i) = Place(i) - 1 /\ Place(i) > 0
                        /\ i = d => New(i) = NUM_TDS - 1
                        /\ Place(i) \in 0 .. NUM_TDS - 1
  BY <1>1, <1>2, <1>5, OffsetFromNext, PlaceFacts DEF Place
<1>11. \A i \in Slots : i # d => tx_skb'[i] = tx_skb[i]
  BY <1>1, <1>3
<1>12. FlowBounds(r - 1, q - 1, e - 1)'
  BY <1>2, <1>3, <1>4 DEF FlowBounds
<1>13. FlowStatus(r - 1)'
  <2>1. ASSUME NEW i \in Slots PROVE i \in Written \ {d} <=> New(i) < r - 1
    <3>1. i \in Written <=> Place(i) < r
      BY <1>7 DEF Flow, FlowStatus
    <3>2. CASE i = d
      BY <1>4, <1>10, <3>2, TxConstants
    <3>3. CASE i # d
      <4>1. New(i) < r - 1 <=> Place(i) < r
        BY <1>10, <3>3
      <4> QED
        BY <3>1, <3>3, <4>1
    <3> QED
      BY <3>2, <3>3
  <2>2. StActive => New(c) = IF stdma.run = "write" THEN r - 1 - 1 ELSE r - 1
    <3>1. StActive => Place(c) = IF stdma.run = "write" THEN r - 1 ELSE r
      BY DEF Flow, FlowStatus
    <3> QED
      BY <1>1, <1>9, <1>10, <3>1
  <2> QED
    BY <1>2, <1>7, <2>1, <2>2 DEF FlowStatus, StActive, Place
<1>14. FlowQueue(r - 1, q - 1)'
  <2> SUFFICES ASSUME NEW k \in 1 .. q - r, NEW i \in Slots, New(i) = r - 1 + k - 1
               PROVE  mspq[k] = tx_skb'[i]
    BY <1>2 DEF FlowQueue, Place
  <2>1. i # d
    BY <1>4, <1>10, TxConstants
  <2>2. Place(i) = r + k - 1
    BY <1>10, <2>1
  <2> QED
    BY <1>11, <2>1, <2>2 DEF Flow, FlowQueue
<1>15. FlowDma(q - 1, e - 1)'
  <2>1. txdma.run # Halt => txdma.cur # d /\ New(txdma.cur) = q - 1
    <3>1. txdma.run # Halt => Place(txdma.cur) = q
      BY DEF Flow, FlowDma
    <3> QED
      BY <1>1, <1>4, <1>5, <1>8, <1>10, <3>1
  <2>2. txdma.run # Halt => tx_skb'[txdma.cur] = tx_skb[txdma.cur]
    BY <1>1, <1>11, <2>1
  <2>3. (q = e <=> q - 1 = e - 1) /\ (q + 1 < e <=> q - 1 + 1 < e - 1)
    OBVIOUS
  <2> QED
    BY <1>2, <2>1, <2>2, <2>3 DEF Flow, FlowDma, Place, Halt
<1>16. FlowLinks(q - 1, e - 1)'
  <2> SUFFICES ASSUME NEW i \in Slots, q - 1 <= New(i), New(i) < tx_count - 1
               PROVE  /\ td_ring[i].skb = tx_skb'[i]
                      /\ IF \/ New(i) + 1 = e - 1
                            \/ New(i) + 1 >= tx_count - 1 - Unchained
                         THEN td_ring[i].flow = "stop"
                         ELSE td_ring[i].flow = "dscl" /\ td_ring[i].nxt = SlotAfter(i)
    BY <1>2, <1>3 DEF FlowLinks, Place
  <2>1. i # d
    BY <1>4, <1>10, TxConstants
  <2>2. New(i) = Place(i) - 1 /\ Place(i) \in Nat
    BY <1>10, <2>1
  <2>3. q <= Place(i) /\ Place(i) < tx_count
    BY <1>4, <2>2
  <2>4. /\ td_ring[i].skb = tx_skb[i]
        /\ IF Place(i) + 1 = e \/ Place(i) + 1 >= tx_count - Unchained
           THEN td_ring[i].flow = "stop"
           ELSE td_ring[i].flow = "dscl" /\ td_ring[i].nxt = SlotAfter(i)
    BY <2>3 DEF Flow, FlowLinks
  <2> QED
    BY <1>4, <1>11, <2>1, <2>2, <2>4
<1>17. FlowChain(e - 1)'
  <2>1. Place(tx_chain_head) = IF e = NUM_TDS THEN 0 ELSE e
    BY DEF Flow, FlowChain
  <2>2. New(tx_chain_head) = IF e - 1 = NUM_TDS THEN 0 ELSE e - 1
    <3>1. CASE e = NUM_TDS
      <4>1. tx_chain_head = d
        BY <1>1, <1>5, <2>1, <3>1, PlaceFacts
      <4> QED
        BY <1>1, <1>10, <3>1, <4>1, TxConstants
    <3>2. CASE e # NUM_TDS
      BY <1>1, <1>4, <1>5, <1>8, <1>10, <2>1, <3>2, TxConstants
    <3> QED
      BY <3>1, <3>2
  <2>3. e < tx_count - Unchained <=> e - 1 < tx_count - 1 - Unchained
    BY <1>4
  <2> QED
    BY <1>2, <1>3, <2>2, <2>3 DEF Flow, FlowChain, Place
<1> QED
  BY <1>8, <1>12, <1>13, <1>14, <1>15, <1>16, <1>17 DEF Flow

\* PollRestart: the waiting chain becomes the chain of the Tx DMA.
LEMMA FlowRestart ==
    ASSUME FlowBase, PollRestart, RestartNeeded,
           NEW r \in Nat, NEW q \in Nat, NEW e \in Nat, Flow(r, q, e)
    PROVE  Flow(r, q, tx_count)'
<1>1. /\ tx_chain_tail \in Slots /\ txdma.cur \in Slots /\ tx_chain_head \in Slots
      /\ stdma.cur \in Slots
  BY PlaceFacts DEF TypeOK, ChainType, HwType
<1>2. /\ Unchained = 0 /\ Unchained' = 0 /\ sndPc' = "idle"
      /\ FirstInFlight' = FirstInFlight /\ NextFree = tx_chain_tail
      /\ UNCHANGED <<tx_count, tx_skb, td_ring, mspq, stdma>>
      /\ ReportedSlots' = ReportedSlots
  BY DEF PollRestart, Unchained, Chaining, FirstInFlight, Completing, NextFree, ringVars,
         sndVars, stVars, ReportedSlots, Written, PollHolding
<1>3. /\ txdma'.run = "fetch" /\ txdma'.cur = tx_chain_head
      /\ tx_chain_head' = tx_chain_tail /\ tx_chain_filled' = FALSE
  BY Zenon DEF PollRestart, StartChain, TxDmaAt, TxDmaHalted
<1>4. /\ r <= q /\ q = e /\ e < tx_count /\ Len(mspq) = q - r /\ tx_count \in 0 .. NUM_TDS
  BY <1>2, PlaceFacts DEF Flow, FlowBounds, FlowDma, FlowChain, RestartNeeded
<1>5. \A i \in Slots : Place(i)' = Place(i)
  BY <1>2 DEF Place
<1>6. FlowBounds(r, q, tx_count)'
  BY <1>2, <1>4 DEF FlowBounds
<1>7. FlowStatus(r)' /\ FlowQueue(r, q)'
  BY <1>1, <1>2, <1>5 DEF Flow, FlowStatus, FlowQueue, Place, StActive
<1>8. Place(tx_chain_head) = q
  BY <1>4 DEF Flow, FlowChain
<1>9. FlowDma(q, tx_count)'
  BY <1>1, <1>2, <1>3, <1>4, <1>5, <1>8 DEF FlowDma, Place, Halt
<1>10. FlowLinks(q, tx_count)'
  <2> SUFFICES ASSUME NEW i \in Slots, q <= Place(i), Place(i) < tx_count
               PROVE  /\ td_ring[i].skb = tx_skb[i]
                      /\ IF Place(i) + 1 = tx_count \/ Place(i) + 1 >= tx_count
                         THEN td_ring[i].flow = "stop"
                         ELSE td_ring[i].flow = "dscl" /\ td_ring[i].nxt = SlotAfter(i)
    BY <1>2, <1>4, <1>5 DEF FlowLinks
  <2>1. /\ td_ring[i].skb = tx_skb[i]
        /\ IF Place(i) + 1 = e \/ Place(i) + 1 >= tx_count
           THEN td_ring[i].flow = "stop"
           ELSE td_ring[i].flow = "dscl" /\ td_ring[i].nxt = SlotAfter(i)
    BY <1>2, <1>4 DEF Flow, FlowLinks
  <2>2. Place(i) + 1 # e /\ Place(i) \in Nat
    BY <1>4, PlaceFacts
  <2> QED
    BY <1>4, <2>1, <2>2
<1>11. FlowChain(tx_count)'
  BY <1>1, <1>2, <1>3, <1>4, <1>5, PlaceFacts DEF FlowChain, Place
<1> QED
  BY <1>6, <1>7, <1>9, <1>10, <1>11 DEF Flow

\* PollHalt restarts the status DMA at the oldest frame: none has a status.
LEMMA FlowStRestart ==
    ASSUME FlowBase, PollHalt, stdma.run = Halt, status_wu[tx_next_done].type = 0,
           NEW r \in Nat, NEW q \in Nat, NEW e \in Nat, Flow(r, q, e)
    PROVE  Flow(r, q, e)'
<1> DEFINE d == tx_next_done
<1>1. /\ d \in Slots /\ txdma.cur \in Slots /\ tx_chain_head \in Slots
  BY PlaceFacts DEF TypeOK, ChainType, HwType
<1>2. /\ FirstInFlight = d /\ FirstInFlight' = d /\ Unchained' = Unchained
      /\ stdma'.run = "fetch" /\ stdma'.cur = d
      /\ UNCHANGED <<tx_count, tx_skb, td_ring, mspq, txdma, tx_chain_head, tx_chain_filled,
                     sndPc, sndHalted>>
      /\ ReportedSlots' = ReportedSlots /\ ReportedSlots = Written
  BY DEF PollHalt, PollReturn, FirstInFlight, Completing, Unchained, Chaining, drvVars, ringVars,
         chainVars, sndVars, stVars, StDmaAt, StDmaHalted, ReportedSlots, Written, PollHolding
<1>3. r = 0
  <2>1. d \notin Written
    BY DEF Written
  <2> QED
    BY <1>1, <1>2, <2>1, PlaceFacts DEF Flow, FlowStatus
<1>4. Place(d) = 0 /\ \A i \in Slots : Place(i)' = Place(i)
  BY <1>2, PlaceFacts DEF Place
<1>5. FlowStatus(r)'
  BY <1>1, <1>2, <1>3, <1>4 DEF Flow, FlowStatus, Place
<1>6. FlowBounds(r, q, e)' /\ FlowQueue(r, q)' /\ FlowLinks(q, e)'
  BY <1>2, <1>4 DEF Flow, FlowBounds, FlowQueue, FlowLinks
<1>7. FlowDma(q, e)' /\ FlowChain(e)'
  BY <1>1, <1>2, <1>4 DEF Flow, FlowDma, FlowChain, Place
<1> QED
  BY <1>5, <1>6, <1>7 DEF Flow

\* The Tx DMA reads the descriptor of the next frame.
LEMMA FlowFetch ==
    ASSUME FlowBase, TxDmaFetch, NEW r \in Nat, NEW q \in Nat, NEW e \in Nat, Flow(r, q, e)
    PROVE  Flow(r, q, e)'
<1> DEFINE c == txdma.cur
<1>1. c \in Slots /\ tx_chain_head \in Slots /\ stdma.cur \in Slots
      /\ txdma \in [run : {Halt, "fetch", "xfer"}, cur : Slots,
                    flow : {"stop", "dscl"}, nxt : Slots, skb : Skb]
  BY PlaceFacts DEF TypeOK, ChainType, HwType
<1>2. /\ FirstInFlight' = FirstInFlight /\ Unchained' = Unchained
      /\ UNCHANGED <<tx_count, tx_skb, td_ring, mspq, stdma, tx_chain_head, tx_chain_filled,
                     sndPc, sndHalted>>
      /\ ReportedSlots' = ReportedSlots
  BY DEF TxDmaFetch, FirstInFlight, Completing, Unchained, Chaining, drvVars, ringVars,
         chainVars, sndVars, stVars, plVars, ReportedSlots, Written, PollHolding
<1>3. /\ txdma.run = "fetch" /\ txdma'.run = "xfer" /\ txdma'.cur = c
      /\ txdma'.flow = td_ring[c].flow /\ txdma'.nxt = td_ring[c].nxt
      /\ txdma'.skb = td_ring[c].skb
  BY <1>1 DEF TxDmaFetch
<1>4. \A i \in Slots : Place(i)' = Place(i)
  BY <1>2 DEF Place
<1>5. FlowBounds(r, q, e)' /\ FlowStatus(r)' /\ FlowQueue(r, q)'
  BY <1>1, <1>2, <1>4 DEF Flow, FlowBounds, FlowStatus, FlowQueue, Place, StActive
<1>6. FlowLinks(q, e)' /\ FlowChain(e)'
  BY <1>1, <1>2, <1>4 DEF Flow, FlowLinks, FlowChain, Place
<1>7. q <= e /\ q # e /\ e <= tx_count - Unchained /\ Place(c) = q
      /\ tx_count \in Nat /\ Unchained \in {0, 1}
  BY <1>3, PlaceFacts DEF Flow, FlowBounds, FlowDma, Halt
<1>8. /\ td_ring[c].skb = tx_skb[c]
      /\ IF q + 1 = e \/ q + 1 >= tx_count - Unchained
         THEN td_ring[c].flow = "stop"
         ELSE td_ring[c].flow = "dscl" /\ td_ring[c].nxt = SlotAfter(c)
  BY <1>1, <1>7 DEF Flow, FlowLinks
<1>9. FlowDma(q, e)'
  <2>1. (q + 1 = e \/ q + 1 >= tx_count - Unchained) <=> ~(q + 1 < e)
    BY <1>7
  <2>2. sndPc = "chain" => ~sndHalted
    BY <1>3 DEF Flow, FlowDma, Halt
  <2>3. Place(txdma.cur)' = q
    BY <1>2, <1>3, <1>7 DEF Place
  <2> QED
    BY <1>2, <1>3, <1>7, <1>8, <2>1, <2>2, <2>3 DEF FlowDma, Halt
<1> QED
  BY <1>5, <1>6, <1>9 DEF Flow

\* The Tx DMA hands the frame to the interface and goes on in its chain.
LEMMA FlowXfer ==
    ASSUME FlowBase, TxDmaXfer, NEW r \in Nat, NEW q \in Nat, NEW e \in Nat, Flow(r, q, e)
    PROVE  Flow(r, q + 1, e)'
<1> DEFINE c == txdma.cur
<1>1. c \in Slots /\ tx_chain_head \in Slots /\ stdma.cur \in Slots /\ SlotAfter(c) \in Slots
      /\ mspq \in Seq(Skb) /\ txdma.skb \in Skb
  BY PlaceFacts, SlotFacts DEF TypeOK, ChainType, HwType
<1>2. /\ FirstInFlight' = FirstInFlight /\ Unchained' = Unchained
      /\ UNCHANGED <<tx_count, tx_skb, td_ring, stdma, tx_chain_head, tx_chain_filled,
                     sndPc, sndHalted>>
      /\ ReportedSlots' = ReportedSlots
      /\ mspq' = Append(mspq, txdma.skb) /\ txdma.run = "xfer"
  BY DEF TxDmaXfer, FirstInFlight, Completing, Unchained, Chaining, drvVars, ringVars,
         chainVars, sndVars, stVars, plVars, ReportedSlots, Written, PollHolding
<1>3. /\ r <= q /\ q < e /\ e <= tx_count - Unchained /\ Place(c) = q /\ Len(mspq) = q - r
      /\ tx_count \in 0 .. NUM_TDS /\ Unchained \in {0, 1}
      /\ txdma.skb = tx_skb[c]
  BY <1>2, PlaceFacts DEF Flow, FlowBounds, FlowDma, Halt
<1>4. \A i \in Slots : Place(i)' = Place(i)
  BY <1>2 DEF Place
<1>5. /\ Len(mspq') = q + 1 - r /\ mspq'[q + 1 - r] = tx_skb[c]
      /\ \A k \in 1 .. q - r : mspq'[k] = mspq[k]
  BY <1>1, <1>2, <1>3
<1>6. FlowBounds(r, q + 1, e)' /\ FlowStatus(r)'
  BY <1>1, <1>2, <1>3, <1>4, <1>5 DEF Flow, FlowBounds, FlowStatus, Place, StActive
<1>7. FlowQueue(r, q + 1)'
  <2> SUFFICES ASSUME NEW k \in 1 .. q + 1 - r, NEW i \in Slots, Place(i) = r + k - 1
               PROVE  mspq'[k] = tx_skb[i]
    <3>1. tx_skb' = tx_skb
      BY <1>2
    <3> QED
      BY <1>4, <3>1 DEF FlowQueue
  <2>1. CASE k = q + 1 - r
    <3>1. Place(i) = q
      BY <1>3, <2>1
    <3>2. i = c
      BY <1>1, <1>3, <3>1, PlaceFacts
    <3> QED
      BY <1>5, <2>1, <3>2
  <2>2. CASE k \in 1 .. q - r
    BY <1>5, <2>2 DEF Flow, FlowQueue
  <2> QED
    BY <1>3, <2>1, <2>2
<1>8. FlowLinks(q + 1, e)'
  <2> SUFFICES ASSUME NEW i \in Slots, q + 1 <= Place(i), Place(i) < tx_count
               PROVE  /\ td_ring[i].skb = tx_skb[i]
                      /\ IF Place(i) + 1 = e \/ Place(i) + 1 >= tx_count - Unchained
                         THEN td_ring[i].flow = "stop"
                         ELSE td_ring[i].flow = "dscl" /\ td_ring[i].nxt = SlotAfter(i)
    BY <1>2, <1>4 DEF FlowLinks
  <2>1. q <= Place(i)
    BY PlaceFacts
  <2> QED
    BY <2>1 DEF Flow, FlowLinks
<1>9. FlowChain(e)'
  BY <1>1, <1>2, <1>4 DEF Flow, FlowChain, Place
<1>10. FlowDma(q + 1, e)'
  <2>1. sndPc = "chain" => ~sndHalted
    BY <1>2 DEF Flow, FlowDma, Halt
  <2>2. CASE q + 1 < e
    <3>1. txdma.flow = "dscl" /\ txdma.nxt = SlotAfter(c)
      BY <1>2, <2>2 DEF Flow, FlowDma
    <3>2. txdma'.run = "fetch" /\ txdma'.cur = SlotAfter(c)
      BY <3>1 DEF TxDmaXfer, TxDmaAt, TxDmaHalted
    <3>3. Place(SlotAfter(c)) = q + 1
      BY <1>1, <1>3, <2>2, PlaceFacts
    <3> QED
      BY <1>1, <1>2, <1>4, <2>1, <2>2, <3>2, <3>3 DEF FlowDma, Place, Halt
  <2>3. CASE ~(q + 1 < e)
    <3>1. q + 1 = e
      BY <1>3, <2>3
    <3>2. txdma.flow = "stop"
      BY <1>2, <2>3 DEF Flow, FlowDma
    <3>3. txdma'.run = Halt
      BY <3>2 DEF TxDmaXfer, TxDmaHalted
    <3> QED
      BY <1>2, <2>1, <3>1, <3>3 DEF FlowDma, Halt
  <2> QED
    BY <2>2, <2>3
<1> QED
  BY <1>6, <1>7, <1>8, <1>9, <1>10 DEF Flow

\* The first beat of a status goes to the slot of the frame it reports.
LEMMA FlowBeat ==
    ASSUME FlowBase, StFirstBeat, NEW r \in Nat, NEW q \in Nat, NEW e \in Nat, Flow(r, q, e)
    PROVE  /\ Flow(r + 1, q, e)'
           /\ Head(mspq) = tx_skb[stdma.cur] /\ ReportedSlots' = ReportedSlots \cup {stdma.cur}
           /\ stdma.cur \notin ReportedSlots
<1> DEFINE c == stdma.cur
<1>1. c \in Slots /\ tx_chain_head \in Slots /\ txdma.cur \in Slots /\ tx_next_done \in Slots
      /\ mspq \in Seq(Skb) /\ mspq # << >>
  BY PlaceFacts DEF TypeOK, ChainType, HwType, StFirstBeat
<1>2. /\ FirstInFlight' = FirstInFlight /\ Unchained' = Unchained
      /\ UNCHANGED <<tx_count, tx_skb, td_ring, txdma, tx_chain_head, tx_chain_filled,
                     sndPc, sndHalted, plPc, tx_next_done>>
      /\ mspq' = Tail(mspq) /\ stdma.run = "run" /\ stdma'.run = "write" /\ stdma'.cur = c
  BY PlaceFacts DEF StFirstBeat, FirstInFlight, Completing, Unchained, Chaining,
         chainVars, sndVars, stVars, plVars, TypeOK, HwType
<1>3. /\ r < q /\ q <= e /\ e <= tx_count - Unchained /\ Place(c) = r /\ Len(mspq) = q - r
      /\ tx_count \in 0 .. NUM_TDS /\ Unchained \in {0, 1}
  BY <1>1, <1>2, PlaceFacts DEF Flow, FlowBounds, FlowStatus, StActive, Halt
<1>4. \A i \in Slots : Place(i)' = Place(i)
  BY <1>2 DEF Place
<1>5. /\ Len(mspq') = q - (r + 1) /\ Head(mspq) = mspq[1]
      /\ \A k \in 1 .. q - (r + 1) : mspq'[k] = mspq[k + 1]
  BY <1>1, <1>2, <1>3
<1>6. Head(mspq) = tx_skb[c]
  BY <1>1, <1>3, <1>5 DEF Flow, FlowQueue
<1>7. c \notin ReportedSlots
  BY <1>1, <1>3 DEF Flow, FlowStatus
<1>8. ~(PollHolding /\ c = tx_next_done)
  <2> SUFFICES ASSUME PollHolding PROVE c # tx_next_done
    OBVIOUS
  <2>1. tx_next_done \in Complete /\ FirstUncleared = tx_next_done
    BY DEF FlowBase, StInv, PollKnows, PollHolding, FirstUncleared
  <2> QED
    BY <1>1, <1>2, <2>1, OffsetFacts DEF FlowBase, StInv, StRing, WrittenInOrder, StAge,
                                         StActive, Halt
<1>9. ReportedSlots' = ReportedSlots \cup {c}
  <2>1. PICK wu \in Report(Head(mspq)) : status_wu' = [status_wu EXCEPT ![c] = wu]
    BY DEF StFirstBeat
  <2>2. wu.type # 0
    <3>1. Head(mspq) \in Skb
      BY <1>1
    <3> QED
      BY <2>1, <3>1, ReportStarted
  <2>3. DOMAIN status_wu = Slots
    BY PlaceFacts DEF TypeOK, RingType
  <2>4. Written' = Written \cup {c}
    BY <1>1, <2>1, <2>2, <2>3, Zenon DEF Written
  <2>5. PollHolding' = PollHolding
    BY <1>2 DEF PollHolding
  <2> QED
    BY <1>2, <1>8, <2>4, <2>5 DEF ReportedSlots
<1>10. FlowBounds(r + 1, q, e)'
  BY <1>2, <1>3, <1>5 DEF FlowBounds
<1>11. FlowStatus(r + 1)'
  <2>1. ASSUME NEW i \in Slots PROVE i \in ReportedSlots \cup {c} <=> Place(i) < r + 1
    <3>1. i \in ReportedSlots <=> Place(i) < r
      BY DEF Flow, FlowStatus
    <3>2. i = c <=> Place(i) = r
      BY <1>1, <1>3, PlaceFacts
    <3>3. Place(i) < r + 1 <=> (Place(i) < r \/ Place(i) = r)
      BY PlaceFacts
    <3> QED
      BY <3>1, <3>2, <3>3
  <2>2. Place(stdma.cur)' = r
    BY <1>2, <1>3 DEF Place
  <2> QED
    BY <1>2, <1>4, <1>9, <2>1, <2>2 DEF FlowStatus
<1>12. FlowQueue(r + 1, q)'
  <2> SUFFICES ASSUME NEW k \in 1 .. q - (r + 1), NEW i \in Slots, Place(i) = r + 1 + k - 1
               PROVE  mspq'[k] = tx_skb[i]
    BY <1>2, <1>4 DEF FlowQueue
  <2>1. k + 1 \in 1 .. q - r /\ Place(i) = r + (k + 1) - 1
    BY <1>3
  <2> QED
    BY <1>5, <2>1 DEF Flow, FlowQueue
<1>13. FlowDma(q, e)' /\ FlowLinks(q, e)' /\ FlowChain(e)'
  BY <1>1, <1>2, <1>4 DEF Flow, FlowDma, FlowLinks, FlowChain, Place
<1> QED
  BY <1>6, <1>7, <1>9, <1>10, <1>11, <1>12, <1>13 DEF Flow

\* A complete status: the status DMA goes on to the slot of the next frame.
LEMMA FlowDone ==
    ASSUME FlowBase, StInv', StDone, NEW r \in Nat, NEW q \in Nat, NEW e \in Nat, Flow(r, q, e)
    PROVE  Flow(r, q, e)' /\ ReportedSlots' = ReportedSlots
<1> DEFINE c == stdma.cur
<1>1. c \in Slots /\ tx_chain_head \in Slots /\ txdma.cur \in Slots /\ SlotAfter(c) \in Slots
  BY PlaceFacts, SlotFacts DEF TypeOK, ChainType, HwType
<1>2. /\ FirstInFlight' = FirstInFlight /\ Unchained' = Unchained
      /\ UNCHANGED <<tx_count, tx_skb, td_ring, txdma, tx_chain_head, tx_chain_filled,
                     mspq, sndPc, sndHalted, plPc, tx_next_done>>
      /\ stdma.run = "write"
  BY DEF StDone, FirstInFlight, Completing, Unchained, Chaining, chainVars, sndVars, plVars
<1>3. Written' = Written /\ Complete' = Complete \cup {c}
  BY PlaceFacts, StCompleted DEF FlowBase
<1>4. ReportedSlots' = ReportedSlots
  BY <1>2, <1>3 DEF ReportedSlots, PollHolding
<1>5. \A i \in Slots : Place(i)' = Place(i)
  BY <1>2 DEF Place
<1>6. FlowBounds(r, q, e)' /\ FlowQueue(r, q)' /\ FlowDma(q, e)' /\ FlowLinks(q, e)'
      /\ FlowChain(e)'
  BY <1>1, <1>2, <1>5 DEF Flow, FlowBounds, FlowQueue, FlowDma, FlowLinks, FlowChain, Place
<1>7. Place(c) = r - 1
  BY <1>2 DEF Flow, FlowStatus, StActive, Halt
<1>8. CASE stdma.flow # "dscl"
  <2>1. ~StActive'
    BY <1>8 DEF StDone, StDmaHalted, StActive
  <2>2. FlowStatus(r)'
    BY <1>4, <1>5, <2>1 DEF Flow, FlowStatus
  <2> QED
    BY <1>4, <1>6, <2>2 DEF Flow
<1>9. CASE stdma.flow = "dscl"
  <2>1. stdma'.run = "fetch" /\ stdma'.cur = SlotAfter(c)
    BY <1>9 DEF StDone, StDmaAt, StDmaHalted
  <2>2. SlotAfter(c) \notin Complete'
    <3>1. FirstUncleared' \in Slots
      BY <1>2, StRingSlots, PlaceFacts DEF FirstUncleared
    <3>2. StActive'
      BY <2>1 DEF StActive, Halt
    <3>3. SlotAfter(c) \in Complete'
          <=> Offset(FirstUncleared', SlotAfter(c)) < Offset(FirstUncleared', SlotAfter(c))
      BY <1>1, <2>1, <3>2 DEF StInv, StRing, WrittenInOrder, StAge
    <3>4. Offset(FirstUncleared', SlotAfter(c)) \in 0 .. NUM_TDS - 1
      BY <1>1, <3>1, OffsetFacts
    <3> QED
      BY <3>3, <3>4
  <2>3. SlotAfter(c) \notin ReportedSlots
    BY <1>4, <2>1, <2>2 DEF ReportedSlots, StInv, StRing, WrittenOrZero
  <2>4. Place(SlotAfter(c)) >= r
    BY <1>1, <2>3, PlaceFacts DEF Flow, FlowStatus
  <2>5. Place(SlotAfter(c)) = r
    BY <1>1, <1>7, <2>4, PlaceFacts
  <2>6. FlowStatus(r)'
    BY <1>1, <1>2, <1>4, <1>5, <2>1, <2>5 DEF Flow, FlowStatus, Place
  <2> QED
    BY <1>4, <1>6, <2>6 DEF Flow
<1> QED
  BY <1>8, <1>9

\* Once counted, a reset stays counted.
LEMMA ResetStays == [Next]_vars /\ ~tx_reset' => ~tx_reset
<1> SUFFICES ASSUME [Next]_vars PROVE tx_reset' = tx_reset \/ tx_reset'
  OBVIOUS
<1> USE DEF drvVars
<1>1. ASSUME NEW c \in Classes, SendPacket(c) PROVE tx_reset' = tx_reset
  BY <1>1 DEF SendPacket
<1>2. CASE SendStep
  BY <1>2 DEF SendStep, SendCheck, SendStopQueue, SendMap, SendCommit, SendStat, SendChain
<1>3. CASE StatusIrq \/ TxDmaStep \/ StDmaStep
  BY <1>3 DEF StatusIrq, TxDmaStep, TxDmaFetch, TxDmaXfer, StDmaStep, StFetch, StFirstBeat, StDone
<1>4. CASE PollCheck \/ PollPut \/ PollFinish
  BY <1>4 DEF PollCheck, PollPut, PollFinish, reset_tx
<1>5. CASE PollRead \/ PollWakeCheck \/ PollWake \/ RecycleStop \/ RecycleLink \/ RecycleAck
           \/ PollRestart \/ PollHalt
  BY <1>5 DEF PollRead, PollWakeCheck, PollWake, RecycleStop, RecycleLink, RecycleAck,
              PollRestart, PollHalt
<1>6. CASE UNCHANGED vars
  BY <1>6 DEF vars
<1> QED
  BY <1>1, <1>2, <1>3, <1>4, <1>5, <1>6 DEF Next, PollStep

\* After adi_msp_open no frame is in flight.
LEMMA FlowInitial == Init => Flow(0, 0, 0)
<1> SUFFICES ASSUME Init PROVE Flow(0, 0, 0)
  OBVIOUS
<1>1. FirstInFlight = 0 /\ Unchained = 0 /\ ReportedSlots = {}
  BY Zenon DEF Init, FirstInFlight, Completing, Unchained, Chaining, ReportedSlots, Written, ZeroWu
<1>2. Place(0) = 0 /\ \A i \in Slots : Place(i) \in 0 .. NUM_TDS - 1
  BY <1>1, SlotFacts, OffsetFacts DEF Place
<1>3. FlowBounds(0, 0, 0) /\ FlowQueue(0, 0)
  BY <1>1 DEF Init, FlowBounds, FlowQueue
<1>4. FlowStatus(0)
  BY <1>1, <1>2 DEF Init, FlowStatus, StDmaAt, StDmaHalted
<1>5. FlowDma(0, 0)
  BY DEF Init, FlowDma, TxDmaHalted, Halt
<1>6. FlowLinks(0, 0) /\ FlowChain(0)
  BY <1>1, <1>2, TxConstants DEF Init, FlowLinks, FlowChain
<1> QED
  BY <1>3, <1>4, <1>5, <1>6 DEF Flow

\* The flow invariant holds then.
LEMMA FlowInit == Init => FlowInv
BY FlowInitial DEF FlowInv

\* The steps that move no frame from one stage to the next.
LookingStep ==
    \/ \E c \in Classes : SendPacket(c)
    \/ SendCheck \/ SendStopQueue \/ SendMap \/ SendStat \/ StatusIrq
    \/ PollRead \/ PollPut \/ PollWakeCheck \/ PollWake \/ PollFinish
    \/ RecycleStop \/ RecycleLink \/ RecycleAck \/ StFetch \/ UNCHANGED vars
    \/ PollCheck /\ plPc' # "put"
    \/ PollRestart /\ ~RestartNeeded
    \/ PollHalt /\ ~(stdma.run = Halt /\ status_wu[tx_next_done].type = 0)

\* They leave the flow and the reported slots alone.
LEMMA LookingKeeps ==
    ASSUME FlowBase, LookingStep, ~tx_reset',
           NEW r \in Nat, NEW q \in Nat, NEW e \in Nat, Flow(r, q, e)
    PROVE  /\ Flow(r, q, e)' /\ ReportedSlots' = ReportedSlots
           /\ UNCHANGED <<tx_skb, tx_count>> /\ FirstInFlight' = FirstInFlight
<1> USE DEF drvVars, ringVars, tagVars, chainVars, sndVars, plVars, stVars, hwVars
<1> DEFINE kept == /\ UNCHANGED <<tx_skb, td_ring, tx_count, tx_chain_head, tx_chain_filled,
                                  mspq, txdma>>
                   /\ FirstInFlight' = FirstInFlight /\ Unchained' = Unchained
                   /\ ReportedSlots' = ReportedSlots
                   /\ StActive' => /\ StActive /\ stdma'.cur = stdma.cur
                                   /\ stdma'.run = "write" <=> stdma.run = "write"
                   /\ sndPc' = "chain" /\ sndHalted' => txdma.run = Halt
<1>0. sndPc = "chain" /\ sndHalted => txdma.run = Halt
  BY DEF Flow, FlowDma
<1> USE DEF FirstInFlight, Completing, Unchained, Chaining, ReportedSlots, Written, PollHolding,
            StActive
<1>1. ASSUME NEW c \in Classes, SendPacket(c) PROVE kept
  BY <1>0, <1>1 DEF SendPacket
<1>2. ASSUME SendCheck PROVE kept
  BY <1>0, <1>2 DEF SendCheck, SendReturn
<1>3. ASSUME SendStopQueue \/ SendMap PROVE kept
  BY <1>0, <1>3 DEF SendStopQueue, SendMap, SendReturn
<1>4. ASSUME SendStat PROVE kept
  BY <1>0, <1>4 DEF SendStat
<1>5. ASSUME StatusIrq \/ PollRead PROVE kept
  BY <1>0, <1>5 DEF StatusIrq, PollRead
<1>6. ASSUME PollPut PROVE kept
  BY <1>0, <1>6 DEF PollPut, reset_tx
<1>7. ASSUME PollWakeCheck \/ PollWake PROVE kept
  BY <1>0, <1>7 DEF PollWakeCheck, PollWake
<1>8. ASSUME PollFinish PROVE kept
  BY <1>0, <1>8 DEF PollFinish, reset_tx
<1>9. ASSUME RecycleStop PROVE kept
  <2>1. tx_next_done \in Slots /\ DOMAIN status_wu = Slots
    BY PlaceFacts DEF TypeOK, ChainType, RingType
  <2>2. status_wu' = [status_wu EXCEPT ![tx_next_done] = ZeroWu] /\ ZeroWu.type = 0
    BY <1>9 DEF RecycleStop, ResetDescAndWu, ZeroWu
  <2>3. Written' = Written \ {tx_next_done}
    BY <2>1, <2>2, Zenon DEF Written
  <2>4. PollHolding /\ ~PollHolding' /\ tx_next_done' = tx_next_done
    BY <1>9 DEF RecycleStop
  <2>5. ReportedSlots' = ReportedSlots
    BY <2>3, <2>4 DEF ReportedSlots
  <2> QED
    BY <1>0, <1>9, <2>5 DEF RecycleStop
<1>10. ASSUME RecycleLink PROVE kept
  BY <1>0, <1>10 DEF RecycleLink
<1>11. ASSUME RecycleAck PROVE kept
  BY <1>0, <1>11 DEF RecycleAck
<1>12. ASSUME StFetch PROVE kept
  BY <1>0, <1>12, PlaceFacts DEF StFetch, TypeOK, HwType, Halt
<1>13. ASSUME UNCHANGED vars PROVE kept
  BY <1>0, <1>13 DEF vars
<1>14. ASSUME PollCheck, plPc' # "put" PROVE kept
  BY <1>0, <1>14 DEF PollCheck, reset_tx
<1>15. ASSUME PollRestart, ~RestartNeeded PROVE kept
  BY <1>0, <1>15 DEF PollRestart
<1>16. ASSUME PollHalt, ~(stdma.run = Halt /\ status_wu[tx_next_done].type = 0) PROVE kept
  BY <1>0, <1>16 DEF PollHalt, PollReturn
<1>17. CASE kept
  BY <1>17, FlowSame
<1> HIDE DEF kept
<1> QED
  BY <1>1, <1>2, <1>3, <1>4, <1>5, <1>6, <1>7, <1>8, <1>9, <1>10, <1>11, <1>12, <1>13, <1>14,
     <1>15, <1>16, <1>17 DEF LookingStep

\* The steps that do.
LEMMA FlowCases ==
    [Next]_vars =>
      \/ LookingStep \/ SendCommit \/ SendChain \/ (PollCheck /\ plPc' = "put")
      \/ (PollRestart /\ RestartNeeded)
      \/ (PollHalt /\ stdma.run = Halt /\ status_wu[tx_next_done].type = 0)
      \/ TxDmaFetch \/ TxDmaXfer \/ StFirstBeat \/ StDone
BY DEF Next, SendStep, PollStep, TxDmaStep, StDmaStep, LookingStep

\* Every step keeps the frames flowing in order.
LEMMA FlowStep ==
    TxInv /\ TxRingConsistent /\ StInv /\ FlowInv /\ [Next]_vars => FlowInv'
<1> SUFFICES ASSUME TxInv, TxRingConsistent, StInv, FlowInv, [Next]_vars, ~tx_reset'
             PROVE  \E r, q, e \in Nat : Flow(r, q, e)'
  BY DEF FlowInv
<1>1. FlowBase
  BY ResetStays DEF FlowBase
<1>2. PICK r \in Nat, q \in Nat, e \in Nat : Flow(r, q, e)
  BY <1>1 DEF FlowBase, FlowInv
<1>3. tx_count \in Nat /\ r <= q /\ q <= e
  BY <1>1, <1>2, PlaceFacts DEF Flow, FlowBounds
<1>4. CASE LookingStep
  BY <1>1, <1>2, <1>4, LookingKeeps
<1>5. CASE SendCommit
  BY <1>1, <1>2, <1>5, FlowCommit
<1>6. CASE SendChain
  <2>1. tx_count' = tx_count
    BY <1>6 DEF SendChain
  <2>2. IF sndHalted THEN Flow(r, q, tx_count)' ELSE Flow(r, q, e)'
    BY <1>1, <1>2, <1>6, FlowChained
  <2> QED
    BY <1>3, <2>1, <2>2
<1>7. CASE PollCheck /\ plPc' = "put"
  <2>1. r > 0 /\ Flow(r - 1, q - 1, e - 1)'
    BY <1>1, <1>2, <1>7, FlowTake
  <2>2. r - 1 \in Nat /\ q - 1 \in Nat /\ e - 1 \in Nat
    BY <1>3, <2>1
  <2> QED
    BY <2>1, <2>2
<1>8. CASE PollRestart /\ RestartNeeded
  <2>1. tx_count' = tx_count
    BY <1>8 DEF PollRestart
  <2>2. Flow(r, q, tx_count)'
    BY <1>1, <1>2, <1>8, FlowRestart
  <2> QED
    BY <1>3, <2>1, <2>2
<1>9. CASE PollHalt /\ stdma.run = Halt /\ status_wu[tx_next_done].type = 0
  BY <1>1, <1>2, <1>9, FlowStRestart
<1>10. CASE TxDmaFetch
  BY <1>1, <1>2, <1>10, FlowFetch
<1>11. CASE TxDmaXfer
  <2>1. Flow(r, q + 1, e)' /\ q + 1 \in Nat
    BY <1>1, <1>2, <1>11, FlowXfer
  <2> QED
    BY <2>1
<1>12. CASE StFirstBeat
  <2>1. Flow(r + 1, q, e)' /\ r + 1 \in Nat
    BY <1>1, <1>2, <1>12, FlowBeat
  <2> QED
    BY <2>1
<1>13. CASE StDone
  <2>1. StInv'
    BY <1>1, PlaceFacts, StStepInv
  <2> QED
    BY <1>1, <1>2, <1>13, <2>1, FlowDone
<1> QED
  BY <1>4, <1>5, <1>6, <1>7, <1>8, <1>9, <1>10, <1>11, <1>12, <1>13, FlowCases

\* The waiting chain is as long as tx_chain_head and tx_chain_tail say.
LEMMA WaitingLength ==
    ASSUME FlowBase, NEW r \in Nat, NEW q \in Nat, NEW e \in Nat, Flow(r, q, e)
    PROVE  ChainLength = tx_count - e
<1>1. tx_chain_head \in Slots /\ FirstInFlight \in Slots /\ NextFree \in Slots
  BY PlaceFacts DEF TypeOK, ChainType
<1>2. e <= tx_count - Unchained /\ Unchained \in {0, 1} /\ tx_count \in 0 .. NUM_TDS
      /\ NUM_TDS > 1 /\ NUM_TDS \in Nat
  BY PlaceFacts DEF Flow, FlowBounds
<1>3. /\ Place(tx_chain_head) = IF e = NUM_TDS THEN 0 ELSE e
      /\ tx_chain_filled <=> e < tx_count - Unchained
  BY DEF Flow, FlowChain
<1>4. Place(NextFree) = IF tx_count = NUM_TDS THEN 0 ELSE tx_count
  BY PlaceFacts
<1>5. \A a \in Slots, b \in Slots :
        Offset(a, b) = IF Place(b) >= Place(a) THEN Place(b) - Place(a)
                       ELSE Place(b) + NUM_TDS - Place(a)
  BY <1>1, TxConstants DEF Place, Offset, Slots
<1>6. tx_chain_head = NextFree <=> Place(tx_chain_head) = Place(NextFree)
  BY <1>1, PlaceFacts
<1>7. CASE tx_chain_head = NextFree
  <2>1. e = tx_count \/ (e = 0 /\ tx_count = NUM_TDS)
    BY <1>2, <1>3, <1>4, <1>6, <1>7
  <2> QED
    BY <1>2, <1>3, <1>7, <2>1 DEF ChainLength
<1>8. CASE tx_chain_head # NextFree
  <2>1. ChainLength = Offset(tx_chain_head, NextFree)
    BY <1>8 DEF ChainLength
  <2>2. e # NUM_TDS /\ Place(tx_chain_head) = e
    BY <1>2, <1>3, <1>4, <1>6, <1>8
  <2> QED
    BY <1>1, <1>2, <1>4, <1>5, <1>6, <1>8, <2>1, <2>2
<1> QED
  BY <1>7, <1>8

\* The inductive invariant of the whole transmit path.
FullInv == TxInv /\ TxRingConsistent /\ StInv /\ FlowInv

\* It holds of what adi_msp_open leaves.
LEMMA RingInit == Init => TxRingConsistent
<1> SUFFICES ASSUME Init PROVE TxRingConsistent
  OBVIOUS
<1>1. /\ FirstInFlight = 0 /\ NextFree = 0 /\ tx_count = 0
      /\ \A i \in Slots : tx_skb[i] = NoSkb
  BY DEF Init, FirstInFlight, Completing, NextFree, Chaining
<1> QED
  BY <1>1, OffsetFacts, SlotFacts, TxConstants DEF TxRingConsistent

\* Every behaviour keeps it.
LEMMA FullInvariant == Spec => []FullInv
<1>1. Init => FullInv
  BY TxInitInv, RingInit, StInitInv, FlowInit DEF FullInv
<1>2. FullInv /\ [Next]_vars => FullInv'
  <2>1. TxInv => TypeOK
    BY DEF TxInv
  <2> QED
    BY <2>1, TxStepInv, TxRingStep, StStepInv, FlowStep DEF FullInv
<1> QED
  BY <1>1, <1>2, PTL DEF Spec

\* The Tx DMA never touches a frame that adi_msp_status has freed, and never
\* a descriptor of the chain adi_msp_send_packet is still linking, although
\* both decide from a DMA status register that may change right after they
\* read it: for every ring size, whatever the interface reports.
THEOREM TxDmaOwnership == Spec => []DmaOwnership
<1>1. FullInv => DmaOwnership
  <2> SUFFICES ASSUME FullInv, txdma.run # Halt, ~tx_reset
               PROVE  /\ tx_skb[txdma.cur] # NoSkb
                      /\ txdma.run = "xfer" => txdma.skb = tx_skb[txdma.cur]
                      /\ Offset(tx_chain_head, txdma.cur) >= ChainLength
    BY DEF DmaOwnership
  <2>1. FlowBase
    BY DEF FullInv, FlowBase
  <2>2. PICK r \in Nat, q \in Nat, e \in Nat : Flow(r, q, e)
    BY DEF FullInv, FlowInv
  <2>3. /\ txdma.cur \in Slots /\ tx_chain_head \in Slots /\ FirstInFlight \in Slots
        /\ tx_count \in 0 .. NUM_TDS /\ Unchained \in {0, 1}
        /\ NUM_TDS \in Nat /\ NUM_TDS > 1
    BY <2>1, PlaceFacts DEF TypeOK, ChainType, HwType
  <2>4. q < e /\ e <= tx_count - Unchained /\ Place(txdma.cur) = q
    BY <2>2 DEF Flow, FlowBounds, FlowDma
  <2>5. tx_skb[txdma.cur] # NoSkb
    BY <2>1, <2>3, <2>4, PlaceFacts
  <2>6. txdma.run = "xfer" => txdma.skb = tx_skb[txdma.cur]
    BY <2>2 DEF Flow, FlowDma
  <2>7. ChainLength = tx_count - e
    BY <2>1, <2>2, WaitingLength
  <2>8. Place(tx_chain_head) = IF e = NUM_TDS THEN 0 ELSE e
    BY <2>2 DEF Flow, FlowChain
  <2>9. Offset(tx_chain_head, txdma.cur)
          = IF Place(txdma.cur) >= Place(tx_chain_head)
            THEN Place(txdma.cur) - Place(tx_chain_head)
            ELSE Place(txdma.cur) + NUM_TDS - Place(tx_chain_head)
    BY <2>3, TxConstants DEF Place, Offset, Slots
  <2>10. Offset(tx_chain_head, txdma.cur) >= ChainLength
    BY <2>3, <2>4, <2>7, <2>8, <2>9
  <2> QED
    BY <2>5, <2>6, <2>10
<1> QED
  BY <1>1, FullInvariant, PTL

\* The slots of the first r places are r slots.
LEMMA PlacesCounted ==
    ASSUME FlowBase, NEW r \in Nat, r <= NUM_TDS
    PROVE  Cardinality({i \in Slots : Place(i) < r}) = r
<1> DEFINE S == {i \in Slots : Place(i) < r}
           T == 0 .. r - 1
           f == [i \in S |-> Place(i)]
           At(k) == IF FirstInFlight + k < NUM_TDS THEN FirstInFlight + k
                        ELSE FirstInFlight + k - NUM_TDS
<1>1. f \in [S -> T]
  BY PlaceFacts
<1>2. \A i, j \in S : f[i] = f[j] => i = j
  BY PlaceFacts
<1>3. \A k \in T : \E i \in S : f[i] = k
  <2> SUFFICES ASSUME NEW k \in T PROVE At(k) \in Slots /\ Place(At(k)) = k
    OBVIOUS
  <2>1. FirstInFlight \in Slots /\ NUM_TDS \in Nat
    BY PlaceFacts
  <2> QED
    BY <2>1 DEF Place, Offset, Slots
<1>4. f \in Bijection(S, T)
  <2> HIDE DEF S, T, f
  <2> QED
    BY <1>1, <1>2, <1>3 DEF Bijection, Injection, Surjection, IsInjective
<1>5. IsFiniteSet(T) /\ Cardinality(T) = r
  BY FS_Interval
<1>6. IsFiniteSet(S)
  <2>1. IsFiniteSet(Slots)
    BY FS_Interval, TxConstants DEF Slots
  <2> QED
    BY <2>1, FS_Subset
<1>7. ExistsBijection(S, T)
  BY <1>4 DEF ExistsBijection
<1> QED
  BY <1>5, <1>6, <1>7, FS_Bijection

\* The frames with a status are as many as the flow says.
LEMMA ReportedCounted ==
    ASSUME FlowBase, NEW r \in Nat, NEW q \in Nat, NEW e \in Nat, Flow(r, q, e)
    PROVE  Cardinality(Reported) = r
<1>1. r <= q /\ q <= e /\ e <= tx_count /\ tx_count \in 0 .. NUM_TDS /\ NUM_TDS \in Nat
  BY PlaceFacts DEF Flow, FlowBounds
<1>2. Reported = {i \in Slots : Place(i) < r}
  <2>1. Completing /\ plPc \notin {"link", "ack"} <=> PollHolding
    BY DEF Completing, PollHolding
  <2>2. Reported = {i \in ReportedSlots : tx_skb[i] # NoSkb}
    BY <2>1, Zenon DEF Reported, ReportedSlots, Written
  <2>3. \A i \in Slots : i \in ReportedSlots <=> Place(i) < r
    BY DEF Flow, FlowStatus
  <2>4. ReportedSlots \subseteq Slots
    BY DEF ReportedSlots, Written
  <2>5. \A i \in Slots : Place(i) < r => tx_skb[i] # NoSkb
    BY <1>1, PlaceFacts
  <2> QED
    BY <2>2, <2>3, <2>4, <2>5
<1> QED
  BY <1>1, <1>2, PlacesCounted

\* The restart of the Tx DMA in adi_msp_status and in adi_msp_send_packet
\* forgets no frame: whenever the Tx DMA is halted, every frame in flight has
\* its status, is inside the interface, or is in the chain that starts next.
THEOREM TxNoFrameForgotten == Spec => []NoFrameForgotten
<1>1. FullInv => NoFrameForgotten
  <2> SUFFICES ASSUME FullInv, txdma.run = Halt, ~tx_reset
               PROVE  tx_count = Cardinality(Reported) + Len(mspq) + ChainLength
    BY DEF NoFrameForgotten
  <2>1. FlowBase
    BY DEF FullInv, FlowBase
  <2>2. PICK r \in Nat, q \in Nat, e \in Nat : Flow(r, q, e)
    BY DEF FullInv, FlowInv
  <2>3. r <= q /\ q = e /\ e <= tx_count - Unchained /\ Len(mspq) = q - r
        /\ tx_count \in 0 .. NUM_TDS /\ Unchained \in {0, 1} /\ NUM_TDS \in Nat
    BY <2>1, <2>2, PlaceFacts DEF Flow, FlowBounds, FlowDma
  <2>5. Cardinality(Reported) = r
    BY <2>1, <2>2, ReportedCounted
  <2>6. ChainLength = tx_count - e
    BY <2>1, <2>2, WaitingLength
  <2> QED
    BY <2>3, <2>5, <2>6
<1> QED
  BY <1>1, FullInvariant, PTL

\* At "check" the work unit the poll looks at belongs to a frame in flight.
LEMMA CheckedReported ==
    ASSUME FlowBase, plPc = "check"
    PROVE  tx_next_done \in ReportedSlots
BY DEF FlowBase, StInv, PollKnows, ReportedSlots, PollHolding

\* The steps that write no status leave those of frames in flight alone.
LEMMA LookingStatus ==
    ASSUME FlowBase, LookingStep
    PROVE  /\ UNCHANGED tx_skb
           /\ \A i \in ReportedSlots : status_wu'[i] = status_wu[i]
<1> USE DEF drvVars, ringVars
<1>1. CASE RecycleStop
  <2>1. tx_next_done \in Slots /\ DOMAIN status_wu = Slots
    BY PlaceFacts DEF TypeOK, ChainType, RingType
  <2>2. status_wu' = [status_wu EXCEPT ![tx_next_done] = ZeroWu] /\ UNCHANGED tx_skb
        /\ PollHolding
    BY <1>1 DEF RecycleStop, ResetDescAndWu, PollHolding
  <2>3. \A i \in ReportedSlots : i # tx_next_done /\ i \in Slots
    BY <2>2 DEF ReportedSlots, Written
  <2> QED
    BY <2>1, <2>2, <2>3
<1>2. ASSUME NEW c \in Classes, SendPacket(c) PROVE UNCHANGED <<tx_skb, status_wu>>
  BY <1>2 DEF SendPacket
<1>3. CASE SendCheck \/ SendStopQueue \/ SendMap \/ SendStat \/ StatusIrq \/ PollRead
  BY <1>3 DEF SendCheck, SendStopQueue, SendMap, SendStat, StatusIrq, PollRead
<1>4. CASE PollPut \/ PollWakeCheck \/ PollWake \/ PollFinish \/ RecycleLink \/ RecycleAck
  BY <1>4 DEF PollPut, PollWakeCheck, PollWake, PollFinish, RecycleLink, RecycleAck
<1>5. CASE StFetch \/ UNCHANGED vars
  BY <1>5 DEF StFetch, vars
<1>6. CASE PollCheck /\ plPc' # "put"
  BY <1>6 DEF PollCheck, reset_tx
<1>7. CASE PollRestart \/ PollHalt
  BY <1>7 DEF PollRestart, PollHalt
<1> QED
  BY <1>1, <1>2, <1>3, <1>4, <1>5, <1>6, <1>7 DEF LookingStep

\* What the poll has read of a status stays a report of the frame it took.
LEMMA LookingPoll ==
    ASSUME FlowBase, LookingStep, ~tx_reset', ReportsMatch
    PROVE  /\ plPc' = "check" => SameStatus(plWu, status_wu[tx_next_done])'
           /\ plPc' \in {"put", "wakecheck", "wake", "finish"} => Reports(plWu, plSkb)'
<1> USE DEF drvVars, ringVars, plVars, sndVars, hwVars, stVars
<1> DEFINE kept == UNCHANGED <<plPc, plWu, plSkb, status_wu, tx_next_done>>
<1>0. /\ plPc = "check" => SameStatus(plWu, status_wu[tx_next_done])
      /\ plPc \in {"put", "wakecheck", "wake", "finish"} => Reports(plWu, plSkb)
  BY DEF FlowBase, ReportsMatch
<1>1. ASSUME NEW c \in Classes, SendPacket(c) PROVE kept
  BY <1>1 DEF SendPacket
<1>2. ASSUME SendCheck \/ SendStopQueue \/ SendMap \/ SendStat \/ StFetch \/ UNCHANGED vars
      PROVE  kept
  BY <1>2 DEF SendCheck, SendStopQueue, SendMap, SendStat, StFetch, vars
<1>3. CASE kept
  BY <1>0, <1>3 DEF SameStatus, Reports
<1>4. CASE PollRead
  BY <1>4 DEF PollRead, SameStatus
<1>5. CASE PollPut
  <2>1. plPc' = "wakecheck" /\ UNCHANGED <<plWu, plSkb>> /\ plPc = "put"
    BY <1>5 DEF PollPut, reset_tx
  <2> QED
    BY <1>0, <2>1 DEF Reports, SameStatus
<1>6. CASE PollWakeCheck \/ PollWake
  <2>1. plPc' \in {"wake", "finish"} /\ UNCHANGED <<plWu, plSkb>> /\ plPc \in {"wakecheck", "wake"}
    BY <1>6 DEF PollWakeCheck, PollWake
  <2> QED
    BY <1>0, <2>1 DEF Reports, SameStatus
<1>7. CASE \/ PollFinish \/ StatusIrq \/ RecycleStop \/ RecycleLink \/ RecycleAck
           \/ (PollCheck /\ plPc' # "put") \/ PollRestart \/ PollHalt
  <2>1. plPc' \in {"idle", "loop", "restart", "halt", "recycle", "link", "ack"}
    BY <1>7 DEF PollFinish, StatusIrq, RecycleStop, RecycleLink, RecycleAck, PollCheck,
                PollRestart, PollHalt, reset_tx, PollReturn
  <2> QED
    BY <2>1
<1> HIDE DEF kept
<1> QED
  BY <1>1, <1>2, <1>3, <1>4, <1>5, <1>6, <1>7 DEF LookingStep

\* The status DMA writes the status of a frame into that frame's slot, and
\* the poll reads it back from there.
LEMMA ReportsStep == FullInv /\ ReportsMatch /\ [Next]_vars => ReportsMatch'
<1> SUFFICES ASSUME FullInv, ReportsMatch, [Next]_vars, ~tx_reset'
             PROVE  /\ \A i \in ReportedSlots' : Reports(status_wu[i], tx_skb[i])'
                    /\ plPc' = "check" => SameStatus(plWu, status_wu[tx_next_done])'
                    /\ plPc' \in {"put", "wakecheck", "wake", "finish"} => Reports(plWu, plSkb)'
  BY DEF ReportsMatch
<1> USE DEF drvVars, ringVars, plVars, sndVars, hwVars, stVars
<1>1. FlowBase
  BY ResetStays DEF FullInv, FlowBase
<1>2. PICK r \in Nat, q \in Nat, e \in Nat : Flow(r, q, e)
  BY <1>1 DEF FlowBase, FullInv, FlowInv
<1>3. /\ \A i \in ReportedSlots : Reports(status_wu[i], tx_skb[i])
      /\ plPc = "check" => SameStatus(plWu, status_wu[tx_next_done])
      /\ plPc \in {"put", "wakecheck", "wake", "finish"} => Reports(plWu, plSkb)
  BY <1>1 DEF FlowBase, ReportsMatch
<1>4. ReportedSlots \subseteq Slots /\ tx_next_done \in Slots /\ stdma.cur \in Slots
      /\ tx_chain_tail \in Slots /\ status_wu \in [Slots -> StatusWu] /\ tx_skb \in [Slots -> Skb]
  BY <1>1, PlaceFacts DEF ReportedSlots, Written, TypeOK, ChainType, HwType, RingType
<1>5. CASE LookingStep
  <2>1. ReportedSlots' = ReportedSlots
    BY <1>1, <1>2, <1>5, LookingKeeps
  <2> QED
    BY <1>1, <1>3, <1>5, <2>1, LookingStatus, LookingPoll DEF Reports, SameStatus
<1>6. CASE SendCommit
  <2>1. UNCHANGED <<plPc, plWu, plSkb, tx_next_done, status_wu>> /\ ReportedSlots' = ReportedSlots
    BY <1>6 DEF SendCommit, ReportedSlots, Written, PollHolding
  <2>2. \A i \in ReportedSlots : i # tx_chain_tail
    <3>1. NextFree = tx_chain_tail /\ tx_count < NUM_TDS
      BY <1>1, <1>6 DEF SendCommit, NextFree, Chaining, FlowBase, TxInv, SenderHolds
    <3>2. Place(tx_chain_tail) = tx_count /\ tx_count \in Nat
      BY <1>1, <3>1, PlaceFacts
    <3>3. r <= tx_count
      BY <1>1, <1>2, PlaceFacts DEF Flow, FlowBounds
    <3> QED
      BY <1>2, <1>4, <3>2, <3>3 DEF Flow, FlowStatus
  <2>3. \A i \in ReportedSlots : tx_skb'[i] = tx_skb[i]
    BY <1>4, <1>6, <2>2 DEF SendCommit
  <2> QED
    BY <1>3, <2>1, <2>3 DEF Reports, SameStatus
<1>7. CASE SendChain \/ TxDmaFetch \/ TxDmaXfer
  <2>1. UNCHANGED <<plPc, plWu, plSkb, tx_next_done, status_wu, tx_skb>>
        /\ ReportedSlots' = ReportedSlots
    BY <1>7 DEF SendChain, TxDmaFetch, TxDmaXfer, ReportedSlots, Written, PollHolding
  <2> QED
    BY <1>3, <2>1 DEF Reports, SameStatus
<1>8. CASE PollRestart \/ PollHalt
  <2>1. UNCHANGED <<tx_next_done, status_wu, tx_skb>> /\ ReportedSlots' = ReportedSlots
        /\ plPc' \in {"halt", "idle", "loop"}
    BY <1>8 DEF PollRestart, PollHalt, PollReturn, ReportedSlots, Written, PollHolding
  <2> QED
    BY <1>3, <2>1 DEF Reports, SameStatus
<1>9. CASE PollCheck /\ plPc' = "put"
  <2>1. /\ plPc = "check" /\ plWu' = plWu /\ plSkb' = tx_skb[tx_next_done]
        /\ UNCHANGED <<status_wu, tx_next_done>>
        /\ tx_skb' = [tx_skb EXCEPT ![tx_next_done] = NoSkb]
    BY <1>9 DEF PollCheck, reset_tx, PollReturn
  <2>2. tx_next_done \in ReportedSlots
    BY <1>1, <2>1, CheckedReported
  <2>3. ReportedSlots' = ReportedSlots \ {tx_next_done}
    BY <1>9, <2>1 DEF ReportedSlots, Written, PollHolding
  <2>4. \A i \in ReportedSlots' : tx_skb'[i] = tx_skb[i] /\ i \in ReportedSlots
    BY <1>4, <2>1, <2>3
  <2>5. Reports(plWu, plSkb)'
    <3>1. SameStatus(plWu, status_wu[tx_next_done])
          /\ Reports(status_wu[tx_next_done], tx_skb[tx_next_done])
      BY <1>3, <2>1, <2>2
    <3>2. PICK v \in Report(tx_skb[tx_next_done]) : SameStatus(status_wu[tx_next_done], v)
      BY <3>1 DEF Reports
    <3>3. SameStatus(plWu, v)
      BY <3>1, <3>2 DEF SameStatus
    <3> QED
      BY <2>1, <3>2, <3>3 DEF Reports, SameStatus
  <2> QED
    BY <1>3, <1>9, <2>1, <2>4, <2>5 DEF Reports, SameStatus
<1>10. CASE StFirstBeat
  <2>1. UNCHANGED <<plPc, plWu, plSkb, tx_next_done, tx_skb>>
    BY <1>10 DEF StFirstBeat
  <2>2. /\ Head(mspq) = tx_skb[stdma.cur] /\ ReportedSlots' = ReportedSlots \cup {stdma.cur}
        /\ stdma.cur \notin ReportedSlots
    BY <1>1, <1>2, <1>10, FlowBeat
  <2>3. PICK wu \in Report(Head(mspq)) : status_wu' = [status_wu EXCEPT ![stdma.cur] = wu]
    BY <1>10 DEF StFirstBeat
  <2>4. /\ status_wu'[stdma.cur] = wu
        /\ \A i \in ReportedSlots : status_wu'[i] = status_wu[i]
    BY <1>4, <2>2, <2>3
  <2>5. Reports(status_wu'[stdma.cur], tx_skb'[stdma.cur])
    BY <2>1, <2>2, <2>3, <2>4 DEF Reports, SameStatus
  <2>6. \A i \in ReportedSlots' : Reports(status_wu'[i], tx_skb'[i])
    BY <1>3, <2>1, <2>2, <2>4, <2>5
  <2>7. plPc = "check" => tx_next_done \in ReportedSlots
    BY <1>1, CheckedReported
  <2> QED
    BY <1>3, <2>1, <2>4, <2>6, <2>7 DEF Reports, SameStatus
<1>11. CASE StDone
  <2>1. UNCHANGED <<plPc, plWu, plSkb, tx_next_done, tx_skb>>
    BY <1>11 DEF StDone
  <2>2. StInv'
    BY <1>1, PlaceFacts, StStepInv DEF FlowBase
  <2>3. ReportedSlots' = ReportedSlots
    BY <1>1, <1>2, <1>11, <2>2, FlowDone
  <2>4. \A i \in Slots : SameStatus(status_wu'[i], status_wu[i])
    <3>1. /\ status_wu' = [status_wu EXCEPT ![stdma.cur]
                              = [status_wu[stdma.cur] EXCEPT !.stamped = TRUE]]
      BY <1>11 DEF StDone
    <3>2. status_wu[stdma.cur] \in StatusWu
      BY <1>4
    <3>3. SameStatus([status_wu[stdma.cur] EXCEPT !.stamped = TRUE], status_wu[stdma.cur])
      BY <3>2 DEF SameStatus, StatusWu
    <3> QED
      BY <1>4, <3>1, <3>3 DEF SameStatus
  <2>5. ASSUME NEW i \in ReportedSlots PROVE Reports(status_wu'[i], tx_skb[i])
    <3>1. PICK v \in Report(tx_skb[i]) : SameStatus(status_wu[i], v)
      BY <1>3 DEF Reports
    <3>2. SameStatus(status_wu'[i], v)
      BY <1>4, <2>4, <3>1 DEF SameStatus
    <3> QED
      BY <3>1, <3>2 DEF Reports
  <2>6. plPc = "check" => SameStatus(plWu, status_wu'[tx_next_done])
    BY <1>3, <1>4, <2>4 DEF SameStatus
  <2> QED
    BY <1>3, <2>1, <2>3, <2>5, <2>6 DEF Reports, SameStatus
<1> QED
  BY <1>5, <1>6, <1>7, <1>8, <1>9, <1>10, <1>11, FlowCases

-----------------------------------------------------------------------------
(***************************************************************************)
(* The frame tags.  Within a class, the tags of the frames in flight are   *)
(* consecutive and in the order of the frames, starting after              *)
(* last_[non]ptp_frame_tag and ending before next_[non]ptp_frame_tag.      *)
(***************************************************************************)

\* How many tags after the tag f the tag t of the same class comes.
TagDistance(c, f, t) == IF t >= f THEN t - f ELSE t + TagCount(c) - f

FirstTag(c) == TagAfter(c, last_tag[c])        \* the one put_frame_tag expects
TagAge(c, t) == TagDistance(c, FirstTag(c), t)
TagsOut(c) == TagCount(c) - available[c]
Held(c) == {i \in Slots : tx_skb[i] # NoSkb /\ tx_skb[i].class = c}

\* put_frame_tag is about to return the tag of the frame the poll has taken.
Putting(c) == plPc = "put" /\ plSkb.class = c

\* The next tag is the one after those that are out.
NextTagRight(c) ==
    /\ available[c] <= TagCount(c)
    /\ TagAge(c, next_tag[c]) = IF available[c] = 0 THEN 0 ELSE TagsOut(c)

\* The tags of the frames in flight are out, in the order of the frames.
TagsInOrder(c) ==
    /\ \A i \in Held(c) : /\ tx_skb[i].tag \in MinTag(c) .. MaxTag(c)
                          /\ TagAge(c, tx_skb[i].tag) < TagsOut(c)
    /\ \A i, j \in Held(c) :
         Place(i) < Place(j) => TagAge(c, tx_skb[i].tag) < TagAge(c, tx_skb[j].tag)

\* Every tag that is out belongs to a frame.
NoTagLost(c) ==
    \A k \in Nat : k < TagsOut(c) =>
      (Putting(c) /\ k = 0) \/ \E i \in Held(c) : TagAge(c, tx_skb[i].tag) = k

\* The tag being put back is the oldest.
PutsOldest(c) ==
    Putting(c) =>
      /\ plSkb.tag \in MinTag(c) .. MaxTag(c) /\ TagAge(c, plSkb.tag) = 0
      /\ TagsOut(c) > 0
      /\ \A i \in Held(c) : TagAge(c, tx_skb[i].tag) > 0

TagOrder(c) == NextTagRight(c) /\ TagsInOrder(c) /\ NoTagLost(c) /\ PutsOldest(c)
TagInv ==
    ~tx_reset => /\ \A c \in FrameClass : TagOrder(c)
                 /\ sndPc = "commit" => sndTag = next_tag[sndClass]

\* Distances between the tags of a class, and the number of its tags.
LEMMA TagDistanceFacts ==
    ASSUME NEW c \in FrameClass, NEW f \in MinTag(c) .. MaxTag(c)
    PROVE  /\ TagCount(c) \in Nat /\ TagCount(c) > 0
           /\ \A t \in MinTag(c) .. MaxTag(c) :
                /\ TagDistance(c, f, t) \in 0 .. TagCount(c) - 1
                /\ TagDistance(c, f, t) = 0 <=> t = f
                /\ TagAfter(c, t) \in MinTag(c) .. MaxTag(c)
                /\ TagDistance(c, f, TagAfter(c, t))
                     = IF TagDistance(c, f, t) = TagCount(c) - 1 THEN 0
                       ELSE TagDistance(c, f, t) + 1
                /\ TagDistance(c, TagAfter(c, f), t)
                     = IF t = f THEN TagCount(c) - 1 ELSE TagDistance(c, f, t) - 1
           /\ \A t, u \in MinTag(c) .. MaxTag(c) :
                TagDistance(c, f, t) = TagDistance(c, f, u) => t = u
<1>1. MinTag(c) \in Nat /\ MaxTag(c) \in Nat /\ MinTag(c) <= MaxTag(c)
  BY TxConstants DEF MinTag, MaxTag, FrameClass
<1> QED
  BY <1>1 DEF TagDistance, TagCount, TagAfter

\* The registers of the tags, by class.
LEMMA TagRegisters ==
    ASSUME TypeOK, NEW c \in FrameClass
    PROVE  /\ next_tag[c] \in MinTag(c) .. MaxTag(c) /\ last_tag[c] \in MinTag(c) .. MaxTag(c)
           /\ FirstTag(c) \in MinTag(c) .. MaxTag(c)
           /\ available[c] \in Nat /\ TagCount(c) \in Nat /\ TagCount(c) > 0
           /\ TagsOut(c) \in Int
BY TagFacts DEF TypeOK, TagType, FirstTag, TagsOut

\* After adi_msp_open all tags are available.
LEMMA TagInit == Init => TagInv
<1> SUFFICES ASSUME Init PROVE TagInv
  OBVIOUS
<1>1. TypeOK
  BY TxInitInv DEF TxInv
<1>2. ASSUME NEW c \in FrameClass PROVE TagOrder(c)
  <2>1. FirstTag(c) = MinTag(c) /\ next_tag[c] = MinTag(c) /\ available[c] = TagCount(c)
    BY TagFacts DEF Init, FirstTag, TagAfter
  <2>2. MinTag(c) \in MinTag(c) .. MaxTag(c) /\ TagCount(c) \in Nat /\ TagCount(c) > 0
    BY TagFacts
  <2>3. TagsOut(c) = 0 /\ Held(c) = {} /\ ~Putting(c)
    BY <2>1, <2>2 DEF TagsOut, Held, Init, Putting
  <2>4. TagAge(c, next_tag[c]) = 0
    BY <2>1, <2>2, TagDistanceFacts DEF TagAge
  <2> QED
    BY <2>1, <2>2, <2>3, <2>4 DEF TagOrder, NextTagRight, TagsInOrder, NoTagLost, PutsOldest
<1> QED
  BY <1>2 DEF TagInv, Init

\* A step that touches neither the tags nor the frames keeps their order.
LEMMA TagSame ==
    ASSUME NEW c \in FrameClass, TagOrder(c),
           UNCHANGED <<tx_skb, next_tag, last_tag, available>>,
           FirstInFlight' = FirstInFlight,
           Putting(c)' = Putting(c), Putting(c) => plSkb' = plSkb
    PROVE  TagOrder(c)'
<1>1. /\ Held(c)' = Held(c) /\ TagsOut(c)' = TagsOut(c) /\ FirstTag(c)' = FirstTag(c)
      /\ \A i : Place(i)' = Place(i)
  BY DEF Held, TagsOut, FirstTag, Place
<1>2. NextTagRight(c)'
  BY <1>1 DEF TagOrder, NextTagRight, TagAge
<1>3. TagsInOrder(c)' /\ NoTagLost(c)'
  BY <1>1 DEF TagOrder, TagsInOrder, NoTagLost, TagAge
<1>4. PutsOldest(c)'
  BY <1>1 DEF TagOrder, PutsOldest, TagAge
<1> QED
  BY <1>2, <1>3, <1>4 DEF TagOrder

\* get_frame_tag hands out the next tag, to the youngest frame.
LEMMA TagCommit ==
    ASSUME FlowBase, TagInv, SendCommit, NEW c \in FrameClass
    PROVE  TagOrder(c)'
<1> DEFINE t == tx_chain_tail
           skb == [class |-> sndClass, tag |-> sndTag]
<1>1. /\ t \in Slots /\ tx_skb \in [Slots -> Skb] /\ TypeOK
      /\ sndClass \in FrameClass /\ sndTag \in Nat
  BY PlaceFacts, TxConstants DEF TypeOK, ChainType, RingType, SendType
<1>2. /\ tx_count < NUM_TDS /\ available[sndClass] > 0 /\ NextFree = t
      /\ FirstInFlight' = FirstInFlight /\ plPc' = plPc /\ plSkb' = plSkb /\ last_tag' = last_tag
      /\ skb # NoSkb /\ tx_skb' = [tx_skb EXCEPT ![t] = skb]
  <2>1. skb # NoSkb
    BY DataFacts, TxConstants DEF FlowBase, TxInv, TypeOK, SendType, SenderHolds, SendCommit
  <2> QED
    BY <2>1 DEF SendCommit, FlowBase, TxInv, SenderHolds, NextFree, Chaining, FirstInFlight,
                Completing, plVars
<1>3. Place(t) = tx_count /\ tx_count \in Nat /\ tx_skb[t] = NoSkb
  BY <1>1, <1>2, PlaceFacts
<1>4. /\ \A i \in Slots : i # t => tx_skb'[i] = tx_skb[i]
      /\ tx_skb'[t] = skb /\ skb.class = sndClass /\ skb.tag = sndTag
  BY <1>1, <1>2
<1>5. sndTag = next_tag[sndClass] /\ TagOrder(c)
  BY DEF FlowBase, TagInv, SendCommit
<1>6. \A i \in Slots : Place(i)' = Place(i)
  BY <1>2 DEF Place
<1>7. FirstTag(c)' = FirstTag(c) /\ Putting(c)' = Putting(c)
  BY <1>2 DEF FirstTag, Putting
<1>8. /\ available' = [available EXCEPT ![sndClass] = available[sndClass] - 1]
      /\ next_tag' = [next_tag EXCEPT ![sndClass] = TagAfter(sndClass, next_tag[sndClass])]
  BY <1>2 DEF SendCommit, get_frame_tag
<1> HIDE DEF skb
<1>9. CASE c # sndClass
  <2>1. Held(c)' = Held(c)
    BY <1>1, <1>2, <1>3, <1>4, <1>9 DEF Held
  <2>2. \A i \in Held(c) : tx_skb'[i] = tx_skb[i] /\ i \in Slots
    BY <1>3, <1>4 DEF Held
  <2>3. available'[c] = available[c] /\ next_tag'[c] = next_tag[c]
    BY <1>1, <1>8, <1>9 DEF TypeOK, TagType
  <2>4. TagsOut(c)' = TagsOut(c)
    BY <2>3 DEF TagsOut
  <2> QED
    BY <1>2, <1>5, <1>6, <1>7, <2>1, <2>2, <2>3, <2>4
       DEF TagOrder, NextTagRight, TagsInOrder, NoTagLost, PutsOldest, TagAge
<1>10. CASE c = sndClass
  <2> DEFINE old == TagsOut(c)
             age(x) == TagAge(c, x)
  <2>1. available[c] \in Nat /\ available[c] > 0 /\ available[c] <= TagCount(c)
        /\ TagCount(c) \in Nat /\ FirstTag(c) \in MinTag(c) .. MaxTag(c)
        /\ next_tag[c] \in MinTag(c) .. MaxTag(c)
    BY <1>1, <1>2, <1>5, <1>10, TagRegisters DEF TagOrder, NextTagRight
  <2>2. old \in 0 .. TagCount(c) - 1 /\ age(sndTag) = old
    BY <1>5, <1>10, <2>1 DEF TagsOut, TagOrder, NextTagRight
  <2>3. available'[c] = available[c] - 1 /\ next_tag'[c] = TagAfter(c, next_tag[c])
    BY <1>1, <1>8, <1>10 DEF TypeOK, TagType
  <2>4. TagsOut(c)' = old + 1
    BY <2>1, <2>3 DEF TagsOut
  <2>5. Held(c)' = Held(c) \cup {t} /\ t \notin Held(c)
    BY <1>1, <1>2, <1>3, <1>4, <1>10 DEF Held
  <2>6. \A i \in Held(c) : tx_skb'[i] = tx_skb[i] /\ i \in Slots /\ Place(i) < tx_count
    BY <1>3, <1>4, PlaceFacts DEF Held
  <2>7. \A x : TagAge(c, x)' = age(x)
    BY <1>7 DEF TagAge
  <2>8. \A i \in Held(c) : age(tx_skb[i].tag) < old /\ age(tx_skb[i].tag) \in Nat
                           /\ tx_skb[i].tag \in MinTag(c) .. MaxTag(c)
    BY <1>5, <2>1, TagDistanceFacts DEF TagOrder, TagsInOrder, TagAge
  <2>9. age(next_tag'[c]) = IF old = TagCount(c) - 1 THEN 0 ELSE old + 1
    BY <1>5, <1>10, <2>1, <2>2, <2>3, TagDistanceFacts DEF TagAge
  <2> HIDE DEF old, age
  <2>10. NextTagRight(c)'
    <3>1. TagAge(c, next_tag[c])' = age(next_tag'[c])
      BY <1>7 DEF TagAge, age
    <3>2. available[c] - 1 = 0 <=> old = TagCount(c) - 1
      BY <2>1 DEF old, TagsOut
    <3> QED
      BY <2>1, <2>2, <2>3, <2>4, <2>9, <3>1, <3>2 DEF NextTagRight
  <2>11. TagsInOrder(c)'
    <3>1. ASSUME NEW i \in Held(c)'
          PROVE  tx_skb'[i].tag \in MinTag(c) .. MaxTag(c) /\ age(tx_skb'[i].tag) < old + 1
      <4>1. CASE i = t
        BY <1>4, <1>5, <1>10, <2>1, <2>2, <4>1
      <4>2. CASE i \in Held(c)
        BY <2>2, <2>6, <2>8, <4>2
      <4> QED
        BY <2>5, <4>1, <4>2
    <3>2. ASSUME NEW i \in Held(c)', NEW j \in Held(c)', Place(i) < Place(j)
          PROVE  age(tx_skb'[i].tag) < age(tx_skb'[j].tag)
      <4>1. CASE i = t
        BY <1>3, <2>5, <2>6, <3>2, <4>1, PlaceFacts
      <4>2. CASE i # t /\ j = t
        BY <1>4, <2>2, <2>5, <2>6, <2>8, <4>2
      <4>3. CASE i # t /\ j # t
        <5>1. i \in Held(c) /\ j \in Held(c)
          BY <2>5, <4>3
        <5>2. age(tx_skb[i].tag) < age(tx_skb[j].tag)
          BY <1>5, <3>2, <5>1 DEF TagOrder, TagsInOrder, age
        <5> QED
          BY <2>6, <5>1, <5>2
      <4> QED
        BY <4>1, <4>2, <4>3
    <3>3. \A i \in Held(c)' : i \in Slots
      BY <1>1, <2>5, <2>6
    <3> QED
      BY <1>6, <2>4, <2>7, <3>1, <3>2, <3>3 DEF TagsInOrder
  <2>12. NoTagLost(c)'
    <3> SUFFICES ASSUME NEW k \in Nat, k < old + 1
                 PROVE  (Putting(c) /\ k = 0) \/ \E i \in Held(c)' : age(tx_skb'[i].tag) = k
      BY <1>7, <2>4, <2>7 DEF NoTagLost
    <3>1. CASE k = old
      BY <1>4, <2>2, <2>5, <3>1
    <3>2. CASE k # old
      <4>1. k < old
        BY <2>2, <3>2
      <4>2. (Putting(c) /\ k = 0) \/ \E i \in Held(c) : age(tx_skb[i].tag) = k
        BY <1>5, <4>1 DEF TagOrder, NoTagLost, old, age
      <4> QED
        BY <2>5, <2>6, <4>2
    <3> QED
      BY <3>1, <3>2
  <2>13. PutsOldest(c)'
    <3> SUFFICES ASSUME Putting(c)
                 PROVE  /\ plSkb.tag \in MinTag(c) .. MaxTag(c) /\ age(plSkb.tag) = 0
                        /\ old + 1 > 0 /\ \A i \in Held(c)' : age(tx_skb'[i].tag) > 0
      BY <1>2, <1>7, <2>4, <2>7 DEF PutsOldest
    <3>1. /\ plSkb.tag \in MinTag(c) .. MaxTag(c) /\ age(plSkb.tag) = 0 /\ old > 0
          /\ \A i \in Held(c) : age(tx_skb[i].tag) > 0
      BY <1>5 DEF TagOrder, PutsOldest, age, old
    <3>2. age(tx_skb'[t].tag) > 0
      BY <1>4, <2>2, <3>1
    <3> QED
      BY <2>2, <2>5, <2>6, <3>1, <3>2
  <2> QED
    BY <2>10, <2>11, <2>12, <2>13 DEF TagOrder
<1> QED
  BY <1>9, <1>10

\* PollCheck takes the oldest frame, whose tag is the oldest of its class.
LEMMA TagTake ==
    ASSUME FlowBase, TagInv, PollCheck, plPc' = "put", NEW c \in FrameClass
    PROVE  TagOrder(c)'
<1> DEFINE d == tx_next_done
<1>1. d \in Slots /\ tx_skb \in [Slots -> Skb] /\ TypeOK
  BY PlaceFacts DEF TypeOK, ChainType, RingType
<1>2. /\ plPc = "check" /\ plSkb' = tx_skb[d] /\ tx_skb[d] # NoSkb
      /\ tx_skb' = [tx_skb EXCEPT ![d] = NoSkb]
      /\ FirstInFlight = d /\ FirstInFlight' = SlotAfter(d)
      /\ UNCHANGED <<next_tag, last_tag, available>>
  BY DEF PollCheck, reset_tx, PollReturn, FirstInFlight, Completing, tagVars
<1>3. /\ \A i \in Slots : i # d => tx_skb'[i] = tx_skb[i]
      /\ tx_skb'[d] = NoSkb
  BY <1>1, <1>2
<1>4. TagOrder(c) /\ ~Putting(c)
  BY <1>2 DEF FlowBase, TagInv, Putting
<1>5. /\ Held(c)' = Held(c) \ {d} /\ Held(c) \subseteq Slots
      /\ FirstTag(c)' = FirstTag(c) /\ TagsOut(c)' = TagsOut(c)
      /\ Putting(c)' <=> d \in Held(c)
  BY <1>1, <1>2, <1>3 DEF Held, FirstTag, TagsOut, Putting, PollCheck
<1>6. \A x : TagAge(c, x)' = TagAge(c, x)
  BY <1>5 DEF TagAge
<1>7. \A i \in Slots : /\ i # d => Place(i) > Place(d) /\ Offset(SlotAfter(d), i) = Place(i) - 1
                       /\ Place(i) \in Nat
  BY <1>1, <1>2, OffsetFromNext, PlaceFacts DEF Place
<1>8. \A i \in Held(c) : /\ tx_skb[i].tag \in MinTag(c) .. MaxTag(c)
                         /\ TagAge(c, tx_skb[i].tag) \in Nat
                         /\ TagAge(c, tx_skb[i].tag) < TagsOut(c)
  BY <1>1, <1>4, TagRegisters, TagDistanceFacts DEF TagOrder, TagsInOrder, TagAge
<1>9. d \in Held(c) => /\ TagAge(c, tx_skb[d].tag) = 0 /\ TagsOut(c) > 0
                       /\ \A i \in Held(c) : i # d => TagAge(c, tx_skb[i].tag) > 0
  <2> SUFFICES ASSUME d \in Held(c)
               PROVE  /\ TagAge(c, tx_skb[d].tag) = 0 /\ TagsOut(c) > 0
                      /\ \A i \in Held(c) : i # d => TagAge(c, tx_skb[i].tag) > 0
    OBVIOUS
  <2>1. TagsOut(c) > 0
    BY <1>1, <1>8, TagRegisters
  <2>2. PICK i \in Held(c) : TagAge(c, tx_skb[i].tag) = 0
    BY <1>4, <2>1 DEF TagOrder, NoTagLost
  <2>3. \A j \in Held(c) : j # d => TagAge(c, tx_skb[d].tag) < TagAge(c, tx_skb[j].tag)
    BY <1>1, <1>4, <1>5, <1>7 DEF TagOrder, TagsInOrder
  <2>4. i = d
    BY <1>8, <2>2, <2>3
  <2> QED
    BY <1>8, <2>1, <2>2, <2>3, <2>4
<1>10. NextTagRight(c)'
  BY <1>2, <1>4, <1>5 DEF TagOrder, NextTagRight, TagAge
<1>11. TagsInOrder(c)'
  <2>1. ASSUME NEW i \in Held(c) \ {d}
        PROVE  /\ tx_skb'[i].tag \in MinTag(c) .. MaxTag(c)
               /\ TagAge(c, tx_skb'[i].tag) < TagsOut(c)
    BY <1>3, <1>5, <1>8
  <2>2. ASSUME NEW i \in Held(c) \ {d}, NEW j \in Held(c) \ {d},
               Offset(SlotAfter(d), i) < Offset(SlotAfter(d), j)
        PROVE  TagAge(c, tx_skb'[i].tag) < TagAge(c, tx_skb'[j].tag)
    <3>1. Place(i) < Place(j)
      BY <1>5, <1>7, <2>2
    <3>2. tx_skb'[i] = tx_skb[i] /\ tx_skb'[j] = tx_skb[j]
      BY <1>3, <1>5
    <3> QED
      BY <1>4, <3>1, <3>2 DEF TagOrder, TagsInOrder
  <2> QED
    BY <1>2, <1>5, <1>6, <2>1, <2>2 DEF TagsInOrder, Place
<1>12. NoTagLost(c)'
  <2> SUFFICES ASSUME NEW k \in Nat, k < TagsOut(c)
               PROVE  \/ d \in Held(c) /\ k = 0
                      \/ \E i \in Held(c) \ {d} : TagAge(c, tx_skb'[i].tag) = k
    BY <1>5, <1>6 DEF NoTagLost
  <2>1. PICK i \in Held(c) : TagAge(c, tx_skb[i].tag) = k
    BY <1>4 DEF TagOrder, NoTagLost
  <2> QED
    BY <1>3, <1>5, <1>9, <2>1
<1>13. PutsOldest(c)'
  <2> SUFFICES ASSUME d \in Held(c)
               PROVE  /\ tx_skb[d].tag \in MinTag(c) .. MaxTag(c) /\ TagAge(c, tx_skb[d].tag) = 0
                      /\ TagsOut(c) > 0
                      /\ \A i \in Held(c) \ {d} : TagAge(c, tx_skb'[i].tag) > 0
    BY <1>2, <1>5, <1>6 DEF PutsOldest
  <2> QED
    BY <1>3, <1>5, <1>8, <1>9
<1> QED
  BY <1>10, <1>11, <1>12, <1>13 DEF TagOrder

\* Tags of different classes are different.
LEMMA ClassesDisjoint ==
    ASSUME NEW c \in FrameClass, NEW b \in FrameClass, NEW t \in MinTag(c) .. MaxTag(c),
           t \in MinTag(b) .. MaxTag(b)
    PROVE  b = c
BY TxConstants DEF FrameClass, MinTag, MaxTag

\* A report that put_frame_tag accepts names the class and the tag of the
\* frame, whatever else is wrong with it.
LEMMA AcceptedReport ==
    ASSUME NEW skb \in Skb, NEW wu \in StatusWu, Reports(wu, skb),
           skb.tag \in MinTag(skb.class) .. MaxTag(skb.class),
           wu.tag \in MinTag(wu.class) .. MaxTag(wu.class)
    PROVE  wu.class = skb.class
<1>1. PICK v \in Report(skb) : SameStatus(wu, v)
  BY DEF Reports
<1> DEFINE truth == [type |-> WU_TYPE_TX_STAT, err |-> FALSE, class |-> skb.class,
                     tag |-> skb.tag, stamped |-> FALSE]
<1>2. \/ v = truth \/ v = [truth EXCEPT !.err = TRUE]
      \/ v = [truth EXCEPT !.type = 1]
      \/ \E cl \in FrameClass : v = [truth EXCEPT !.class = cl]
      \/ \E t \in 0 .. MAX_PTP_TAG : v = [truth EXCEPT !.tag = t]
  BY DEF Report
<1>3. v.class = skb.class \/ v.tag = skb.tag
  BY <1>2
<1>4. wu.class = v.class /\ wu.tag = v.tag /\ wu.class \in FrameClass /\ skb.class \in FrameClass
  BY <1>1 DEF SameStatus, StatusWu, Skb
<1> QED
  BY <1>3, <1>4, ClassesDisjoint

\* put_frame_tag takes the oldest tag of the class back.
LEMMA TagPut ==
    ASSUME FlowBase, TagInv, ReportsMatch, PollPut, ~tx_reset', NEW c \in FrameClass
    PROVE  TagOrder(c)'
<1> DEFINE b == plWu.class
           x == plWu.tag
<1>1. /\ TypeOK /\ plWu \in StatusWu /\ plSkb \in Skb /\ b \in FrameClass /\ plSkb.class \in FrameClass
  BY PlaceFacts DEF TypeOK, PollType, StatusWu, Skb
<1>2. /\ plPc = "put" /\ plPc' = "wakecheck"
      /\ x \in MinTag(b) .. MaxTag(b) /\ x = FirstTag(b)
      /\ available' = [available EXCEPT ![b] = available[b] + 1]
      /\ last_tag' = [last_tag EXCEPT ![b] = x]
      /\ UNCHANGED <<tx_skb, next_tag>> /\ FirstInFlight' = FirstInFlight
  BY DEF PollPut, reset_tx, FirstTag, FirstInFlight, Completing, ringVars
<1>3. TagOrder(plSkb.class) /\ Putting(plSkb.class) /\ TagOrder(c) /\ Reports(plWu, plSkb)
  BY <1>1, <1>2 DEF FlowBase, TagInv, Putting, ReportsMatch
<1>4. b = plSkb.class
  BY <1>1, <1>2, <1>3, AcceptedReport DEF TagOrder, PutsOldest
<1>5. ~Putting(c)' /\ Held(c)' = Held(c) /\ \A i : Place(i)' = Place(i)
  BY <1>2 DEF Putting, Held, Place
<1>6. CASE c # b
  <2>1. available'[c] = available[c] /\ last_tag'[c] = last_tag[c]
    BY <1>1, <1>2, <1>6 DEF TypeOK, TagType
  <2>2. FirstTag(c)' = FirstTag(c) /\ TagsOut(c)' = TagsOut(c) /\ ~Putting(c)
    BY <1>4, <1>6, <2>1 DEF FirstTag, TagsOut, Putting
  <2> QED
    BY <1>2, <1>3, <1>5, <2>1, <2>2
       DEF TagOrder, NextTagRight, TagsInOrder, NoTagLost, PutsOldest, TagAge
<1>7. CASE c = b
  <2> DEFINE age(y) == TagAge(c, y)
             new(y) == TagDistance(c, TagAfter(c, x), y)
  <2>1. available[c] \in Nat /\ TagCount(c) \in Nat /\ FirstTag(c) \in MinTag(c) .. MaxTag(c)
        /\ TagsOut(c) \in Int /\ next_tag[c] \in MinTag(c) .. MaxTag(c)
    BY <1>1, TagRegisters
  <2>2. TagsOut(c) > 0 /\ \A i \in Held(c) : age(tx_skb[i].tag) > 0
    BY <1>3, <1>4, <1>7 DEF TagOrder, PutsOldest
  <2>3. available'[c] = available[c] + 1 /\ last_tag'[c] = x
    BY <1>1, <1>2, <1>7 DEF TypeOK, TagType
  <2>4. TagsOut(c)' = TagsOut(c) - 1 /\ FirstTag(c)' = TagAfter(c, x)
    BY <2>1, <2>3 DEF TagsOut, FirstTag
  <2>5. \A y : TagAge(c, y)' = new(y)
    BY <2>4 DEF TagAge
  <2>6. \A y \in MinTag(c) .. MaxTag(c) :
          /\ age(y) \in 0 .. TagCount(c) - 1 /\ (age(y) = 0 <=> y = x)
          /\ new(y) = IF y = x THEN TagCount(c) - 1 ELSE age(y) - 1
    BY <1>2, <1>7, <2>1, TagDistanceFacts DEF TagAge
  <2>7. \A i \in Held(c) : /\ tx_skb[i].tag \in MinTag(c) .. MaxTag(c)
                           /\ age(tx_skb[i].tag) \in Nat
                           /\ age(tx_skb[i].tag) < TagsOut(c)
                           /\ new(tx_skb[i].tag) = age(tx_skb[i].tag) - 1
    BY <1>3, <2>2, <2>6 DEF TagOrder, TagsInOrder
  <2>8. available[c] <= TagCount(c) /\ TagsOut(c) = TagCount(c) - available[c]
        /\ age(next_tag[c]) = IF available[c] = 0 THEN 0 ELSE TagsOut(c)
    BY <1>3 DEF TagOrder, NextTagRight, TagsOut
  <2> HIDE DEF age, new
  <2>9. NextTagRight(c)'
    <3>1. TagAge(c, next_tag[c])' = new(next_tag[c])
      BY <1>2, <2>4 DEF TagAge, new
    <3>2. new(next_tag[c]) = TagsOut(c) - 1
      <4>1. CASE available[c] = 0
        BY <2>1, <2>6, <2>8, <4>1
      <4>2. CASE available[c] # 0
        BY <2>1, <2>2, <2>6, <2>8, <4>2
      <4> QED
        BY <4>1, <4>2
    <3>3. available[c] + 1 # 0 /\ available[c] + 1 <= TagCount(c)
      BY <2>1, <2>2, <2>8
    <3> QED
      BY <2>3, <2>4, <3>1, <3>2, <3>3 DEF NextTagRight
  <2>10. TagsInOrder(c)'
    <3>1. \A i \in Held(c) : new(tx_skb[i].tag) < TagsOut(c) - 1
      BY <2>1, <2>7
    <3>2. ASSUME NEW i \in Held(c), NEW j \in Held(c), Place(i) < Place(j)
          PROVE  new(tx_skb[i].tag) < new(tx_skb[j].tag)
      <4>1. age(tx_skb[i].tag) < age(tx_skb[j].tag)
        BY <1>3, <3>2 DEF TagOrder, TagsInOrder, age
      <4> QED
        BY <2>7, <4>1
    <3> QED
      BY <1>2, <1>5, <2>4, <2>5, <2>7, <3>1, <3>2 DEF TagsInOrder
  <2>11. NoTagLost(c)'
    <3> SUFFICES ASSUME NEW k \in Nat, k < TagsOut(c) - 1
                 PROVE  \E i \in Held(c) : new(tx_skb[i].tag) = k
      BY <1>2, <1>5, <2>4, <2>5 DEF NoTagLost
    <3>1. k + 1 \in Nat /\ k + 1 < TagsOut(c) /\ k + 1 # 0
      BY <2>1
    <3>2. PICK i \in Held(c) : age(tx_skb[i].tag) = k + 1
      BY <1>3, <3>1 DEF TagOrder, NoTagLost, age
    <3> QED
      BY <2>7, <3>2
  <2>12. PutsOldest(c)'
    BY <1>5 DEF PutsOldest
  <2> QED
    BY <2>9, <2>10, <2>11, <2>12 DEF TagOrder
<1> QED
  BY <1>6, <1>7

\* Every step keeps the tags in order.
LEMMA TagStep == FullInv /\ ReportsMatch /\ TagInv /\ [Next]_vars => TagInv'
<1> SUFFICES ASSUME FullInv, ReportsMatch, TagInv, [Next]_vars, ~tx_reset'
             PROVE  /\ \A c \in FrameClass : TagOrder(c)'
                    /\ sndPc' = "commit" => sndTag' = next_tag'[sndClass']
  BY DEF TagInv
<1> USE DEF drvVars, ringVars, tagVars, chainVars, sndVars, plVars, stVars, hwVars
<1>1. FlowBase
  BY ResetStays DEF FullInv, FlowBase
<1>2. /\ \A c \in FrameClass : TagOrder(c)
      /\ sndPc = "commit" => sndTag = next_tag[sndClass]
  BY <1>1 DEF FlowBase, TagInv
<1> DEFINE tagsKept == /\ UNCHANGED <<tx_skb, next_tag, last_tag, available>>
                       /\ FirstInFlight' = FirstInFlight
                       /\ \/ UNCHANGED <<plPc, plSkb>>
                          \/ plPc # "put" /\ plPc' # "put"
           sendKept == \/ sndPc' # "commit" \/ UNCHANGED sndVars
                       \/ sndTag' = next_tag[sndClass] /\ sndClass' = sndClass
<1> USE DEF FirstInFlight, Completing
<1>3. ASSUME NEW c \in Classes, SendPacket(c) PROVE tagsKept /\ sendKept
  BY <1>3 DEF SendPacket
<1>4. ASSUME SendCheck \/ SendStopQueue PROVE tagsKept /\ sendKept
  BY <1>4 DEF SendCheck, SendStopQueue, SendReturn
<1>5. ASSUME SendMap PROVE tagsKept /\ sendKept
  BY <1>5 DEF SendMap, SendReturn
<1>6. ASSUME SendStat \/ SendChain PROVE tagsKept /\ sendKept
  BY <1>6 DEF SendStat, SendChain, SendReturn
<1>7. ASSUME StatusIrq \/ PollRead \/ PollWakeCheck \/ PollWake PROVE tagsKept /\ sendKept
  BY <1>7 DEF StatusIrq, PollRead, PollWakeCheck, PollWake
<1>8. ASSUME PollCheck, plPc' # "put" PROVE tagsKept /\ sendKept
  BY <1>8 DEF PollCheck, reset_tx
<1>9. ASSUME PollFinish PROVE tagsKept /\ sendKept
  BY <1>9 DEF PollFinish, reset_tx
<1>10. ASSUME RecycleStop \/ RecycleLink PROVE tagsKept /\ sendKept
  BY <1>10 DEF RecycleStop, ResetDescAndWu, RecycleLink
<1>11. ASSUME RecycleAck PROVE tagsKept /\ sendKept
  BY <1>11 DEF RecycleAck
<1>12. ASSUME PollRestart \/ PollHalt PROVE tagsKept /\ sendKept
  BY <1>12 DEF PollRestart, PollHalt, PollReturn
<1>13. ASSUME TxDmaStep \/ StDmaStep \/ UNCHANGED vars PROVE tagsKept /\ sendKept
  BY <1>13 DEF TxDmaStep, TxDmaFetch, TxDmaXfer, StDmaStep, StFetch, StFirstBeat, StDone, vars
<1>14. CASE tagsKept /\ sendKept
  <2>1. ASSUME NEW c \in FrameClass PROVE TagOrder(c)'
    <3>1. Putting(c)' = Putting(c) /\ (Putting(c) => plSkb' = plSkb)
      BY <1>14 DEF Putting
    <3> QED
      BY <1>2, <1>14, <3>1, TagSame
  <2> QED
    BY <1>2, <1>14, <2>1
<1>15. CASE SendCommit
  <2>1. sndPc' = "stat"
    BY <1>15 DEF SendCommit
  <2> QED
    BY <1>1, <1>15, <2>1, TagCommit
<1>16. CASE PollCheck /\ plPc' = "put"
  <2>1. UNCHANGED <<sndVars, next_tag>>
    BY <1>16 DEF PollCheck
  <2> QED
    BY <1>1, <1>2, <1>16, <2>1, TagTake
<1>17. CASE PollPut
  <2>1. UNCHANGED <<sndVars, next_tag>>
    BY <1>17 DEF PollPut
  <2> QED
    BY <1>1, <1>2, <1>17, <2>1, TagPut
<1> HIDE DEF tagsKept, sendKept
<1> QED
  BY <1>3, <1>4, <1>5, <1>6, <1>7, <1>8, <1>9, <1>10, <1>11, <1>12, <1>13, <1>14, <1>15,
     <1>16, <1>17 DEF Next, SendStep, PollStep

\* The invariant with statuses and tags.
DataInv == FullInv /\ ReportsMatch /\ TagInv

\* It holds after adi_msp_open.
LEMMA DataInit == Init => DataInv
<1> SUFFICES ASSUME Init PROVE DataInv
  OBVIOUS
<1>1. FullInv
  BY TxInitInv, RingInit, StInitInv, FlowInit DEF FullInv
<1>2. ReportsMatch
  BY Zenon DEF Init, ReportsMatch, ReportedSlots, Written, ZeroWu
<1> QED
  BY <1>1, <1>2, TagInit DEF DataInv

\* Every step keeps it.
LEMMA DataStep == DataInv /\ [Next]_vars => DataInv'
<1>1. TxInv => TypeOK
  BY DEF TxInv
<1>2. FullInv /\ [Next]_vars => FullInv'
  BY <1>1, TxStepInv, TxRingStep, StStepInv, FlowStep DEF FullInv
<1> QED
  BY <1>2, ReportsStep, TagStep DEF DataInv

\* No tag of either class is lost or in use twice, for all tag ranges and
\* ring sizes and whatever the interface reports, until a status makes the
\* driver give up: get_frame_tag and put_frame_tag may run concurrently, each
\* with its own counters.
THEOREM TxTagsConserved == Spec => []TagsConserved
<1>1. DataInv => TagsConserved
  <2> SUFFICES ASSUME DataInv, ~tx_reset, NEW c \in FrameClass
               PROVE  LET tags == {tx_skb[i].tag : i \in Held(c)}
                                  \cup (IF plPc = "put" /\ plSkb.class = c THEN {plSkb.tag} ELSE {})
                      IN  /\ Cardinality(tags) + available[c] = TagCount(c)
                          /\ tags \subseteq MinTag(c) .. MaxTag(c)
    BY DEF TagsConserved, Held
  <2> DEFINE tags == {tx_skb[i].tag : i \in Held(c)}
                     \cup (IF plPc = "put" /\ plSkb.class = c THEN {plSkb.tag} ELSE {})
             ages == 0 .. TagsOut(c) - 1
             f == [t \in tags |-> TagAge(c, t)]
  <2>1. TypeOK /\ TagOrder(c)
    BY DEF DataInv, FullInv, TxInv, TagInv
  <2>2. available[c] \in Nat /\ TagCount(c) \in Nat /\ available[c] <= TagCount(c)
        /\ TagsOut(c) = TagCount(c) - available[c] /\ FirstTag(c) \in MinTag(c) .. MaxTag(c)
    BY <2>1, TagRegisters DEF TagOrder, NextTagRight, TagsOut
  <2>3. \A t \in tags : t \in MinTag(c) .. MaxTag(c) /\ TagAge(c, t) < TagsOut(c)
    BY <2>1, <2>2 DEF TagOrder, TagsInOrder, PutsOldest, Putting
  <2>4. \A t \in tags : TagAge(c, t) \in ages
    BY <2>2, <2>3, TagDistanceFacts DEF TagAge
  <2>5. f \in [tags -> ages]
    BY <2>4
  <2>6. \A t, u \in tags : f[t] = f[u] => t = u
    BY <2>2, <2>3, TagDistanceFacts DEF TagAge
  <2>7. \A k \in ages : \E t \in tags : f[t] = k
    <3> SUFFICES ASSUME NEW k \in ages PROVE \E t \in tags : TagAge(c, t) = k
      OBVIOUS
    <3>1. k \in Nat /\ k < TagsOut(c)
      BY <2>2
    <3>2. CASE Putting(c) /\ k = 0
      BY <2>1, <3>2 DEF TagOrder, PutsOldest, Putting
    <3>3. CASE \E i \in Held(c) : TagAge(c, tx_skb[i].tag) = k
      BY <3>3
    <3> QED
      BY <2>1, <3>1, <3>2, <3>3 DEF TagOrder, NoTagLost
  <2>8. IsFiniteSet(tags)
    <3>1. IsFiniteSet(MinTag(c) .. MaxTag(c))
      BY FS_Interval, TagFacts
    <3>2. tags \subseteq MinTag(c) .. MaxTag(c)
      BY <2>3
    <3> QED
      BY <3>1, <3>2, FS_Subset
  <2>9. IsFiniteSet(ages) /\ Cardinality(ages) = TagsOut(c)
    <3>1. \A n \in Nat : IsFiniteSet(0 .. n - 1) /\ Cardinality(0 .. n - 1) = n
      BY FS_Interval
    <3>2. TagsOut(c) \in Nat
      BY <2>2
    <3> QED
      BY <3>1, <3>2
  <2>10. ExistsBijection(tags, ages)
    <3> HIDE DEF tags, ages, f
    <3> QED
      BY <2>5, <2>6, <2>7 DEF ExistsBijection, Bijection, Injection, Surjection, IsInjective
  <2>11. Cardinality(tags) = TagsOut(c)
    <3> HIDE DEF tags, ages
    <3> QED
      BY <2>8, <2>9, <2>10, FS_Bijection
  <2> QED
    BY <2>2, <2>3, <2>11
<1> QED
  BY <1>1, DataInit, DataStep, PTL DEF Spec

\* Without faults a report is the truth but for its error bit.
LEMMA TrueReport ==
    ASSUME Faults \subseteq {"err"}, NEW skb \in Skb, NEW wu, Reports(wu, skb)
    PROVE  wu.type = WU_TYPE_TX_STAT /\ wu.class = skb.class /\ wu.tag = skb.tag
<1>1. PICK v \in Report(skb) : SameStatus(wu, v)
  BY DEF Reports
<1> DEFINE truth == [type |-> WU_TYPE_TX_STAT, err |-> FALSE, class |-> skb.class,
                     tag |-> skb.tag, stamped |-> FALSE]
<1>2. v = truth \/ v = [truth EXCEPT !.err = TRUE]
  BY DEF Report
<1>3. v.type = WU_TYPE_TX_STAT /\ v.class = skb.class /\ v.tag = skb.tag
  BY <1>2
<1> QED
  BY <1>1, <1>3 DEF SameStatus

\* With an interface that reports what it sent, the error bit included,
\* adi_msp_status meets no status it cannot explain: reset_tx, which would
\* leave the transmit path stuck, is unreachable for every ring size, tag
\* range and budget.
THEOREM TxNeverReset ==
    ASSUME Faults \subseteq {"err"}
    PROVE  Spec => []NoTxReset
<1>1. Init => NoTxReset
  BY DEF Init, NoTxReset
<1>2. DataInv /\ NoTxReset /\ [Next]_vars => NoTxReset'
  <2> SUFFICES ASSUME DataInv, ~tx_reset, [Next]_vars PROVE ~tx_reset'
    BY DEF NoTxReset
  <2> USE DEF drvVars
  <2>1. FlowBase
    BY DEF DataInv, FullInv, FlowBase
  <2>2. PICK r \in Nat, q \in Nat, e \in Nat : Flow(r, q, e)
    BY DEF DataInv, FullInv, FlowInv
  <2>3. /\ \A i \in ReportedSlots : Reports(status_wu[i], tx_skb[i])
        /\ plPc = "check" => SameStatus(plWu, status_wu[tx_next_done])
        /\ plPc \in {"put", "wakecheck", "wake", "finish"} => Reports(plWu, plSkb)
    BY DEF DataInv, ReportsMatch
  <2>4. /\ plSkb \in Skb /\ tx_skb \in [Slots -> Skb] /\ tx_next_done \in Slots /\ TypeOK
    BY <2>1, PlaceFacts DEF TypeOK, PollType, RingType, ChainType
  <2>5. CASE PollCheck
    <3>1. plPc = "check"
      BY <2>5 DEF PollCheck
    <3>2. tx_next_done \in ReportedSlots
      BY <2>1, <3>1, CheckedReported
    <3>3. tx_skb[tx_next_done] # NoSkb
      BY <2>1, <2>2, <2>4, <3>2, PlaceFacts DEF Flow, FlowStatus, FlowBounds
    <3>4. status_wu[tx_next_done].type = WU_TYPE_TX_STAT
      BY <2>3, <2>4, <3>2, TrueReport
    <3>5. plWu.type = WU_TYPE_TX_STAT
      BY <2>3, <3>1, <3>4 DEF SameStatus
    <3> QED
      BY <2>5, <3>3, <3>5 DEF PollCheck
  <2>6. CASE PollPut
    <3> DEFINE c == plSkb.class
    <3>1. plPc = "put" /\ c \in FrameClass /\ Putting(c)
      BY <2>4, <2>6 DEF PollPut, Putting, Skb
    <3>2. plWu.class = c /\ plWu.tag = plSkb.tag
      BY <2>3, <2>4, <3>1, TrueReport
    <3>3. plSkb.tag \in MinTag(c) .. MaxTag(c) /\ TagAge(c, plSkb.tag) = 0
      BY <3>1 DEF DataInv, TagInv, TagOrder, PutsOldest
    <3>4. plSkb.tag = FirstTag(c)
      BY <2>4, <3>1, <3>3, TagRegisters, TagDistanceFacts DEF TagAge
    <3> QED
      BY <2>6, <3>2, <3>3, <3>4 DEF PollPut, FirstTag
  <2>7. CASE PollFinish
    <3>1. plWu.tag = plSkb.tag
      BY <2>3, <2>4, <2>7, TrueReport DEF PollFinish
    <3> QED
      BY <2>7, <3>1 DEF PollFinish
  <2>8. ASSUME NEW c \in Classes, SendPacket(c) PROVE ~tx_reset'
    BY <2>8 DEF SendPacket
  <2>9. CASE SendStep
    BY <2>9 DEF SendStep, SendCheck, SendStopQueue, SendMap, SendCommit, SendStat, SendChain
  <2>10. CASE StatusIrq \/ TxDmaStep \/ StDmaStep
    BY <2>10 DEF StatusIrq, TxDmaStep, TxDmaFetch, TxDmaXfer, StDmaStep, StFetch, StFirstBeat,
                 StDone
  <2>11. CASE PollRead \/ PollWakeCheck \/ PollWake \/ RecycleStop \/ RecycleLink \/ RecycleAck
              \/ PollRestart \/ PollHalt
    BY <2>11 DEF PollRead, PollWakeCheck, PollWake, RecycleStop, RecycleLink, RecycleAck,
                 PollRestart, PollHalt
  <2>12. CASE UNCHANGED vars
    BY <2>12 DEF vars
  <2> QED
    BY <2>5, <2>6, <2>7, <2>8, <2>9, <2>10, <2>11, <2>12 DEF Next, PollStep
<1> QED
  BY <1>1, <1>2, DataInit, DataStep, PTL DEF Spec

-----------------------------------------------------------------------------
(***************************************************************************)
(* The transmit path implements TxFifo.  Whatever split of the frames in   *)
(* flight the Flow invariant finds, the frames before the Tx DMA's place   *)
(* have been handed to the interface and the others are waiting.           *)
(***************************************************************************)

\* The k-th frame in flight, counted from 1.
FrameAt(k) == tx_skb[SlotAt(FirstInFlight, k - 1)]

\* The refinement mapping in terms of the flow.
FifoView ==
    ~tx_reset => \A r, q, e \in Nat : Flow(r, q, e) =>
      /\ SentFrames \in Seq(Skb) /\ Len(SentFrames) = q
      /\ \A k \in 1 .. q : SentFrames[k] = FrameAt(k)
      /\ WaitingFrames \in Seq(Skb) /\ Len(WaitingFrames) = tx_count - q
      /\ \A k \in 1 .. tx_count - q : WaitingFrames[k] = FrameAt(q + k)

\* A sequence is another one with an element added when their elements are.
LEMMA AppendEqual ==
    ASSUME NEW S, NEW s \in Seq(S), NEW u \in Seq(S), NEW x \in S, Len(u) = Len(s) + 1,
           \A k \in 1 .. Len(s) : u[k] = s[k], u[Len(s) + 1] = x
    PROVE  u = Append(s, x)
OBVIOUS

\* The first r elements of a sequence.
LEMMA PrefixElements ==
    ASSUME NEW S, NEW s \in Seq(S), NEW r \in 0 .. Len(s)
    PROVE  /\ SubSeq(s, 1, r) \in Seq(S) /\ Len(SubSeq(s, 1, r)) = r
           /\ \A k \in 1 .. r : SubSeq(s, 1, r)[k] = s[k]
OBVIOUS

\* Sequences are equal when their elements are.
LEMMA SameElements ==
    ASSUME NEW S, NEW s \in Seq(S), NEW u \in Seq(S), Len(u) = Len(s),
           \A k \in 1 .. Len(s) : u[k] = s[k]
    PROVE  u = s
OBVIOUS

\* ... when one lacks the first element of the other.
LEMMA TailEqual ==
    ASSUME NEW S, NEW s \in Seq(S), NEW u \in Seq(S), s # << >>, Len(u) = Len(s) - 1,
           \A k \in 1 .. Len(u) : u[k] = s[k + 1]
    PROVE  u = Tail(s)
OBVIOUS

\* The slot of a place.
LEMMA SlotOfPlace ==
    ASSUME FlowBase, NEW k \in 0 .. NUM_TDS - 1
    PROVE  SlotAt(FirstInFlight, k) \in Slots /\ Place(SlotAt(FirstInFlight, k)) = k
<1>1. FirstInFlight \in Slots /\ NUM_TDS \in Nat
  BY PlaceFacts
<1> QED
  BY <1>1 DEF SlotAt, Place, Offset, Slots

\* The mapping gives the frames before and from place q on.
LEMMA ViewHolds == FullInv => FifoView
<1> SUFFICES ASSUME FullInv, ~tx_reset, NEW r \in Nat, NEW q \in Nat, NEW e \in Nat,
                    Flow(r, q, e)
             PROVE  /\ SentFrames \in Seq(Skb) /\ Len(SentFrames) = q
                    /\ \A k \in 1 .. q : SentFrames[k] = FrameAt(k)
                    /\ WaitingFrames \in Seq(Skb) /\ Len(WaitingFrames) = tx_count - q
                    /\ \A k \in 1 .. tx_count - q : WaitingFrames[k] = FrameAt(q + k)
  BY DEF FifoView
<1>1. FlowBase
  BY DEF FullInv, FlowBase
<1>2. /\ r <= q /\ q <= e /\ e <= tx_count /\ tx_count \in 0 .. NUM_TDS /\ NUM_TDS \in Nat
      /\ Len(mspq) = q - r /\ mspq \in Seq(Skb) /\ tx_skb \in [Slots -> Skb]
  BY <1>1, PlaceFacts DEF Flow, FlowBounds, TypeOK, HwType, RingType
<1>3. \A k \in 1 .. tx_count : FrameAt(k) \in Skb
  BY <1>1, <1>2, SlotOfPlace DEF FrameAt
<1>4. /\ InFlight \in Seq(Skb) /\ Len(InFlight) = tx_count
      /\ \A k \in 1 .. tx_count : InFlight[k] = FrameAt(k)
  BY <1>2, <1>3 DEF InFlight, FrameAt
<1>5. \A k \in 1 .. q - r : mspq[k] = FrameAt(r + k)
  <2> SUFFICES ASSUME NEW k \in 1 .. q - r PROVE mspq[k] = FrameAt(r + k)
    OBVIOUS
  <2>1. /\ SlotAt(FirstInFlight, r + k - 1) \in Slots
        /\ Place(SlotAt(FirstInFlight, r + k - 1)) = r + k - 1
    BY <1>1, <1>2, SlotOfPlace
  <2> QED
    BY <2>1 DEF Flow, FlowQueue, FrameAt
<1>6. Cardinality(Reported) = r
  BY <1>1, ReportedCounted
<1> HIDE DEF InFlight, FrameAt
<1>7. SentFrames \in Seq(Skb) /\ Len(SentFrames) = q /\ \A k \in 1 .. q : SentFrames[k] = FrameAt(k)
  <2> DEFINE a == SubSeq(InFlight, 1, r)
  <2>1. a \in Seq(Skb) /\ Len(a) = r /\ \A k \in 1 .. r : a[k] = FrameAt(k)
    <3>1. r \in 0 .. Len(InFlight)
      BY <1>2, <1>4
    <3>2. a \in Seq(Skb) /\ Len(a) = r /\ \A k \in 1 .. r : a[k] = InFlight[k]
      BY <1>4, <3>1, PrefixElements
    <3> HIDE DEF a
    <3> QED
      BY <1>2, <1>4, <3>2
  <2>2. SentFrames = a \o mspq
    BY <1>6 DEF SentFrames
  <2> HIDE DEF a
  <2>3. SentFrames \in Seq(Skb) /\ Len(SentFrames) = q
    <3>1. a \o mspq \in Seq(Skb) /\ Len(a \o mspq) = Len(a) + Len(mspq)
      BY <1>2, <2>1
    <3> QED
      BY <1>2, <2>1, <2>2, <3>1
  <2>4. ASSUME NEW k \in 1 .. q PROVE SentFrames[k] = FrameAt(k)
    <3>1. CASE k <= r
      BY <1>2, <2>1, <2>2, <3>1
    <3>2. CASE k > r
      <4>1. SentFrames[k] = mspq[k - r]
        BY <1>2, <2>1, <2>2, <3>2
      <4>2. k - r \in 1 .. q - r /\ r + (k - r) = k
        BY <1>2, <3>2
      <4> QED
        BY <1>5, <4>1, <4>2
    <3> QED
      BY <3>1, <3>2
  <2> QED
    BY <2>3, <2>4
<1>8. /\ WaitingFrames \in Seq(Skb) /\ Len(WaitingFrames) = tx_count - q
      /\ \A k \in 1 .. tx_count - q : WaitingFrames[k] = FrameAt(q + k)
  BY <1>2, <1>4, <1>7 DEF WaitingFrames
<1> QED
  BY <1>7, <1>8

\* A step that moves no frame across the place of the Tx DMA and neither adds
\* nor removes one is invisible.
LEMMA FifoStutter ==
    ASSUME FifoView, FifoView', ~tx_reset, ~tx_reset',
           NEW r \in Nat, NEW q \in Nat, NEW e \in Nat, Flow(r, q, e),
           NEW s \in Nat, NEW f \in Nat, Flow(s, q, f)',
           UNCHANGED <<tx_skb, tx_count>>, FirstInFlight' = FirstInFlight
    PROVE  UNCHANGED <<SentFrames, WaitingFrames>>
<1>1. \A k : FrameAt(k)' = FrameAt(k)
  BY DEF FrameAt, SlotAt
<1>2. /\ SentFrames \in Seq(Skb) /\ Len(SentFrames) = q
      /\ \A k \in 1 .. q : SentFrames[k] = FrameAt(k)
      /\ WaitingFrames \in Seq(Skb) /\ Len(WaitingFrames) = tx_count - q
      /\ \A k \in 1 .. tx_count - q : WaitingFrames[k] = FrameAt(q + k)
  BY DEF FifoView
<1>3. /\ SentFrames' \in Seq(Skb) /\ Len(SentFrames') = q
      /\ \A k \in 1 .. q : SentFrames'[k] = FrameAt(k)'
      /\ WaitingFrames' \in Seq(Skb) /\ Len(WaitingFrames') = tx_count' - q
      /\ \A k \in 1 .. tx_count' - q : WaitingFrames'[k] = FrameAt(q + k)'
  BY DEF FifoView
<1> HIDE DEF FrameAt
<1>4. tx_count' - q = tx_count - q /\ \A k \in 1 .. tx_count - q : FrameAt(q + k)' = FrameAt(q + k)
  BY <1>1
<1>5. SentFrames' = SentFrames
  BY <1>1, <1>2, <1>3
<1>6. WaitingFrames' = WaitingFrames
  BY <1>2, <1>3, <1>4
<1> QED
  BY <1>5, <1>6

\* SendCommit accepts the frame: there is room, and its tag is in no frame in
\* flight.
LEMMA CommitAccepts ==
    ASSUME DataInv, FifoView, FifoView', ~tx_reset, ~tx_reset', SendCommit
    PROVE  \E f \in Skb \ {NoSkb} : Fifo!Accept(f)
<1> DEFINE skb == [class |-> sndClass, tag |-> sndTag]
           t == tx_chain_tail
<1>1. FlowBase
  BY DEF DataInv, FullInv, FlowBase
<1>2. PICK r \in Nat, q \in Nat, e \in Nat : Flow(r, q, e)
  BY DEF DataInv, FullInv, FlowInv
<1>3. Flow(r, q, e)'
  BY <1>1, <1>2, FlowCommit
<1>4. /\ q <= tx_count /\ tx_count \in 0 .. NUM_TDS /\ NUM_TDS \in Nat
      /\ tx_skb \in [Slots -> Skb] /\ t \in Slots /\ sndClass \in FrameClass
      /\ sndTag \in 0 .. MAX_PTP_TAG /\ TypeOK
  BY <1>1, <1>2, PlaceFacts DEF Flow, FlowBounds, TypeOK, RingType, ChainType, SendType
<1>5. /\ tx_count' = tx_count + 1 /\ tx_count < NUM_TDS /\ available[sndClass] > 0
      /\ sndTag > 0 /\ FirstInFlight' = FirstInFlight /\ NextFree = t
      /\ tx_skb' = [tx_skb EXCEPT ![t] = skb] /\ sndTag = next_tag[sndClass]
  BY DEF SendCommit, DataInv, FullInv, TxInv, TagInv, SenderHolds, FirstInFlight, Completing,
         NextFree, Chaining, plVars
<1>6. skb \in Skb /\ skb # NoSkb /\ skb.class = sndClass /\ skb.tag = sndTag
  BY <1>4, <1>5 DEF Skb, NoSkb
<1> HIDE DEF skb
<1>7. Place(t) = tx_count
  BY <1>1, <1>5, PlaceFacts
<1>8. \A k \in 1 .. tx_count : /\ SlotAt(FirstInFlight, k - 1) \in Slots
                               /\ Place(SlotAt(FirstInFlight, k - 1)) = k - 1
                               /\ FrameAt(k) # NoSkb
  BY <1>1, <1>4, SlotOfPlace, PlaceFacts DEF FrameAt
<1>9. \A k \in 1 .. tx_count : FrameAt(k)' = FrameAt(k)
  <2> SUFFICES ASSUME NEW k \in 1 .. tx_count PROVE FrameAt(k)' = FrameAt(k)
    OBVIOUS
  <2>1. SlotAt(FirstInFlight, k - 1) # t
    BY <1>4, <1>7, <1>8
  <2>2. SlotAt(FirstInFlight, k - 1)' = SlotAt(FirstInFlight, k - 1)
    BY <1>5 DEF SlotAt
  <2> QED
    BY <1>4, <1>5, <1>8, <2>1, <2>2 DEF FrameAt
<1>10. ASSUME NEW k \in Nat, k = tx_count + 1 PROVE FrameAt(k)' = skb
  <2>1. /\ SlotAt(FirstInFlight, tx_count) \in Slots
        /\ Place(SlotAt(FirstInFlight, tx_count)) = tx_count
    BY <1>1, <1>4, <1>5, SlotOfPlace
  <2>2. SlotAt(FirstInFlight, tx_count) = t
    BY <1>1, <1>4, <1>7, <2>1, PlaceFacts
  <2>3. k - 1 = tx_count
    BY <1>4, <1>10
  <2>4. SlotAt(FirstInFlight, k - 1)' = t
    BY <1>5, <2>2, <2>3 DEF SlotAt
  <2> QED
    BY <1>4, <1>5, <2>4 DEF FrameAt
<1>11. \A k \in 1 .. tx_count : FrameAt(k) # skb
  <2> SUFFICES ASSUME NEW k \in 1 .. tx_count, FrameAt(k) = skb PROVE FALSE
    OBVIOUS
  <2> DEFINE i == SlotAt(FirstInFlight, k - 1)
             c == sndClass
  <2>1. i \in Slots /\ tx_skb[i] = skb
    BY <1>8 DEF FrameAt
  <2>2. i \in Held(c)
    BY <1>6, <2>1 DEF Held
  <2>3. TagOrder(c)
    BY <1>4 DEF DataInv, TagInv
  <2>4. TagAge(c, sndTag) < TagsOut(c)
    BY <1>6, <2>1, <2>2, <2>3 DEF TagOrder, TagsInOrder
  <2>5. TagAge(c, sndTag) = TagsOut(c) /\ TagsOut(c) \in Int
    BY <1>4, <1>5, <2>3, TagRegisters DEF TagOrder, NextTagRight
  <2> QED
    BY <2>4, <2>5
<1> HIDE DEF FrameAt
<1>12. /\ SentFrames \in Seq(Skb) /\ Len(SentFrames) = q
       /\ \A k \in 1 .. q : SentFrames[k] = FrameAt(k)
       /\ WaitingFrames \in Seq(Skb) /\ Len(WaitingFrames) = tx_count - q
       /\ \A k \in 1 .. tx_count - q : WaitingFrames[k] = FrameAt(q + k)
  BY <1>2 DEF FifoView
<1>13. /\ SentFrames' \in Seq(Skb) /\ Len(SentFrames') = q
       /\ \A k \in 1 .. q : SentFrames'[k] = FrameAt(k)'
       /\ WaitingFrames' \in Seq(Skb) /\ Len(WaitingFrames') = tx_count' - q
       /\ \A k \in 1 .. tx_count' - q : WaitingFrames'[k] = FrameAt(q + k)'
  BY <1>3 DEF FifoView
<1>14. Len(WaitingFrames) + Len(SentFrames) < NUM_TDS
  BY <1>4, <1>5, <1>12
<1>15. skb \notin Fifo!InFlightFrames
  <2>1. DOMAIN SentFrames = 1 .. q /\ DOMAIN WaitingFrames = 1 .. tx_count - q
    BY <1>12
  <2>2. \A k \in 1 .. q : SentFrames[k] # skb
    <3>1. \A k \in 1 .. q : k \in 1 .. tx_count
      BY <1>4
    <3> QED
      BY <1>11, <1>12, <3>1
  <2>3. \A k \in 1 .. tx_count - q : WaitingFrames[k] # skb
    <3>1. \A k \in 1 .. tx_count - q : q + k \in 1 .. tx_count
      BY <1>4
    <3> QED
      BY <1>11, <1>12, <3>1
  <2> QED
    BY <2>1, <2>2, <2>3, Zenon DEF Fifo!InFlightFrames
<1>16. UNCHANGED SentFrames
  BY <1>4, <1>9, <1>12, <1>13
<1>17. WaitingFrames' = Append(WaitingFrames, skb)
  <2>1. \A k \in 1 .. tx_count - q : FrameAt(q + k)' = FrameAt(q + k)
    BY <1>4, <1>9
  <2>2. ASSUME NEW k \in Nat, k = tx_count - q + 1 PROVE WaitingFrames'[k] = skb
    <3>1. q + k \in Nat /\ q + k = tx_count + 1 /\ k \in 1 .. tx_count' - q
      BY <1>4, <1>5, <2>2
    <3> QED
      BY <1>10, <1>13, <3>1
  <2>3. Len(WaitingFrames') = Len(WaitingFrames) + 1 /\ Len(WaitingFrames) \in Nat
    BY <1>4, <1>5, <1>12, <1>13
  <2>4. \A k \in 1 .. Len(WaitingFrames) : WaitingFrames'[k] = WaitingFrames[k]
    BY <1>4, <1>5, <1>12, <1>13, <2>1
  <2>5. WaitingFrames'[Len(WaitingFrames) + 1] = skb
    BY <1>12, <2>2, <2>3
  <2> QED
    BY <1>6, <1>12, <1>13, <2>3, <2>4, <2>5, AppendEqual
<1> QED
  BY <1>6, <1>14, <1>15, <1>16, <1>17 DEF Fifo!Accept

\* TxDmaXfer hands over the frame the Tx DMA is at, the first one waiting.
LEMMA XferTransmits ==
    ASSUME DataInv, FifoView, FifoView', ~tx_reset, ~tx_reset', TxDmaXfer
    PROVE  Fifo!Transmit
<1>1. FlowBase
  BY DEF DataInv, FullInv, FlowBase
<1>2. PICK r \in Nat, q \in Nat, e \in Nat : Flow(r, q, e)
  BY DEF DataInv, FullInv, FlowInv
<1>3. Flow(r, q + 1, e)'
  BY <1>1, <1>2, FlowXfer
<1>4. /\ q < tx_count /\ tx_count \in 0 .. NUM_TDS /\ NUM_TDS \in Nat
      /\ tx_count' = tx_count
  BY <1>1, <1>2, PlaceFacts DEF Flow, FlowBounds, FlowDma, TxDmaXfer, Halt, drvVars
<1>5. \A k : FrameAt(k)' = FrameAt(k)
  BY DEF TxDmaXfer, drvVars, ringVars, plVars, FrameAt, SlotAt, FirstInFlight, Completing
<1> HIDE DEF FrameAt
<1>6. /\ SentFrames \in Seq(Skb) /\ Len(SentFrames) = q
      /\ \A k \in 1 .. q : SentFrames[k] = FrameAt(k)
      /\ WaitingFrames \in Seq(Skb) /\ Len(WaitingFrames) = tx_count - q
      /\ \A k \in 1 .. tx_count - q : WaitingFrames[k] = FrameAt(q + k)
  BY <1>2 DEF FifoView
<1>7. /\ SentFrames' \in Seq(Skb) /\ Len(SentFrames') = q + 1
      /\ \A k \in 1 .. q + 1 : SentFrames'[k] = FrameAt(k)
      /\ WaitingFrames' \in Seq(Skb) /\ Len(WaitingFrames') = tx_count - (q + 1)
      /\ \A k \in 1 .. tx_count - (q + 1) : WaitingFrames'[k] = FrameAt(q + 1 + k)
  <2>1. q + 1 \in Nat
    OBVIOUS
  <2> QED
    BY <1>3, <1>4, <1>5, <2>1 DEF FifoView
<1>8. WaitingFrames # << >> /\ Head(WaitingFrames) = FrameAt(q + 1) /\ Head(WaitingFrames) \in Skb
  BY <1>4, <1>6
<1>9. SentFrames' = Append(SentFrames, Head(WaitingFrames))
  <2>1. \A k \in 1 .. Len(SentFrames) : SentFrames'[k] = SentFrames[k]
    BY <1>6, <1>7
  <2>2. Len(SentFrames') = Len(SentFrames) + 1 /\ SentFrames'[Len(SentFrames) + 1] = FrameAt(q + 1)
    BY <1>6, <1>7
  <2> QED
    BY <1>6, <1>7, <1>8, <2>1, <2>2, AppendEqual
<1>10. WaitingFrames' = Tail(WaitingFrames)
  <2>1. Len(WaitingFrames') = Len(WaitingFrames) - 1
    BY <1>4, <1>6, <1>7
  <2>2. ASSUME NEW k \in 1 .. Len(WaitingFrames') PROVE WaitingFrames'[k] = WaitingFrames[k + 1]
    <3>1. k + 1 \in 1 .. tx_count - q /\ k \in 1 .. tx_count - (q + 1) /\ q + (k + 1) = q + 1 + k
      BY <1>4, <1>7
    <3> QED
      BY <1>6, <1>7, <3>1
  <2> QED
    BY <1>6, <1>7, <1>8, <2>1, <2>2, TailEqual
<1> QED
  BY <1>8, <1>9, <1>10 DEF Fifo!Transmit

\* PollCheck takes the oldest frame sent.
LEMMA TakeCompletes ==
    ASSUME DataInv, FifoView, FifoView', ~tx_reset, ~tx_reset', PollCheck, plPc' = "put"
    PROVE  Fifo!Complete
<1> DEFINE d == tx_next_done
<1>1. FlowBase
  BY DEF DataInv, FullInv, FlowBase
<1>2. PICK r \in Nat, q \in Nat, e \in Nat : Flow(r, q, e)
  BY DEF DataInv, FullInv, FlowInv
<1>3. r > 0 /\ Flow(r - 1, q - 1, e - 1)'
  BY <1>1, <1>2, FlowTake
<1>4. /\ r <= q /\ q <= e /\ e <= tx_count /\ tx_count \in 0 .. NUM_TDS /\ NUM_TDS \in Nat
      /\ tx_skb \in [Slots -> Skb] /\ d \in Slots
  BY <1>1, <1>2, PlaceFacts DEF Flow, FlowBounds, TypeOK, RingType, ChainType
<1>5. /\ FirstInFlight = d /\ FirstInFlight' = SlotAfter(d)
      /\ tx_count' = tx_count - 1 /\ tx_skb' = [tx_skb EXCEPT ![d] = NoSkb]
  BY DEF PollCheck, FirstInFlight, Completing, reset_tx, PollReturn
<1>6. ASSUME NEW k \in 1 .. tx_count - 1 PROVE FrameAt(k)' = FrameAt(k + 1)
  <2>1. SlotAt(SlotAfter(d), k - 1) = SlotAt(d, k) /\ SlotAt(d, k) \in Slots /\ SlotAt(d, k) # d
        /\ k + 1 - 1 = k
    BY <1>4 DEF SlotAt, SlotAfter, Slots
  <2> HIDE DEF d
  <2>2. FrameAt(k)' = tx_skb'[SlotAt(SlotAfter(d), k - 1)]
    BY <1>5 DEF FrameAt, SlotAt
  <2>3. FrameAt(k + 1) = tx_skb[SlotAt(d, k)]
    BY <1>5, <2>1 DEF FrameAt
  <2> QED
    BY <1>4, <1>5, <2>1, <2>2, <2>3
<1> HIDE DEF FrameAt
<1>7. /\ SentFrames \in Seq(Skb) /\ Len(SentFrames) = q
      /\ \A k \in 1 .. q : SentFrames[k] = FrameAt(k)
      /\ WaitingFrames \in Seq(Skb) /\ Len(WaitingFrames) = tx_count - q
      /\ \A k \in 1 .. tx_count - q : WaitingFrames[k] = FrameAt(q + k)
  BY <1>2 DEF FifoView
<1>8. /\ SentFrames' \in Seq(Skb) /\ Len(SentFrames') = q - 1
      /\ \A k \in 1 .. q - 1 : SentFrames'[k] = FrameAt(k)'
      /\ WaitingFrames' \in Seq(Skb) /\ Len(WaitingFrames') = tx_count' - (q - 1)
      /\ \A k \in 1 .. tx_count' - (q - 1) : WaitingFrames'[k] = FrameAt(q - 1 + k)'
  <2>1. r - 1 \in Nat /\ q - 1 \in Nat /\ e - 1 \in Nat
    BY <1>3, <1>4
  <2> QED
    BY <1>3, <2>1 DEF FifoView
<1>9. SentFrames # << >>
  BY <1>3, <1>4, <1>7
<1>10. SentFrames' = Tail(SentFrames)
  <2>1. Len(SentFrames') = Len(SentFrames) - 1
    BY <1>7, <1>8
  <2>2. ASSUME NEW k \in 1 .. Len(SentFrames') PROVE SentFrames'[k] = SentFrames[k + 1]
    <3>1. k \in 1 .. q - 1 /\ k + 1 \in 1 .. q /\ k \in 1 .. tx_count - 1
      BY <1>3, <1>4, <1>8
    <3> QED
      BY <1>6, <1>7, <1>8, <3>1
  <2> QED
    BY <1>7, <1>8, <1>9, <2>1, <2>2, TailEqual
<1>11. WaitingFrames' = WaitingFrames
  <2>1. tx_count' - (q - 1) = tx_count - q
    BY <1>4, <1>5
  <2>2. ASSUME NEW k \in 1 .. tx_count - q PROVE WaitingFrames'[k] = WaitingFrames[k]
    <3>1. q - 1 + k \in 1 .. tx_count - 1 /\ (q - 1 + k) + 1 = q + k
      BY <1>3, <1>4
    <3>2. FrameAt(q - 1 + k)' = FrameAt(q + k)
      BY <1>6, <3>1
    <3> QED
      BY <1>7, <1>8, <2>1, <3>2
  <2>3. Len(WaitingFrames') = Len(WaitingFrames)
        /\ \A k \in 1 .. Len(WaitingFrames) : WaitingFrames'[k] = WaitingFrames[k]
    BY <1>7, <1>8, <2>1, <2>2
  <2> QED
    BY <1>7, <1>8, <2>3, SameElements
<1> QED
  BY <1>9, <1>10, <1>11 DEF Fifo!Complete

\* Every step of the transmit path is a step of the FIFO or invisible.
LEMMA FifoStep ==
    ASSUME DataInv, FifoView, FifoView', ~tx_reset, ~tx_reset', [Next]_vars, StInv'
    PROVE  [Fifo!FifoNext]_(Fifo!fifoVars)
<1> DEFINE still == UNCHANGED <<SentFrames, WaitingFrames>>
<1>1. FlowBase
  BY DEF DataInv, FullInv, FlowBase
<1>2. PICK r \in Nat, q \in Nat, e \in Nat : Flow(r, q, e)
  BY DEF DataInv, FullInv, FlowInv
<1>3. ASSUME UNCHANGED <<tx_skb, tx_count>>, FirstInFlight' = FirstInFlight,
             NEW s \in Nat, NEW f \in Nat, Flow(s, q, f)'
      PROVE  still
  BY <1>2, <1>3, FifoStutter
<1>4. tx_count \in Nat /\ r + 1 \in Nat
  BY <1>1, PlaceFacts
<1> USE DEF FirstInFlight, Completing, drvVars, ringVars, plVars
<1>5. ASSUME LookingStep PROVE still
  BY <1>1, <1>2, <1>3, <1>5, LookingKeeps
<1>6. ASSUME SendChain PROVE still
  <2>1. UNCHANGED <<tx_skb, tx_count>> /\ FirstInFlight' = FirstInFlight
    BY <1>6 DEF SendChain
  <2>2. IF sndHalted THEN Flow(r, q, tx_count)' ELSE Flow(r, q, e)'
    BY <1>1, <1>2, <1>6, FlowChained
  <2> QED
    BY <1>2, <1>3, <1>4, <2>1, <2>2
<1>7. ASSUME PollRestart, RestartNeeded PROVE still
  <2>1. UNCHANGED <<tx_skb, tx_count>> /\ FirstInFlight' = FirstInFlight
    BY <1>7 DEF PollRestart
  <2>2. Flow(r, q, tx_count)'
    BY <1>1, <1>2, <1>7, FlowRestart
  <2> QED
    BY <1>2, <1>3, <1>4, <2>1, <2>2
<1>8. ASSUME PollHalt, stdma.run = Halt, status_wu[tx_next_done].type = 0 PROVE still
  <2>1. UNCHANGED <<tx_skb, tx_count>> /\ FirstInFlight' = FirstInFlight
    BY <1>8 DEF PollHalt, PollReturn
  <2> QED
    BY <1>1, <1>2, <1>3, <1>8, <2>1, FlowStRestart
<1>9. ASSUME TxDmaFetch PROVE still
  <2>1. UNCHANGED <<tx_skb, tx_count>> /\ FirstInFlight' = FirstInFlight
    BY <1>9 DEF TxDmaFetch
  <2> QED
    BY <1>1, <1>2, <1>3, <1>9, <2>1, FlowFetch
<1>10. ASSUME StFirstBeat PROVE still
  <2>1. UNCHANGED <<tx_skb, tx_count>> /\ FirstInFlight' = FirstInFlight
    BY <1>10 DEF StFirstBeat
  <2> QED
    BY <1>1, <1>2, <1>3, <1>4, <1>10, <2>1, FlowBeat
<1>11. ASSUME StDone PROVE still
  <2>1. UNCHANGED <<tx_skb, tx_count>> /\ FirstInFlight' = FirstInFlight
    BY <1>11 DEF StDone
  <2> QED
    BY <1>1, <1>2, <1>3, <1>11, <2>1, FlowDone
<1>12. CASE still
  BY <1>12 DEF Fifo!fifoVars
<1>13. CASE SendCommit
  BY <1>13, CommitAccepts DEF Fifo!FifoNext
<1>14. CASE PollCheck /\ plPc' = "put"
  BY <1>14, TakeCompletes DEF Fifo!FifoNext
<1>15. CASE TxDmaXfer
  BY <1>15, XferTransmits DEF Fifo!FifoNext
<1> HIDE DEF still
<1> QED
  BY <1>5, <1>6, <1>7, <1>8, <1>9, <1>10, <1>11, <1>12, <1>13, <1>14, <1>15, FlowCases

\* With an interface that reports what it sent, the transmit path is the
\* bounded FIFO it promises to be, for every ring size, tag range and budget:
\* a frame leaves once and in the order of adi_msp_send_packet, is freed only
\* after that and in the same order, and carries a tag of its own.
THEOREM TxImplementsFifo ==
    ASSUME Faults \subseteq {"err"}
    PROVE  Spec => ImplementsFifo
<1> DEFINE Inv == DataInv /\ NoTxReset
<1>1. Init => Fifo!FifoInit
  <2> SUFFICES ASSUME Init PROVE SentFrames = << >> /\ WaitingFrames = << >>
    BY DEF Fifo!FifoInit
  <2>1. FullInv /\ ~tx_reset /\ tx_count = 0 /\ Flow(0, 0, 0)
    BY DataInit, FlowInitial DEF DataInv, Init
  <2>2. /\ SentFrames \in Seq(Skb) /\ Len(SentFrames) = 0
        /\ WaitingFrames \in Seq(Skb) /\ Len(WaitingFrames) = 0
    BY <2>1, ViewHolds DEF FifoView
  <2> QED
    BY <2>2
<1>2. Spec => []NoTxReset
  BY TxNeverReset
<1>3. DataInv => FifoView /\ StInv
  BY ViewHolds DEF DataInv, FullInv
<1>4. DataInv /\ FifoView /\ NoTxReset /\ (FifoView /\ StInv)' /\ NoTxReset' /\ [Next]_vars
        => [Fifo!FifoNext]_(Fifo!fifoVars)
  BY FifoStep DEF NoTxReset
<1> QED
  BY <1>1, <1>2, <1>3, <1>4, DataInit, DataStep, PTL DEF Spec, ImplementsFifo, Fifo!FifoSpec
=============================================================================
