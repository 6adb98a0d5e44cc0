---------------------------- MODULE MspTxProofs ----------------------------
(***************************************************************************)
(* Proofs about the transmit path, for every ring size, tag range, budget  *)
(* and fault set.                                                          *)
(***************************************************************************)
EXTENDS MspTx, FiniteSetTheorems, TLAPS

Occupied == {i \in Slots : tx_skb[i] # NoSkb}

\* What adi_msp_send_packet has established by the time it takes the tag:
\* the poll can only make more room.
SenderHolds ==
    /\ sndPc \in {"stop", "map", "commit"} =>
         tx_count < NUM_TDS /\ available[sndClass] > 0
    /\ sndPc = "commit" => sndTag > 0

\* The poll works on a frame only within its budget.
PollHolds ==
    plPc \in {"check", "put", "wakecheck", "wake", "finish", "recycle"} =>
      plCount < Budget

\* Every occupied slot has been counted: the poll never makes tx_count
\* negative.
OccupiedCounted == Cardinality(Occupied) <= tx_count

TxInv == TypeOK /\ SenderHolds /\ PollHolds /\ OccupiedCounted

\* The successor and predecessor of a slot are slots: (i + 1) & MASK and
\* (i - 1) & MASK stay inside the ring.
LEMMA SlotFacts ==
    /\ 0 \in Slots /\ NUM_TDS - 1 \in Slots
    /\ \A i \in Slots : SlotAfter(i) \in Slots /\ SlotBefore(i) \in Slots
    /\ \A i \in Slots : SlotAfter(i) = IF i = NUM_TDS - 1 THEN 0 ELSE i + 1
BY TxConstants DEF Slots, SlotAfter, SlotBefore

\* Tags of both classes: their ranges are not empty, and the tag that
\* get_frame_tag moves to is again in the range of its class.
LEMMA TagFacts ==
    /\ \A c \in FrameClass : MinTag(c) \in 1 .. MAX_PTP_TAG /\ MaxTag(c) \in 1 .. MAX_PTP_TAG
    /\ \A c \in FrameClass : TagCount(c) \in Nat /\ TagCount(c) > 0
    /\ \A c \in FrameClass : MinTag(c) \in MinTag(c) .. MaxTag(c)
    /\ \A c \in FrameClass : MaxTag(c) \in MinTag(c) .. MaxTag(c)
    /\ \A c \in FrameClass : \A t \in MinTag(c) .. MaxTag(c) :
         /\ t \in 1 .. MAX_PTP_TAG
         /\ TagAfter(c, t) \in MinTag(c) .. MaxTag(c)
BY TxConstants DEF MinTag, MaxTag, TagCount, TagAfter, FrameClass

\* A frame that has its tag is not NULL; NoSkb and ZeroWu have their types.
LEMMA DataFacts ==
    /\ NoSkb \in Skb /\ ZeroWu \in StatusWu
    /\ \A c \in FrameClass, t \in 1 .. MAX_PTP_TAG :
         [class |-> c, tag |-> t] \in Skb /\ [class |-> c, tag |-> t] # NoSkb
BY TxConstants DEF NoSkb, Skb, ZeroWu, StatusWu, FrameClass

\* The occupied slots of tx_skb[] are finitely many.
LEMMA OccupiedFinite ==
    ASSUME TypeOK
    PROVE  IsFiniteSet(Occupied) /\ Cardinality(Occupied) \in Nat
<1>1. IsFiniteSet(Slots)
  BY FS_Interval, TxConstants DEF Slots
<1>2. Occupied \subseteq Slots
  BY DEF Occupied
<1> QED
  BY <1>1, <1>2, FS_Subset, FS_CardinalityType

\* The same in the next state.
LEMMA OccupiedFinitePrime ==
    ASSUME TypeOK'
    PROVE  IsFiniteSet(Occupied') /\ Cardinality(Occupied') \in Nat
<1>1. IsFiniteSet(Slots)
  BY FS_Interval, TxConstants DEF Slots
<1>2. Occupied' \subseteq Slots
  BY DEF Occupied
<1> QED
  BY <1>1, <1>2, FS_Subset, FS_CardinalityType

\* Filling a slot (lp->tx_skb[idx] = skb) adds at most one occupied slot.
LEMMA FillSlot ==
    ASSUME TypeOK, NEW i \in Slots, NEW s \in Skb,
           tx_skb' = [tx_skb EXCEPT ![i] = s]
    PROVE  Cardinality(Occupied') <= Cardinality(Occupied) + 1
<1>1. Occupied' \subseteq Occupied \cup {i}
  BY DEF Occupied, TypeOK, RingType
<1>2. IsFiniteSet(Occupied) /\ Cardinality(Occupied) \in Nat
  BY OccupiedFinite
<1>3. /\ IsFiniteSet(Occupied \cup {i})
      /\ Cardinality(Occupied \cup {i}) = IF i \in Occupied THEN Cardinality(Occupied)
                                          ELSE Cardinality(Occupied) + 1
  BY <1>2, FS_AddElement
<1>4. Cardinality(Occupied') <= Cardinality(Occupied \cup {i})
  BY <1>1, <1>3, FS_Subset
<1>5. IsFiniteSet(Occupied') /\ Cardinality(Occupied') \in Nat
  BY <1>1, <1>3, FS_Subset, FS_CardinalityType
<1> QED
  BY <1>2, <1>3, <1>4, <1>5

\* Freeing an occupied slot (lp->tx_skb[idx] = NULL) removes exactly one.
LEMMA FreeSlot ==
    ASSUME TypeOK, NEW i \in Slots, tx_skb[i] # NoSkb,
           tx_skb' = [tx_skb EXCEPT ![i] = NoSkb]
    PROVE  /\ Cardinality(Occupied') = Cardinality(Occupied) - 1
           /\ Cardinality(Occupied) > 0
<1>1. Occupied' = Occupied \ {i} /\ i \in Occupied
  BY DEF Occupied, TypeOK, RingType
<1>2. IsFiniteSet(Occupied) /\ Cardinality(Occupied) \in Nat
  BY OccupiedFinite
<1>3. /\ IsFiniteSet(Occupied \ {i})
      /\ Cardinality(Occupied \ {i}) = Cardinality(Occupied) - 1
  BY <1>1, <1>2, FS_RemoveElement
<1>4. Cardinality(Occupied \ {i}) \in Nat
  BY <1>3, FS_CardinalityType
<1> QED
  BY <1>1, <1>2, <1>3, <1>4

\* What adi_msp_open leaves satisfies the inductive invariant.
LEMMA TxInitInv == Init => TxInv
<1> SUFFICES ASSUME Init PROVE TxInv
  OBVIOUS
<1>1. TypeOK
  <2>1. RingType
    BY SlotFacts, DataFacts DEF Init, RingType
  <2>2. TagType
    BY TagFacts DEF Init, TagType
  <2>3. ChainType /\ SendType /\ PollType
    BY TxConstants, SlotFacts, DataFacts
       DEF Init, ChainType, SendType, PollType, FrameClass
  <2>4. HwType
    <3>1. txdma \in [run : {Halt, "fetch", "xfer"}, cur : Slots,
                      flow : {"stop", "dscl"}, nxt : Slots, skb : Skb]
      BY SlotFacts, DataFacts DEF Init, TxDmaHalted, Halt
    <3>2. stdma \in [run : {Halt, "fetch", "run", "write"}, cur : Slots,
                      flow : {"stop", "dscl"}]
      BY SlotFacts DEF Init, StDmaAt, StDmaHalted, Halt
    <3> QED
      BY <3>1, <3>2, SlotFacts DEF Init, HwType
  <2>5. FlagType
    BY DEF Init, FlagType
  <2> QED
    BY <2>1, <2>2, <2>3, <2>4, <2>5 DEF TypeOK
<1>2. SenderHolds /\ PollHolds
  BY DEF Init, SenderHolds, PollHolds
<1>3. OccupiedCounted
  <2>1. Occupied = {}
    BY DEF Occupied, Init
  <2> QED
    BY <2>1, FS_EmptySet DEF OccupiedCounted, Init
<1> QED
  BY <1>1, <1>2, <1>3 DEF TxInv

\* What a step leaves alone stays as it was.
LEMMA SameParts ==
    /\ RingType /\ UNCHANGED ringVars => RingType'
    /\ TagType /\ UNCHANGED tagVars => TagType'
    /\ ChainType /\ UNCHANGED <<tx_chain_head, tx_chain_tail, tx_next_done, tx_count>>
         => ChainType'
    /\ FlagType /\ UNCHANGED <<tx_chain_filled, queue_stopped, tx_reset, sndHalted, int_en,
                               irqdone>> => FlagType'
    /\ SendType /\ UNCHANGED sndVars => SendType'
    /\ PollType /\ UNCHANGED plVars => PollType'
    /\ HwType /\ UNCHANGED hwVars => HwType'
BY DEF RingType, ringVars, TagType, tagVars, ChainType, chainVars, FlagType, SendType, sndVars,
       PollType, plVars, HwType, hwVars, stVars

\* A step that touches neither tx_skb nor tx_count keeps the count right.
LEMMA OccupiedSame ==
    ASSUME OccupiedCounted, UNCHANGED <<tx_skb, tx_count>>
    PROVE  OccupiedCounted'
BY DEF OccupiedCounted, Occupied

\* Leaving adi_msp_status_poll keeps its position and locals well formed.
LEMMA ReturnTypes ==
    ASSUME NEW k, PollReturn(k), PollType
    PROVE  PollType' /\ PollHolds' /\ (int_en' = TRUE \/ int_en' = int_en)
BY TxConstants, DataFacts DEF PollReturn, PollType, PollHolds

\* So does leaving it through reset_tx.
LEMMA ResetTypes ==
    ASSUME reset_tx, PollType
    PROVE  PollType' /\ PollHolds' /\ (int_en' = TRUE \/ int_en' = int_en) /\ tx_reset' = TRUE
BY ReturnTypes DEF reset_tx

\* Whatever the interface reports, faults included, is a status work unit.
LEMMA ReportType ==
    ASSUME NEW skb \in Skb
    PROVE  Report(skb) \subseteq StatusWu
<1> SUFFICES ASSUME NEW wu \in Report(skb) PROVE wu \in StatusWu
  OBVIOUS
<1> DEFINE truth == [type |-> WU_TYPE_TX_STAT, err |-> FALSE, class |-> skb.class,
                     tag |-> skb.tag, stamped |-> FALSE]
<1>1. truth \in StatusWu
  BY DEF StatusWu, Skb, WU_TYPE_TX_STAT
<1>2. [truth EXCEPT !.err = TRUE] \in StatusWu
  BY <1>1, Zenon DEF StatusWu
<1>3. [truth EXCEPT !.type = 1] \in StatusWu
  <2>1. 1 \in 0 .. 3
    OBVIOUS
  <2> QED
    BY <1>1, <2>1, Zenon DEF StatusWu
<1>4. \A cl \in FrameClass : [truth EXCEPT !.class = cl] \in StatusWu
  BY <1>1 DEF StatusWu
<1>5. \A t \in 0 .. MAX_PTP_TAG : [truth EXCEPT !.tag = t] \in StatusWu
  BY <1>1 DEF StatusWu
<1>6. \/ wu = truth \/ wu = [truth EXCEPT !.err = TRUE]
      \/ wu = [truth EXCEPT !.type = 1]
      \/ \E cl \in FrameClass : wu = [truth EXCEPT !.class = cl]
      \/ \E t \in 0 .. MAX_PTP_TAG : wu = [truth EXCEPT !.tag = t]
  BY DEF Report
<1>7. CASE \E cl \in FrameClass : wu = [truth EXCEPT !.class = cl]
  BY <1>4, <1>7
<1>8. CASE \E t \in 0 .. MAX_PTP_TAG : wu = [truth EXCEPT !.tag = t]
  BY <1>5, <1>8
<1> QED
  BY <1>1, <1>2, <1>3, <1>6, <1>7, <1>8

\* Every step of sender, poll and hardware keeps the inductive invariant.
LEMMA TxStepInv == TxInv /\ [Next]_vars => TxInv'
<1> SUFFICES ASSUME TxInv, [Next]_vars PROVE TxInv'
  OBVIOUS
<1> USE DEF drvVars, ringVars, tagVars, chainVars, sndVars, plVars, stVars, hwVars
<1>0. TypeOK /\ SenderHolds /\ PollHolds /\ OccupiedCounted
  BY DEF TxInv
<1>1. ASSUME NEW c \in Classes, SendPacket(c) PROVE TxInv'
  <2>t1. RingType' /\ TagType' /\ ChainType' /\ FlagType' /\ PollType' /\ HwType'
    BY <1>0, <1>1, SameParts DEF TypeOK, SendPacket
  <2>t2. SendType'
    BY <1>0, <1>1, TxConstants DEF TypeOK, SendType, SendPacket
  <2>t3. SenderHolds' /\ PollHolds'
    BY <1>0, <1>1 DEF SenderHolds, PollHolds, SendPacket
  <2>t4. OccupiedCounted'
    BY <1>0, <1>1, OccupiedSame DEF SendPacket
  <2> QED
    BY <2>t1, <2>t2, <2>t3, <2>t4 DEF TxInv, TypeOK
<1>2. ASSUME SendCheck PROVE TxInv'
  <2>t1. RingType' /\ TagType' /\ ChainType' /\ PollType' /\ HwType'
    BY <1>0, <1>2, SameParts DEF TypeOK, SendCheck
  <2>t2. FlagType'
    BY <1>0, <1>2, Zenon DEF TypeOK, FlagType, SendCheck, SendReturn
  <2>t3. SendType'
    BY <1>0, <1>2, TxConstants DEF TypeOK, SendType, SendCheck, SendReturn, FrameClass
  <2>t4. SenderHolds' /\ PollHolds'
    BY <1>0, <1>2, TxConstants DEF TypeOK, TagType, ChainType, SendType, SenderHolds, PollHolds, SendCheck,
           SendReturn, TxRingFull
  <2>t5. OccupiedCounted'
    BY <1>0, <1>2, OccupiedSame DEF SendCheck
  <2> QED
    BY <2>t1, <2>t2, <2>t3, <2>t4, <2>t5 DEF TxInv, TypeOK
<1>3. ASSUME SendStopQueue PROVE TxInv'
  <2>t1. RingType' /\ TagType' /\ ChainType' /\ PollType' /\ HwType'
    BY <1>0, <1>3, SameParts DEF TypeOK, SendStopQueue
  <2>t2. FlagType'
    BY <1>0, <1>3, Zenon DEF TypeOK, FlagType, SendStopQueue
  <2>t3. SendType'
    BY <1>0, <1>3 DEF TypeOK, SendType, SendStopQueue
  <2>t4. SenderHolds' /\ PollHolds'
    BY <1>0, <1>3 DEF SenderHolds, PollHolds, SendStopQueue
  <2>t5. OccupiedCounted'
    BY <1>0, <1>3, OccupiedSame DEF SendStopQueue
  <2> QED
    BY <2>t1, <2>t2, <2>t3, <2>t4, <2>t5 DEF TxInv, TypeOK
<1>4. ASSUME SendMap PROVE TxInv'
  <2>t1. RingType' /\ TagType' /\ ChainType' /\ PollType' /\ HwType'
    BY <1>0, <1>4, SameParts DEF TypeOK, SendMap
  <2>t2. next_tag[sndClass] \in 1 .. MAX_PTP_TAG
    BY <1>0, <1>4, TagFacts DEF TypeOK, TagType, SendType
  <2>t3. FlagType'
    BY <1>0, <1>4, Zenon DEF TypeOK, FlagType, SendMap, SendReturn
  <2>t4. SendType'
    BY <1>0, <1>4, <2>t2, TxConstants DEF TypeOK, SendType, SendMap, SendReturn, FrameClass
  <2>t5. SenderHolds' /\ PollHolds'
    BY <1>0, <1>4, <2>t2 DEF SenderHolds, PollHolds, SendMap, SendReturn
  <2>t6. OccupiedCounted'
    BY <1>0, <1>4, OccupiedSame DEF SendMap
  <2> QED
    BY <2>t1, <2>t2, <2>t3, <2>t4, <2>t5, <2>t6 DEF TxInv, TypeOK
<1>5. ASSUME SendCommit PROVE TxInv'
  <2> DEFINE skb == [class |-> sndClass, tag |-> sndTag]
  <2>1. tx_count < NUM_TDS /\ tx_count \in Nat /\ available[sndClass] > 0
    BY <1>0, <1>5, TxConstants DEF TypeOK, ChainType, SenderHolds, SendCommit
  <2>2. skb \in Skb
    BY <1>0 DEF TypeOK, SendType, Skb
  <2>3. /\ tx_skb' = [tx_skb EXCEPT ![tx_chain_tail] = skb]
        /\ td_ring' = [td_ring EXCEPT ![tx_chain_tail].skb = skb,
                                      ![tx_chain_tail].flow = "stop"]
    BY <1>5 DEF SendCommit
  <2>4. RingType'
    <3> HIDE DEF skb
    <3>1. tx_skb' \in [Slots -> Skb]
      BY <1>0, <2>2, <2>3 DEF TypeOK, RingType, ChainType
    <3>2. td_ring' \in [Slots -> [skb : Skb, nxt : Slots, flow : {"stop", "dscl"}]]
      BY <1>0, <2>2, <2>3 DEF TypeOK, RingType, ChainType
    <3> QED
      BY <1>0, <1>5, <3>1, <3>2 DEF TypeOK, RingType, SendCommit
  <2>5. TagType'
    <3>1. /\ TagAfter(sndClass, next_tag[sndClass]) \in MinTag(sndClass) .. MaxTag(sndClass)
          /\ TagAfter(sndClass, next_tag[sndClass]) \in Nat
      BY <1>0, TagFacts DEF TypeOK, TagType, SendType
    <3>2. /\ available' = [available EXCEPT ![sndClass] = available[sndClass] - 1]
          /\ next_tag' = [next_tag EXCEPT ![sndClass] = TagAfter(sndClass, next_tag[sndClass])]
          /\ last_tag' = last_tag
      BY <1>5, <2>1 DEF SendCommit, get_frame_tag
    <3>3. available[sndClass] - 1 \in Nat
      BY <1>0, <2>1 DEF TypeOK, TagType, SendType
    <3> QED
      BY <1>0, <3>1, <3>2, <3>3 DEF TypeOK, TagType, SendType
  <2>6. tx_count' = tx_count + 1 /\ tx_count' \in 0 .. NUM_TDS
    BY <1>5, <2>1, TxConstants DEF SendCommit
  <2>7. ChainType' /\ SendType'
    BY <1>0, <1>5, <2>6 DEF TypeOK, ChainType, SendType, SendCommit
  <2>8. FlagType' /\ PollType' /\ HwType'
    BY <1>0, <1>5, SameParts DEF TypeOK, SendCommit
  <2>9. TypeOK'
    BY <2>4, <2>5, <2>7, <2>8 DEF TypeOK
  <2>10. SenderHolds' /\ PollHolds'
    BY <1>0, <1>5 DEF SenderHolds, PollHolds, SendCommit
  <2>11. Cardinality(Occupied') <= Cardinality(Occupied) + 1
    BY <1>0, <2>2, <2>3, FillSlot DEF TypeOK, ChainType
  <2>12. Cardinality(Occupied) \in Nat /\ Cardinality(Occupied') \in Nat
    BY <1>0, <2>9, OccupiedFinite, OccupiedFinitePrime
  <2>13. OccupiedCounted'
    BY <1>0, <2>1, <2>6, <2>11, <2>12 DEF OccupiedCounted
  <2> QED
    BY <2>9, <2>10, <2>13 DEF TxInv
<1>6. ASSUME SendStat PROVE TxInv'
  <2>t1. RingType' /\ TagType' /\ ChainType' /\ PollType' /\ HwType'
    BY <1>0, <1>6, SameParts DEF TypeOK, SendStat
  <2>t2. FlagType'
    BY <1>0, <1>6, Zenon DEF TypeOK, FlagType, SendStat
  <2>t3. SendType'
    BY <1>0, <1>6 DEF TypeOK, SendType, SendStat
  <2>t4. SenderHolds' /\ PollHolds'
    BY <1>0, <1>6 DEF SenderHolds, PollHolds, SendStat
  <2>t5. OccupiedCounted'
    BY <1>0, <1>6, OccupiedSame DEF SendStat
  <2> QED
    BY <2>t1, <2>t2, <2>t3, <2>t4, <2>t5 DEF TxInv, TypeOK
<1>7. ASSUME SendChain PROVE TxInv'
  <2>t1. TagType' /\ PollType'
    BY <1>0, <1>7, SameParts DEF TypeOK, SendChain
  <2>t2. FlagType'
    BY <1>0, <1>7, Zenon DEF TypeOK, FlagType, SendChain, StartChain, SendReturn
  <2>t3. SendType'
    BY <1>0, <1>7, TxConstants DEF TypeOK, SendType, SendChain, SendReturn, FrameClass
  <2>t4. ChainType'
    BY <1>0, <1>7, SlotFacts DEF TypeOK, ChainType, SendChain, StartChain
  <2>t5. RingType'
    BY <1>0, <1>7, SlotFacts DEF TypeOK, RingType, ChainType, SendChain
  <2>t6. HwType'
    BY <1>0, <1>7, SlotFacts, DataFacts DEF TypeOK, HwType, ChainType, SendChain, StartChain, TxDmaAt, TxDmaHalted
  <2>t7. SenderHolds' /\ PollHolds'
    BY <1>0, <1>7 DEF SenderHolds, PollHolds, SendChain, SendReturn
  <2>t8. OccupiedCounted'
    BY <1>0, <1>7, OccupiedSame DEF SendChain
  <2> QED
    BY <2>t1, <2>t2, <2>t3, <2>t4, <2>t5, <2>t6, <2>t7, <2>t8 DEF TxInv, TypeOK
<1>8. ASSUME StatusIrq PROVE TxInv'
  <2>t1. RingType' /\ TagType' /\ ChainType' /\ SendType' /\ HwType'
    BY <1>0, <1>8, SameParts DEF TypeOK, StatusIrq
  <2>t2. FlagType'
    BY <1>0, <1>8, Zenon DEF TypeOK, FlagType, StatusIrq
  <2>t3. PollType'
    BY <1>0, <1>8, TxConstants DEF TypeOK, PollType, StatusIrq
  <2>t4. SenderHolds' /\ PollHolds'
    BY <1>0, <1>8 DEF SenderHolds, PollHolds, StatusIrq
  <2>t5. OccupiedCounted'
    BY <1>0, <1>8, OccupiedSame DEF StatusIrq
  <2> QED
    BY <2>t1, <2>t2, <2>t3, <2>t4, <2>t5 DEF TxInv, TypeOK
<1>9. ASSUME PollRead PROVE TxInv'
  <2>t1. RingType' /\ TagType' /\ ChainType' /\ FlagType' /\ SendType' /\ HwType'
    BY <1>0, <1>9, SameParts DEF TypeOK, PollRead
  <2>t2. PollType'
    BY <1>0, <1>9 DEF TypeOK, RingType, ChainType, PollType, PollRead
  <2>t3. SenderHolds' /\ PollHolds'
    BY <1>0, <1>9, TxConstants DEF TypeOK, PollType, SenderHolds, PollHolds, PollRead
  <2>t4. OccupiedCounted'
    BY <1>0, <1>9, OccupiedSame DEF PollRead
  <2> QED
    BY <2>t1, <2>t2, <2>t3, <2>t4 DEF TxInv, TypeOK
<1>10. ASSUME PollWakeCheck PROVE TxInv'
  <2>t1. RingType' /\ TagType' /\ ChainType' /\ FlagType' /\ SendType' /\ HwType'
    BY <1>0, <1>10, SameParts DEF TypeOK, PollWakeCheck
  <2>t2. PollType'
    BY <1>0, <1>10 DEF TypeOK, PollType, PollWakeCheck
  <2>t3. SenderHolds' /\ PollHolds'
    BY <1>0, <1>10 DEF SenderHolds, PollHolds, PollWakeCheck
  <2>t4. OccupiedCounted'
    BY <1>0, <1>10, OccupiedSame DEF PollWakeCheck
  <2> QED
    BY <2>t1, <2>t2, <2>t3, <2>t4 DEF TxInv, TypeOK
<1>11. ASSUME PollWake PROVE TxInv'
  <2>t1. RingType' /\ TagType' /\ ChainType' /\ SendType' /\ HwType'
    BY <1>0, <1>11, SameParts DEF TypeOK, PollWake
  <2>t2. FlagType'
    BY <1>0, <1>11, Zenon DEF TypeOK, FlagType, PollWake
  <2>t3. PollType'
    BY <1>0, <1>11 DEF TypeOK, PollType, PollWake
  <2>t4. SenderHolds' /\ PollHolds'
    BY <1>0, <1>11 DEF SenderHolds, PollHolds, PollWake
  <2>t5. OccupiedCounted'
    BY <1>0, <1>11, OccupiedSame DEF PollWake
  <2> QED
    BY <2>t1, <2>t2, <2>t3, <2>t4, <2>t5 DEF TxInv, TypeOK
<1>12. ASSUME RecycleStop PROVE TxInv'
  <2>t1. TagType' /\ ChainType' /\ FlagType' /\ SendType' /\ HwType'
    BY <1>0, <1>12, SameParts DEF TypeOK, RecycleStop
  <2>t2. RingType'
    BY <1>0, <1>12, DataFacts DEF TypeOK, RingType, ChainType, RecycleStop, ResetDescAndWu
  <2>t3. PollType'
    BY <1>0, <1>12, TxConstants DEF TypeOK, PollType, PollHolds, RecycleStop
  <2>t4. SenderHolds' /\ PollHolds'
    BY <1>0, <1>12 DEF SenderHolds, PollHolds, RecycleStop
  <2>t5. OccupiedCounted'
    BY <1>0, <1>12, OccupiedSame DEF RecycleStop
  <2> QED
    BY <2>t1, <2>t2, <2>t3, <2>t4, <2>t5 DEF TxInv, TypeOK
<1>13. ASSUME RecycleLink PROVE TxInv'
  <2>t1. TagType' /\ ChainType' /\ FlagType' /\ SendType' /\ HwType'
    BY <1>0, <1>13, SameParts DEF TypeOK, RecycleLink
  <2>t2. RingType'
    BY <1>0, <1>13, SlotFacts DEF TypeOK, RingType, ChainType, RecycleLink
  <2>t3. PollType'
    BY <1>0, <1>13 DEF TypeOK, PollType, RecycleLink
  <2>t4. SenderHolds' /\ PollHolds'
    BY <1>0, <1>13 DEF SenderHolds, PollHolds, RecycleLink
  <2>t5. OccupiedCounted'
    BY <1>0, <1>13, OccupiedSame DEF RecycleLink
  <2> QED
    BY <2>t1, <2>t2, <2>t3, <2>t4, <2>t5 DEF TxInv, TypeOK
<1>14. ASSUME RecycleAck PROVE TxInv'
  <2>t1. RingType' /\ TagType' /\ SendType'
    BY <1>0, <1>14, SameParts DEF TypeOK, RecycleAck
  <2>t2. FlagType'
    BY <1>0, <1>14, Zenon DEF TypeOK, FlagType, RecycleAck
  <2>t3. ChainType'
    BY <1>0, <1>14, SlotFacts DEF TypeOK, ChainType, RecycleAck
  <2>t4. HwType'
    BY <1>0, <1>14 DEF TypeOK, HwType, RecycleAck
  <2>t5. PollType'
    BY <1>0, <1>14 DEF TypeOK, PollType, RecycleAck
  <2>t6. SenderHolds' /\ PollHolds'
    BY <1>0, <1>14 DEF SenderHolds, PollHolds, RecycleAck
  <2>t7. OccupiedCounted'
    BY <1>0, <1>14, OccupiedSame DEF RecycleAck
  <2> QED
    BY <2>t1, <2>t2, <2>t3, <2>t4, <2>t5, <2>t6, <2>t7 DEF TxInv, TypeOK
<1>15. ASSUME PollRestart PROVE TxInv'
  <2>t1. RingType' /\ TagType' /\ SendType'
    BY <1>0, <1>15, SameParts DEF TypeOK, PollRestart
  <2>t2. FlagType'
    BY <1>0, <1>15, Zenon DEF TypeOK, FlagType, PollRestart, StartChain
  <2>t3. ChainType'
    BY <1>0, <1>15, SlotFacts DEF TypeOK, ChainType, PollRestart, StartChain
  <2>t4. HwType'
    BY <1>0, <1>15, SlotFacts, DataFacts DEF TypeOK, HwType, ChainType, PollRestart, StartChain, TxDmaAt, TxDmaHalted
  <2>t5. PollType'
    BY <1>0, <1>15 DEF TypeOK, PollType, PollRestart
  <2>t6. SenderHolds' /\ PollHolds'
    BY <1>0, <1>15 DEF SenderHolds, PollHolds, PollRestart
  <2>t7. OccupiedCounted'
    BY <1>0, <1>15, OccupiedSame DEF PollRestart
  <2> QED
    BY <2>t1, <2>t2, <2>t3, <2>t4, <2>t5, <2>t6, <2>t7 DEF TxInv, TypeOK
<1>16. ASSUME TxDmaFetch PROVE TxInv'
  <2>t1. RingType' /\ TagType' /\ ChainType' /\ FlagType' /\ SendType' /\ PollType'
    BY <1>0, <1>16, SameParts DEF TypeOK, TxDmaFetch
  <2>t2. HwType'
    BY <1>0, <1>16 DEF TypeOK, HwType, RingType, TxDmaFetch
  <2>t3. SenderHolds' /\ PollHolds'
    BY <1>0, <1>16 DEF SenderHolds, PollHolds, TxDmaFetch
  <2>t4. OccupiedCounted'
    BY <1>0, <1>16, OccupiedSame DEF TxDmaFetch
  <2> QED
    BY <2>t1, <2>t2, <2>t3, <2>t4 DEF TxInv, TypeOK
<1>17. ASSUME TxDmaXfer PROVE TxInv'
  <2>t1. RingType' /\ TagType' /\ ChainType' /\ FlagType' /\ SendType' /\ PollType'
    BY <1>0, <1>17, SameParts DEF TypeOK, TxDmaXfer
  <2>t2. mspq' \in Seq(Skb)
    BY <1>0, <1>17 DEF TypeOK, HwType, TxDmaXfer
  <2>t3. HwType'
    BY <1>0, <1>17, <2>t2, SlotFacts, DataFacts DEF TypeOK, HwType, TxDmaXfer, TxDmaAt, TxDmaHalted, Halt
  <2>t4. SenderHolds' /\ PollHolds'
    BY <1>0, <1>17 DEF SenderHolds, PollHolds, TxDmaXfer
  <2>t5. OccupiedCounted'
    BY <1>0, <1>17, OccupiedSame DEF TxDmaXfer
  <2> QED
    BY <2>t1, <2>t2, <2>t3, <2>t4, <2>t5 DEF TxInv, TypeOK
<1>18. ASSUME StFetch PROVE TxInv'
  <2>t1. RingType' /\ TagType' /\ ChainType' /\ FlagType' /\ SendType' /\ PollType'
    BY <1>0, <1>18, SameParts DEF TypeOK, StFetch
  <2>t2. HwType'
    BY <1>0, <1>18 DEF TypeOK, HwType, RingType, StFetch
  <2>t3. SenderHolds' /\ PollHolds'
    BY <1>0, <1>18 DEF SenderHolds, PollHolds, StFetch
  <2>t4. OccupiedCounted'
    BY <1>0, <1>18, OccupiedSame DEF StFetch
  <2> QED
    BY <2>t1, <2>t2, <2>t3, <2>t4 DEF TxInv, TypeOK
<1>19. ASSUME StDone PROVE TxInv'
  <2>t1. TagType' /\ ChainType' /\ SendType' /\ PollType'
    BY <1>0, <1>19, SameParts DEF TypeOK, StDone
  <2>t2. FlagType'
    BY <1>0, <1>19, Zenon DEF TypeOK, FlagType, StDone
  <2>t3. RingType'
    BY <1>0, <1>19 DEF TypeOK, RingType, HwType, StatusWu, StDone
  <2>t4. HwType'
    BY <1>0, <1>19, SlotFacts DEF TypeOK, HwType, StDone, StDmaAt, StDmaHalted
  <2>t5. SenderHolds' /\ PollHolds'
    BY <1>0, <1>19 DEF SenderHolds, PollHolds, StDone
  <2>t6. OccupiedCounted'
    BY <1>0, <1>19, OccupiedSame DEF StDone
  <2> QED
    BY <2>t1, <2>t2, <2>t3, <2>t4, <2>t5, <2>t6 DEF TxInv, TypeOK
<1>20. ASSUME PollCheck PROVE TxInv'
  <2> DEFINE idx == tx_next_done
  <2>1. TagType' /\ SendType' /\ HwType'
    BY <1>0, <1>20, SameParts DEF TypeOK, PollCheck
  <2>2. CASE StatusInProgress(idx)
    <3>1. RingType' /\ ChainType' /\ FlagType'
      BY <1>0, <1>20, <2>2, SameParts DEF TypeOK, PollCheck
    <3>2. PollType'
      BY <1>0, <1>20, <2>2, DataFacts DEF TypeOK, PollType, PollCheck
    <3>3. SenderHolds' /\ PollHolds'
      BY <1>0, <1>20, <2>2 DEF SenderHolds, PollHolds, PollCheck
    <3>4. OccupiedCounted'
      BY <1>0, <1>20, <2>2, OccupiedSame DEF PollCheck
    <3> QED
      BY <2>1, <3>1, <3>2, <3>3, <3>4 DEF TxInv, TypeOK
  <2>3. CASE /\ ~StatusInProgress(idx)
             /\ plWu.type # WU_TYPE_TX_STAT \/ tx_skb[idx] = NoSkb
    <3>1. reset_tx /\ UNCHANGED <<tx_skb, tx_count>>
      BY <1>20, <2>3 DEF PollCheck
    <3>2. RingType' /\ ChainType'
      BY <1>0, <1>20, <3>1, SameParts DEF TypeOK, PollCheck
    <3>3. FlagType'
      BY <1>0, <1>20, <3>1, ResetTypes, Zenon DEF TypeOK, FlagType, PollCheck
    <3>4. PollType' /\ PollHolds'
      BY <1>0, <3>1, ResetTypes DEF TypeOK
    <3>5. SenderHolds'
      BY <1>0, <1>20, <3>1 DEF SenderHolds, PollCheck
    <3>6. OccupiedCounted'
      BY <1>0, <3>1, OccupiedSame
    <3> QED
      BY <2>1, <3>2, <3>3, <3>4, <3>5, <3>6 DEF TxInv, TypeOK
  <2>4. CASE /\ ~StatusInProgress(idx)
             /\ ~(plWu.type # WU_TYPE_TX_STAT \/ tx_skb[idx] = NoSkb)
    <3>1. /\ plSkb' = tx_skb[idx] /\ plPc' = "put"
          /\ tx_skb' = [tx_skb EXCEPT ![idx] = NoSkb]
          /\ tx_count' = tx_count - 1
          /\ UNCHANGED <<plWu, plCount, int_en, tx_reset>>
      BY <1>20, <2>4 DEF PollCheck
    <3>2. idx \in Slots /\ tx_skb[idx] # NoSkb /\ plPc = "check"
      BY <1>0, <1>20, <2>4 DEF TypeOK, ChainType, PollCheck
    <3>3. /\ Cardinality(Occupied') = Cardinality(Occupied) - 1
          /\ Cardinality(Occupied) > 0 /\ Cardinality(Occupied) \in Nat
      BY <1>0, <3>1, <3>2, FreeSlot, OccupiedFinite
    <3>4. tx_count - 1 \in 0 .. NUM_TDS
      BY <1>0, <3>3, TxConstants DEF TypeOK, ChainType, OccupiedCounted
    <3>5. OccupiedCounted'
      BY <1>0, <3>1, <3>3, <3>4 DEF OccupiedCounted, TypeOK, ChainType
    <3>6. RingType'
      BY <1>0, <1>20, <3>1, <3>2, DataFacts DEF TypeOK, RingType, PollCheck
    <3>7. ChainType'
      BY <1>0, <1>20, <3>1, <3>4 DEF TypeOK, ChainType, PollCheck
    <3>8. FlagType'
      BY <1>0, <1>20, <3>1, SameParts DEF TypeOK, PollCheck
    <3>9. PollType'
      BY <1>0, <3>1, <3>2 DEF TypeOK, PollType, RingType
    <3>10. SenderHolds'
      BY <1>0, <1>20, <3>1, TxConstants DEF TypeOK, ChainType, SenderHolds, PollCheck
    <3>11. PollHolds'
      BY <1>0, <3>1, <3>2 DEF PollHolds
    <3> QED
      BY <2>1, <3>5, <3>6, <3>7, <3>8, <3>9, <3>10, <3>11 DEF TxInv, TypeOK
  <2> QED
    BY <2>2, <2>3, <2>4
<1>21. ASSUME PollPut PROVE TxInv'
  <2> DEFINE c == plWu.class
             inRange  == plWu.tag \in MinTag(c) .. MaxTag(c)
             expected == plWu.tag = TagAfter(c, last_tag[c])
  <2>1. RingType' /\ ChainType' /\ SendType' /\ HwType'
    BY <1>0, <1>21, SameParts DEF TypeOK, PollPut
  <2>2. c \in FrameClass /\ plWu.tag \in Nat
    BY <1>0 DEF TypeOK, PollType, StatusWu
  <2>3. /\ available' = IF inRange THEN [available EXCEPT ![c] = available[c] + 1]
                                   ELSE available
        /\ last_tag' = IF inRange /\ expected THEN [last_tag EXCEPT ![c] = plWu.tag]
                                              ELSE last_tag
        /\ next_tag' = next_tag
    BY <1>21 DEF PollPut
  <2>4. TagType'
    <3> HIDE DEF c, expected
    <3> QED BY <1>0, <2>2, <2>3 DEF TypeOK, TagType
  <2>5. \A d \in FrameClass : available'[d] >= available[d]
    <3> HIDE DEF c, inRange, expected
    <3> QED BY <1>0, <2>2, <2>3 DEF TypeOK, TagType
  <2>6. SenderHolds'
    BY <1>0, <1>21, <2>4, <2>5 DEF TypeOK, TagType, SendType, SenderHolds, PollPut
  <2>7. OccupiedCounted'
    BY <1>0, <1>21, OccupiedSame DEF PollPut
  <2>8. CASE inRange /\ expected
    <3>1. plPc' = "wakecheck" /\ UNCHANGED <<plWu, plSkb, plCount, int_en, tx_reset>>
      BY <1>21, <2>8 DEF PollPut
    <3>2. FlagType'
      BY <1>0, <1>21, <3>1, SameParts DEF TypeOK, PollPut
    <3>3. PollType' /\ PollHolds'
      BY <1>0, <1>21, <3>1 DEF TypeOK, PollType, PollHolds, PollPut
    <3> QED
      BY <2>1, <2>4, <2>6, <2>7, <3>2, <3>3 DEF TxInv, TypeOK
  <2>9. CASE ~(inRange /\ expected)
    <3>1. reset_tx
      BY <1>21, <2>9 DEF PollPut
    <3>2. FlagType'
      BY <1>0, <1>21, <3>1, ResetTypes, Zenon DEF TypeOK, FlagType, PollPut
    <3>3. PollType' /\ PollHolds'
      BY <1>0, <3>1, ResetTypes DEF TypeOK
    <3> QED
      BY <2>1, <2>4, <2>6, <2>7, <3>2, <3>3 DEF TxInv, TypeOK
  <2> QED
    BY <2>8, <2>9
<1>22. ASSUME PollFinish PROVE TxInv'
  <2>1. RingType' /\ TagType' /\ ChainType' /\ SendType' /\ HwType'
    BY <1>0, <1>22, SameParts DEF TypeOK, PollFinish
  <2>2. SenderHolds'
    BY <1>0, <1>22 DEF SenderHolds, PollFinish
  <2>3. OccupiedCounted'
    BY <1>0, <1>22, OccupiedSame DEF PollFinish
  <2>4. CASE plWu.tag # plSkb.tag
    <3>1. reset_tx
      BY <1>22, <2>4 DEF PollFinish
    <3>2. FlagType'
      BY <1>0, <1>22, <3>1, ResetTypes, Zenon DEF TypeOK, FlagType, PollFinish
    <3>3. PollType' /\ PollHolds'
      BY <1>0, <3>1, ResetTypes DEF TypeOK
    <3> QED
      BY <2>1, <2>2, <2>3, <3>2, <3>3 DEF TxInv, TypeOK
  <2>5. CASE plWu.tag = plSkb.tag
    <3>1. FlagType'
      BY <1>0, <1>22, <2>5, SameParts DEF TypeOK, PollFinish
    <3>2. PollType' /\ PollHolds'
      BY <1>0, <1>22, <2>5, DataFacts DEF TypeOK, PollType, PollHolds, PollFinish
    <3> QED
      BY <2>1, <2>2, <2>3, <3>1, <3>2 DEF TxInv, TypeOK
  <2> QED
    BY <2>4, <2>5
<1>23. ASSUME PollHalt PROVE TxInv'
  <2>1. RingType' /\ TagType' /\ ChainType' /\ SendType'
    BY <1>0, <1>23, SameParts DEF TypeOK, PollHalt
  <2>2. SenderHolds'
    BY <1>0, <1>23 DEF SenderHolds, PollHalt
  <2>3. OccupiedCounted'
    BY <1>0, <1>23, OccupiedSame DEF PollHalt
  <2>4. HwType'
    <3>1. StDmaAt(tx_next_done) \in [run : {Halt, "fetch", "run", "write"}, cur : Slots,
                                     flow : {"stop", "dscl"}]
      BY <1>0 DEF TypeOK, ChainType, StDmaAt, StDmaHalted
    <3>2. stdma' \in {stdma, StDmaAt(tx_next_done)} /\ UNCHANGED <<txdma, mspq, dscptr_prv>>
      BY <1>23 DEF PollHalt
    <3> QED
      BY <1>0, <3>1, <3>2 DEF TypeOK, HwType
  <2>5. CASE \/ \E k \in {plCount, Budget - 1} : PollReturn(k)
    <3>1. PollType' /\ PollHolds' /\ (int_en' = TRUE \/ int_en' = int_en)
      BY <1>0, <2>5, ReturnTypes DEF TypeOK
    <3>2. FlagType'
      BY <1>0, <1>23, <3>1, Zenon DEF TypeOK, FlagType, PollHalt
    <3> QED
      BY <2>1, <2>2, <2>3, <2>4, <3>1, <3>2 DEF TxInv, TypeOK
  <2>6. CASE plPc' = "loop" /\ UNCHANGED <<plWu, plSkb, plCount, int_en, stVars>>
    <3>1. PollType' /\ PollHolds'
      BY <1>0, <2>6 DEF TypeOK, PollType, PollHolds
    <3>2. FlagType'
      BY <1>0, <1>23, <2>6, SameParts DEF TypeOK, PollHalt
    <3> QED
      BY <2>1, <2>2, <2>3, <2>4, <3>1, <3>2 DEF TxInv, TypeOK
  <2> QED
    BY <1>23, <2>5, <2>6 DEF PollHalt
<1>24. ASSUME StFirstBeat PROVE TxInv'
  <2>1. TagType' /\ ChainType' /\ FlagType' /\ SendType' /\ PollType'
    BY <1>0, <1>24, SameParts DEF TypeOK, StFirstBeat
  <2>2. Head(mspq) \in Skb /\ Tail(mspq) \in Seq(Skb)
    BY <1>0, <1>24 DEF TypeOK, HwType, StFirstBeat
  <2>3. PICK wu \in Report(Head(mspq)) : status_wu' = [status_wu EXCEPT ![stdma.cur] = wu]
    BY <1>24 DEF StFirstBeat
  <2>4. wu \in StatusWu
    BY <2>2, <2>3, ReportType
  <2>5. RingType'
    BY <1>0, <1>24, <2>3, <2>4 DEF TypeOK, RingType, HwType, StFirstBeat
  <2>6. HwType'
    BY <1>0, <1>24, <2>2 DEF TypeOK, HwType, StFirstBeat
  <2>7. SenderHolds' /\ PollHolds'
    BY <1>0, <1>24 DEF SenderHolds, PollHolds, StFirstBeat
  <2>8. OccupiedCounted'
    BY <1>0, <1>24, OccupiedSame DEF StFirstBeat
  <2> QED
    BY <2>1, <2>5, <2>6, <2>7, <2>8 DEF TxInv, TypeOK
<1>25. ASSUME UNCHANGED vars PROVE TxInv'
  <2>1. TypeOK'
    BY <1>0, <1>25, SameParts DEF TypeOK, vars
  <2>2. SenderHolds' /\ PollHolds'
    BY <1>0, <1>25 DEF SenderHolds, PollHolds, vars
  <2>3. OccupiedCounted'
    BY <1>0, <1>25, OccupiedSame DEF vars
  <2> QED
    BY <2>1, <2>2, <2>3 DEF TxInv
<1> QED
  BY <1>1, <1>2, <1>3, <1>4, <1>5, <1>6, <1>7, <1>8, <1>9, <1>10, <1>11, <1>12, <1>13, <1>14, <1>15, <1>16, <1>17, <1>18, <1>19, <1>20, <1>21, <1>22, <1>23, <1>24, <1>25
     DEF Next, SendStep, PollStep, TxDmaStep, StDmaStep

\* adi_msp_send_packet and adi_msp_status keep the driver state well formed:
\* in particular 0 <= tx_count <= NUM_TDS, for every sequence of statuses the
\* hardware may write, faulty ones included.
THEOREM TxTypeCorrect == Spec => []TypeOK
<1>1. TxInv => TypeOK
  BY DEF TxInv
<1> QED
  BY <1>1, TxInitInv, TxStepInv, PTL DEF Spec

-----------------------------------------------------------------------------
(***************************************************************************)
(* The ring.  TxInv and TxRingConsistent together are inductive: the poll  *)
(* frees the first slot in flight, the sender fills the first free one.    *)
(***************************************************************************)

\* Distances around the ring: their range, and distance 0.
LEMMA OffsetFacts ==
    /\ \A a \in Slots, i \in Slots : Offset(a, i) \in 0 .. NUM_TDS - 1
    /\ \A a \in Slots : Offset(a, a) = 0
    /\ \A a \in Slots, i \in Slots : Offset(a, i) = 0 => i = a
BY TxConstants DEF Offset, Slots

\* Moving the near end one slot on (tx_next_done) shortens the distance.
LEMMA OffsetFromNext ==
    \A a \in Slots, i \in Slots :
      Offset(SlotAfter(a), i) = IF i = a THEN NUM_TDS - 1 ELSE Offset(a, i) - 1
BY TxConstants DEF Offset, Slots, SlotAfter

\* Moving the far end one slot on (tx_chain_tail) lengthens it.
LEMMA OffsetToNext ==
    \A a \in Slots, i \in Slots :
      Offset(a, SlotAfter(i)) = IF Offset(a, i) = NUM_TDS - 1 THEN 0 ELSE Offset(a, i) + 1
BY TxConstants DEF Offset, Slots, SlotAfter

\* Two slots at the same distance are the same slot.
LEMMA OffsetInjective ==
    \A a \in Slots, i \in Slots, j \in Slots : Offset(a, i) = Offset(a, j) => i = j
BY TxConstants DEF Offset, Slots

\* Both ends of the frames in flight are slots.
LEMMA RingEnds ==
    ASSUME TypeOK
    PROVE  FirstInFlight \in Slots /\ NextFree \in Slots
BY SlotFacts DEF TypeOK, ChainType, FirstInFlight, NextFree

\* A step that moves none of the ends leaves the ring consistent.
LEMMA RingSame ==
    ASSUME TxRingConsistent, tx_reset' = tx_reset, UNCHANGED <<tx_skb, tx_count>>,
           FirstInFlight' = FirstInFlight, NextFree' = NextFree
    PROVE  TxRingConsistent'
BY DEF TxRingConsistent

\* adi_msp_send_packet fills the slot after the last frame in flight.
LEMMA RingFill ==
    ASSUME TxInv, TxRingConsistent, SendCommit
    PROVE  TxRingConsistent'
<1> DEFINE skb == [class |-> sndClass, tag |-> sndTag]
<1>1. /\ FirstInFlight' = FirstInFlight /\ FirstInFlight \in Slots
      /\ tx_chain_tail \in Slots /\ NextFree = tx_chain_tail
      /\ NextFree' = SlotAfter(tx_chain_tail)
  BY RingEnds DEF TxInv, TypeOK, ChainType, SendCommit, FirstInFlight, Completing, NextFree,
                  Chaining, plVars, chainVars
<1>2. tx_count \in Nat /\ tx_count < NUM_TDS /\ tx_count' = tx_count + 1
  BY TxConstants DEF TxInv, TypeOK, ChainType, SenderHolds, SendCommit
<1>3. skb # NoSkb
  BY DataFacts, TxConstants DEF TxInv, TypeOK, SendType, SenderHolds, SendCommit
<1>4. tx_skb \in [Slots -> Skb] /\ tx_skb' = [tx_skb EXCEPT ![tx_chain_tail] = skb]
  BY DEF TxInv, TypeOK, RingType, SendCommit
<1> HIDE DEF skb
<1>5. SUFFICES ASSUME ~tx_reset
      PROVE  /\ \A i \in Slots : tx_skb'[i] # NoSkb <=> Offset(FirstInFlight, i) < tx_count'
             /\ Offset(FirstInFlight, NextFree') = IF tx_count' = NUM_TDS THEN 0 ELSE tx_count'
  BY <1>1 DEF TxRingConsistent, SendCommit
<1>6. /\ \A i \in Slots : tx_skb[i] # NoSkb <=> Offset(FirstInFlight, i) < tx_count
      /\ Offset(FirstInFlight, tx_chain_tail) = tx_count
  BY <1>1, <1>2, <1>5 DEF TxRingConsistent
<1>7. ASSUME NEW i \in Slots
      PROVE  tx_skb'[i] # NoSkb <=> Offset(FirstInFlight, i) < tx_count'
  <2>1. CASE i = tx_chain_tail
    BY <1>2, <1>3, <1>4, <1>6, <2>1
  <2>2. CASE i # tx_chain_tail
    <3>1. tx_skb'[i] = tx_skb[i]
      BY <1>4, <2>2
    <3>2. Offset(FirstInFlight, i) # tx_count /\ Offset(FirstInFlight, i) \in Nat
      BY <1>1, <1>6, <2>2, OffsetInjective, OffsetFacts, TxConstants
    <3> QED
      BY <1>2, <1>6, <3>1, <3>2
  <2> QED
    BY <2>1, <2>2
<1>8. Offset(FirstInFlight, NextFree') = IF tx_count' = NUM_TDS THEN 0 ELSE tx_count'
  BY <1>1, <1>2, <1>6, OffsetToNext, TxConstants
<1> QED
  BY <1>7, <1>8

\* adi_msp_status frees the first slot in flight.
LEMMA RingFree ==
    ASSUME TxInv, TxRingConsistent, PollCheck, tx_reset' = FALSE, plPc' = "put"
    PROVE  TxRingConsistent'
<1> DEFINE idx == tx_next_done
<1>1. /\ idx \in Slots /\ FirstInFlight = idx /\ FirstInFlight' = SlotAfter(idx)
      /\ NextFree \in Slots /\ NextFree' = NextFree
  BY RingEnds DEF TxInv, TypeOK, ChainType, PollCheck, FirstInFlight, Completing, NextFree,
                  Chaining, sndVars, chainVars
<1>2. /\ tx_skb[idx] # NoSkb /\ tx_count' = tx_count - 1 /\ ~tx_reset
      /\ tx_skb' = [tx_skb EXCEPT ![idx] = NoSkb]
  BY DEF PollCheck, reset_tx, PollReturn
<1>3. tx_skb \in [Slots -> Skb] /\ tx_count \in 0 .. NUM_TDS
  BY DEF TxInv, TypeOK, RingType, ChainType
<1>4. /\ \A i \in Slots : tx_skb[i] # NoSkb <=> Offset(idx, i) < tx_count
      /\ Offset(idx, NextFree) = IF tx_count = NUM_TDS THEN 0 ELSE tx_count
  BY <1>1, <1>2 DEF TxRingConsistent
<1> HIDE DEF idx
<1>5. tx_count > 0
  BY <1>1, <1>2, <1>3, <1>4, OffsetFacts, TxConstants
<1>6. ASSUME NEW i \in Slots
      PROVE  tx_skb'[i] # NoSkb <=> Offset(SlotAfter(idx), i) < tx_count'
  <2>1. CASE i = idx
    BY <1>1, <1>2, <1>3, <2>1, OffsetFromNext, TxConstants
  <2>2. CASE i # idx
    <3>1. tx_skb'[i] = tx_skb[i]
      BY <1>2, <1>3, <2>2
    <3>2. Offset(SlotAfter(idx), i) = Offset(idx, i) - 1 /\ Offset(idx, i) \in Nat
      BY <1>1, <2>2, OffsetFromNext, OffsetFacts, TxConstants
    <3> QED
      BY <1>2, <1>3, <1>4, <3>1, <3>2, TxConstants
  <2> QED
    BY <2>1, <2>2
<1>7. Offset(SlotAfter(idx), NextFree) = IF tx_count' = NUM_TDS THEN 0 ELSE tx_count'
  <2>1. CASE tx_count = NUM_TDS
    BY <1>1, <1>2, <1>3, <1>4, <2>1, OffsetFacts, OffsetFromNext, TxConstants
  <2>2. CASE tx_count # NUM_TDS
    BY <1>1, <1>2, <1>3, <1>4, <1>5, <2>2, OffsetFacts, OffsetFromNext, TxConstants
  <2> QED
    BY <2>1, <2>2
<1> QED
  BY <1>1, <1>6, <1>7 DEF TxRingConsistent

\* Every step keeps the ring consistent.
LEMMA TxRingStep == TxInv /\ TxRingConsistent /\ [Next]_vars => TxRingConsistent'
<1> SUFFICES ASSUME TxInv, TxRingConsistent, [Next]_vars PROVE TxRingConsistent'
  OBVIOUS
<1> USE DEF drvVars, ringVars, tagVars, chainVars, sndVars, plVars, stVars, hwVars
<1> DEFINE ringSame == /\ tx_reset' = tx_reset /\ UNCHANGED <<tx_skb, tx_count>>
                       /\ FirstInFlight' = FirstInFlight /\ NextFree' = NextFree
\* The sender: only SendCommit and SendChain touch the ring or its ends.
<1>1. ASSUME NEW c \in Classes, SendPacket(c) PROVE ringSame
  BY <1>1 DEF SendPacket, FirstInFlight, Completing, NextFree, Chaining
<1>2. ASSUME SendCheck PROVE ringSame
  BY <1>2 DEF SendCheck, SendReturn, FirstInFlight, Completing, NextFree, Chaining
<1>3. ASSUME SendStopQueue PROVE ringSame
  BY <1>3 DEF SendStopQueue, FirstInFlight, Completing, NextFree, Chaining
<1>4. ASSUME SendMap PROVE ringSame
  BY <1>4 DEF SendMap, SendReturn, FirstInFlight, Completing, NextFree, Chaining
<1>5. ASSUME SendStat PROVE ringSame
  BY <1>5 DEF SendStat, FirstInFlight, Completing, NextFree, Chaining
<1>6. ASSUME SendChain PROVE ringSame
  BY <1>6 DEF SendChain, SendReturn, FirstInFlight, Completing, NextFree, Chaining
\* The poll: PollCheck frees a slot, RecycleAck advances tx_next_done.
<1>7. ASSUME StatusIrq PROVE ringSame
  BY <1>7 DEF StatusIrq, FirstInFlight, Completing, NextFree, Chaining
<1>8. ASSUME PollRead PROVE ringSame
  BY <1>8 DEF PollRead, FirstInFlight, Completing, NextFree, Chaining
<1>9. ASSUME PollCheck PROVE TxRingConsistent'
  <2>1. CASE StatusInProgress(tx_next_done)
    <3>1. ringSame
      BY <1>9, <2>1 DEF PollCheck, FirstInFlight, Completing, NextFree, Chaining
    <3> QED
      BY <3>1, RingSame
  <2>2. CASE tx_reset'
    BY <2>2 DEF TxRingConsistent
  <2>3. CASE plPc' = "put" /\ tx_reset' = tx_reset
    <3>1. CASE tx_reset
      BY <2>3, <3>1 DEF TxRingConsistent
    <3>2. CASE tx_reset = FALSE
      BY <1>9, <2>3, <3>2, RingFree
    <3> QED
      BY <3>1, <3>2 DEF TxInv, TypeOK, FlagType
  <2> QED
    BY <1>9, <2>1, <2>2, <2>3 DEF PollCheck, reset_tx
<1>10. ASSUME PollPut PROVE ringSame \/ tx_reset'
  BY <1>10 DEF PollPut, reset_tx, FirstInFlight, Completing, NextFree, Chaining
<1>11. ASSUME PollWakeCheck PROVE ringSame
  BY <1>11 DEF PollWakeCheck, FirstInFlight, Completing, NextFree, Chaining
<1>12. ASSUME PollWake PROVE ringSame
  BY <1>12 DEF PollWake, FirstInFlight, Completing, NextFree, Chaining
<1>13. ASSUME PollFinish PROVE ringSame \/ tx_reset'
  BY <1>13 DEF PollFinish, reset_tx, FirstInFlight, Completing, NextFree, Chaining
<1>14. ASSUME RecycleStop PROVE ringSame
  BY <1>14 DEF RecycleStop, ResetDescAndWu, FirstInFlight, Completing, NextFree, Chaining
<1>15. ASSUME RecycleLink PROVE ringSame
  BY <1>15 DEF RecycleLink, FirstInFlight, Completing, NextFree, Chaining
<1>16. ASSUME RecycleAck PROVE ringSame
  BY <1>16 DEF RecycleAck, FirstInFlight, Completing, NextFree, Chaining
<1>17. ASSUME PollRestart PROVE ringSame
  BY <1>17 DEF PollRestart, FirstInFlight, Completing, NextFree, Chaining
<1>18. ASSUME PollHalt PROVE ringSame
  BY <1>18 DEF PollHalt, PollReturn, FirstInFlight, Completing, NextFree, Chaining
\* The hardware does not touch the driver's bookkeeping.
<1>19. ASSUME TxDmaStep \/ StDmaStep PROVE ringSame
  BY <1>19 DEF TxDmaStep, TxDmaFetch, TxDmaXfer, StDmaStep, StFetch, StFirstBeat, StDone,
               FirstInFlight, Completing, NextFree, Chaining
<1>20. ASSUME UNCHANGED vars PROVE ringSame
  BY <1>20 DEF vars, FirstInFlight, Completing, NextFree, Chaining
<1>21. ASSUME SendCommit PROVE TxRingConsistent'
  BY <1>21, RingFill
<1>22. CASE tx_reset'
  BY <1>22 DEF TxRingConsistent
<1>23. CASE ringSame
  BY <1>23, RingSame
<1> HIDE DEF ringSame
<1> QED
  BY <1>1, <1>2, <1>3, <1>4, <1>5, <1>6, <1>7, <1>8, <1>9, <1>10, <1>11, <1>12, <1>13,
     <1>14, <1>15, <1>16, <1>17, <1>18, <1>19, <1>20, <1>21, <1>22, <1>23
     DEF Next, SendStep, PollStep

\* A Tx ring of any size is never overrun: as long as no status made the
\* driver give up (reset_tx), the slots between tx_next_done and
\* tx_chain_tail, and only those, hold the tx_count frames in flight, and the
\* slot adi_msp_send_packet fills next is free unless the ring is full.
THEOREM TxRingCorrect == Spec => []TxRingConsistent
<1>1. Init => TxRingConsistent
  <2> SUFFICES ASSUME Init PROVE TxRingConsistent
    OBVIOUS
  <2>1. /\ FirstInFlight = 0 /\ NextFree = 0 /\ tx_count = 0
        /\ \A i \in Slots : tx_skb[i] = NoSkb
    BY DEF Init, FirstInFlight, Completing, NextFree, Chaining
  <2> QED
    BY <2>1, OffsetFacts, SlotFacts, TxConstants DEF TxRingConsistent
<1> QED
  BY <1>1, TxInitInv, TxStepInv, TxRingStep, PTL DEF Spec
=============================================================================
