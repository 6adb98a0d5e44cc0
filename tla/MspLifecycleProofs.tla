------------------------ MODULE MspLifecycleProofs ------------------------
(***************************************************************************)
(* Theorems about MspLifecycle, for rings of every size and every budget.  *)
(***************************************************************************)
EXTENDS MspLifecycle, TLAPS

PcValues == {"down", "o_alloc", "o_irq", "o_fail", "o_status", "o_rx", "o_napi", "up",
             "c_irq", "c_dma", "c_napi_rx", "c_napi_status", "c_free"}

\* Where adi_msp_open and adi_msp_close hold the rings.
Unallocated == {"down", "o_alloc"}
Held == PcValues \ {"down", "o_alloc", "o_fail"}

LifeShape ==
    /\ pc \in PcValues
    /\ line \in [LineSet -> {"free", "on", "off"}]
    /\ napi \in [Chan -> {"off", "idle", "run", "halt"}]

RingsByPc ==
    /\ pc \in Held => rx_skb = Buffers /\ rx_map = Buffers
    /\ pc \in Unallocated => rx_skb = {} /\ rx_map = {}
    /\ pc = "down" => tx_skb = 0

\* A NAPI context is enabled only between napi_enable and napi_disable.
NapiByPc ==
    /\ napi["rx"] # "off" => pc \in {"o_napi", "up", "c_irq", "c_dma", "c_napi_rx"}
    /\ napi["status"] # "off" =>
         pc \in {"up", "c_irq", "c_dma", "c_napi_rx", "c_napi_status"}

LinesByPc ==
    pc \in {"down", "o_alloc", "o_fail"} => \A l \in LineSet : line[l] = "free"

LifeInv == LifeShape /\ RingsByPc /\ NapiByPc /\ LinesByPc

\* The initial state satisfies the invariant.
LEMMA LifeInvInit == LifeInit => LifeInv
  <1> SUFFICES ASSUME LifeInit PROVE LifeInv
    OBVIOUS
  <1>1. LifeShape
    BY DEF LifeInit, LifeShape, PcValues
  <1>2. RingsByPc /\ NapiByPc /\ LinesByPc
    BY DEF LifeInit, RingsByPc, NapiByPc, LinesByPc, Held, Unallocated, Chan
  <1> QED
    BY <1>1, <1>2 DEF LifeInv

\* A step of a poll, an interrupt, the sender or a DMA leaves the rings and
\* the lines alone, touches the frames sent only while the device is not down,
\* and moves only enabled NAPI contexts, to enabled states.
LEMMA LifeInvRunning ==
    ASSUME LifeInv, UNCHANGED <<pc, line, rx_skb, rx_map>>,
           UNCHANGED tx_skb \/ pc # "down",
           \/ UNCHANGED napi
           \/ \E c \in Chan, s \in {"idle", "run", "halt"} :
                napi[c] # "off" /\ napi' = [napi EXCEPT ![c] = s]
    PROVE  LifeInv'
  <1>1. LifeShape'
    BY DEF LifeInv, LifeShape
  <1>2. RingsByPc' /\ LinesByPc'
    BY DEF LifeInv, RingsByPc, LinesByPc
  <1>3. NapiByPc'
    BY DEF LifeInv, LifeShape, NapiByPc, Chan
  <1> QED
    BY <1>1, <1>2, <1>3 DEF LifeInv

\* A poll that returns leaves its context idle or running.
LEMMA PollReturnNapi ==
    ASSUME NEW c \in Chan, NEW n, PollReturn(c, n)
    PROVE  \E s \in {"idle", "run", "halt"} : napi' = [napi EXCEPT ![c] = s]
  <1>1. CASE n < Budget
    BY <1>1, Zenon DEF PollReturn
  <1>2. CASE ~(n < Budget)
    <2>1. CASE Disabling(c)
      BY <1>2, <2>1 DEF PollReturn
    <2>2. CASE ~Disabling(c)
      BY <1>2, <2>2 DEF PollReturn
    <2> QED BY <2>1, <2>2
  <1> QED BY <1>1, <1>2

\* Every step of adi_msp_open and adi_msp_close preserves the invariant.
LEMMA LifeInvOpenClose ==
    ASSUME LifeInv, OpenReset \/ OpenStep \/ CloseIface \/ CloseStep
    PROVE  LifeInv'
  <1> USE DEF LifeInv
  <1>1. CASE OpenReset
    BY <1>1 DEF OpenReset, LifeShape, RingsByPc, NapiByPc, LinesByPc, PcValues,
                Held, Unallocated, ringVars
  <1>2. CASE OpenAlloc
    BY <1>2 DEF OpenAlloc, LifeShape, RingsByPc, NapiByPc, LinesByPc, PcValues,
                Held, Unallocated
  <1>3. CASE OpenRequestIrq
    <2>1. PICK i \in 1 .. Len(Lines) :
            \/ /\ line' = [line EXCEPT ![Lines[i]] = "on"]
               /\ pc' = IF i = Len(Lines) THEN "o_status" ELSE "o_irq"
            \/ /\ line' = UnwindIrqs
               /\ pc' = "o_fail"
      BY <1>3 DEF OpenRequestIrq
    <2>2. pc = "o_irq" /\ UNCHANGED <<napi, rx_skb, rx_map>>
      BY <1>3 DEF OpenRequestIrq, ringVars
    <2>3. LifeShape'
      BY <2>1, <2>2 DEF LifeShape, PcValues, UnwindIrqs
    <2>4. RingsByPc' /\ NapiByPc'
      BY <2>1, <2>2 DEF RingsByPc, NapiByPc, Held, Unallocated, PcValues
    <2>5. LinesByPc'
      BY <2>1, <2>2 DEF LinesByPc, UnwindIrqs
    <2> QED BY <2>3, <2>4, <2>5
  <1>4. CASE OpenFail
    BY <1>4 DEF OpenFail, FreeRing, LifeShape, RingsByPc, NapiByPc, LinesByPc, PcValues,
                Held, Unallocated
  <1>5. CASE OpenStartStatus \/ OpenStartRx
    BY <1>5 DEF OpenStartStatus, OpenStartRx, LifeShape, RingsByPc, NapiByPc, LinesByPc,
                PcValues, Held, Unallocated, ringVars
  <1>6. CASE OpenNapiEnable
    <2>1. PICK c \in Chan : /\ napi' = [napi EXCEPT ![c] = "idle"]
                            /\ pc' = IF c = "rx" THEN "o_napi" ELSE "up"
      BY <1>6 DEF OpenNapiEnable, Chan
    <2>2. pc = "o_napi" /\ UNCHANGED <<line, rx_skb, rx_map>>
      BY <1>6 DEF OpenNapiEnable, ringVars
    <2>3. LifeShape' /\ NapiByPc'
      BY <2>1, <2>2 DEF LifeShape, NapiByPc, PcValues, Chan
    <2>4. RingsByPc' /\ LinesByPc'
      BY <2>1, <2>2 DEF RingsByPc, LinesByPc, Held, Unallocated, PcValues
    <2> QED BY <2>3, <2>4
  <1>7. CASE CloseIface \/ CloseDma
    BY <1>7 DEF CloseIface, CloseAfter, CloseDma, LifeShape, RingsByPc, NapiByPc, LinesByPc,
                PcValues, Held, Unallocated, ringVars
  <1>8. CASE CloseDisableIrq
    <2>1. PICK i \in 1 .. Len(Lines) :
            /\ line' = [line EXCEPT ![Lines[i]] = "off"]
            /\ pc' = IF i = Len(Lines) THEN "c_dma" ELSE "c_irq"
      BY <1>8 DEF CloseDisableIrq, CloseAfter
    <2>2. pc = "c_irq" /\ UNCHANGED <<napi, rx_skb, rx_map>>
      BY <1>8 DEF CloseDisableIrq, ringVars
    <2> QED
      BY <2>1, <2>2 DEF LifeShape, RingsByPc, NapiByPc, LinesByPc, PcValues, Held,
                        Unallocated
  <1>9. CASE \E c \in Chan : CloseNapi(c)
    <2>1. PICK c \in Chan : CloseNapi(c)
      BY <1>9
    <2>2. CASE c = "rx"
      BY <2>1, <2>2 DEF CloseNapi, CloseAfter, LifeShape, RingsByPc, NapiByPc, LinesByPc, PcValues,
                        Held, Unallocated, ringVars, Chan
    <2>3. CASE c = "status"
      BY <2>1, <2>3 DEF CloseNapi, CloseAfter, LifeShape, RingsByPc, NapiByPc, LinesByPc, PcValues,
                        Held, Unallocated, ringVars, Chan
    <2> QED BY <2>2, <2>3 DEF Chan
  <1>10. CASE CloseFree
    BY <1>10 DEF CloseFree, CloseAfter, FreeRing, LifeShape, RingsByPc, NapiByPc, LinesByPc, PcValues,
                 Held, Unallocated
  <1> QED
    BY <1>1, <1>2, <1>3, <1>4, <1>5, <1>6, <1>7, <1>8, <1>9, <1>10
       DEF OpenStep, CloseStep

\* Every step preserves the invariant.
LEMMA LifeInvNext == LifeInv /\ [LifeNext]_lifeVars => LifeInv'
  <1> SUFFICES ASSUME LifeInv, [LifeNext]_lifeVars PROVE LifeInv'
    OBVIOUS
  <1>1. CASE OpenReset \/ OpenStep \/ CloseIface \/ CloseStep
    BY <1>1, LifeInvOpenClose
  <1>2. CASE Send \/ HwStep \/ ChannelDma("rx")
    BY <1>2, LifeInvRunning DEF Send, HwStep, TxDma, ChannelDma, ringVars, txVars
  <1>3. ASSUME NEW c \in Chan, Irq(c) PROVE LifeInv'
    BY <1>3, LifeInvRunning DEF Irq, SchedulePrep, ringVars, txVars
  <1>4. ASSUME NEW c \in Chan, PollTake(c) PROVE LifeInv'
    <2>1. pc # "down"
      BY <1>4 DEF PollTake, LifeInv, NapiByPc, Chan
    <2> QED BY <1>4, <2>1, LifeInvRunning DEF PollTake, ringVars
  <1>5. ASSUME NEW c \in Chan, PollLoopEnd(c) PROVE LifeInv'
    BY <1>5, LifeInvRunning DEF PollLoopEnd, ringVars
  <1>6. ASSUME NEW c \in Chan, PollHalt(c) PROVE LifeInv'
    <2>1. napi[c] = "halt" /\ UNCHANGED <<pc, line, rx_skb, rx_map, tx_skb>>
      BY <1>6 DEF PollHalt, ringVars, txVars
    <2>2. \/ \E n : PollReturn(c, n)
          \/ napi' = [napi EXCEPT ![c] = "run"]
      BY <1>6, Zenon DEF PollHalt
    <2>3. \E s \in {"idle", "run", "halt"} : napi' = [napi EXCEPT ![c] = s]
      BY <2>2, PollReturnNapi
    <2> QED BY <2>1, <2>3, LifeInvRunning
  <1>7. CASE UNCHANGED lifeVars
    BY <1>7, LifeInvRunning DEF lifeVars, ringVars, txVars
  <1> QED
    BY <1>1, <1>2, <1>3, <1>4, <1>5, <1>6, <1>7 DEF LifeNext, PollStep

\* The invariant implies the two safety properties.
LEMMA LifeInvSuffices == LifeInv => PollsOnlyLiveRings /\ NothingLeftBehind
  <1> SUFFICES ASSUME LifeInv PROVE PollsOnlyLiveRings /\ NothingLeftBehind
    OBVIOUS
  <1>1. PollsOnlyLiveRings
    BY DEF LifeInv, PollsOnlyLiveRings, Polling, NapiByPc, RingsByPc, Held, PcValues, Chan
  <1>2. NothingLeftBehind
    BY DEF LifeInv, NothingLeftBehind, RingsByPc, LinesByPc, Unallocated
  <1> QED BY <1>1, <1>2

\* Whatever the ring size and the budget, adi_msp_rx_poll and
\* adi_msp_status_poll never run on rings that adi_msp_close has freed or
\* adi_msp_open has not yet allocated.
THEOREM LifePollsLiveRings == LifeSpec => []PollsOnlyLiveRings
  <1>1. LifeSpec => []LifeInv
    BY LifeInvInit, LifeInvNext, PTL DEF LifeSpec
  <1> QED BY <1>1, LifeInvSuffices, PTL

\* adi_msp_open, when it fails, and adi_msp_close give back all buffers,
\* mappings and interrupt lines.
THEOREM LifeNothingLeft == LifeSpec => []NothingLeftBehind
  <1>1. LifeSpec => []LifeInv
    BY LifeInvInit, LifeInvNext, PTL DEF LifeSpec
  <1> QED BY <1>1, LifeInvSuffices, PTL

-----------------------------------------------------------------------------
(***************************************************************************)
(* The counts: type correctness rests on the frames in flight being        *)
(* counted by tx_count, also while the device is opened and closed.        *)
(***************************************************************************)

\* LifeTypeOK in two parts: the state of the contexts, and the counts.
LifeModes ==
    /\ rx_skb \subseteq Buffers /\ rx_map \subseteq Buffers
    /\ int_en \in [Chan -> BOOLEAN]
    /\ dma \in [Engine -> BOOLEAN] /\ irqdone \in [Chan -> BOOLEAN]
    /\ iface \in [{"rx", "tx"} -> BOOLEAN]

LifeCounts ==
    /\ count \in [Chan -> 0 .. Budget]
    /\ work \in [Chan -> 0 .. N]
    /\ tx_count \in 0 .. N /\ tx_skb \in 0 .. N
    /\ chain \in 0 .. N /\ txrun \in 0 .. N /\ due \in 0 .. N

\* The Tx interface is on only while the rings are held.
IfaceByPc == iface["tx"] => pc \in {"o_rx", "o_napi", "up"}

\* Every frame in a chain, in the interface or reported is one of tx_count,
\* and each has its buffer.  Nothing is in flight when the rings are made.
InFlight ==
    /\ pc \in Held => chain + txrun + due + work["status"] <= tx_count /\ tx_skb = tx_count
    /\ pc = "o_alloc" => txrun = 0 /\ due = 0
    /\ pc \in Unallocated => tx_skb = 0

CountInv == LifeInv /\ LifeModes /\ LifeCounts /\ IfaceByPc /\ InFlight

LEMMA CountInvInit == LifeInit => CountInv
  <1> SUFFICES ASSUME LifeInit PROVE CountInv
    OBVIOUS
  <1>1. N \in Nat /\ Budget \in Nat
    BY LifecycleConstants
  <1>2. LifeModes
    BY DEF LifeInit, LifeModes
  <1>3. LifeCounts
    BY <1>1 DEF LifeInit, LifeCounts
  <1>4. IfaceByPc /\ InFlight
    BY DEF LifeInit, IfaceByPc, InFlight, Held, Unallocated
  <1> QED
    BY <1>2, <1>3, <1>4, LifeInvInit DEF CountInv

LEMMA ModesNext == LifeModes /\ [LifeNext]_lifeVars => LifeModes'
  <1> SUFFICES ASSUME LifeModes, [LifeNext]_lifeVars PROVE LifeModes'
    OBVIOUS
  <1> USE DEF LifeModes, hwVars, ringVars, txVars
  <1>1. CASE OpenReset
    BY <1>1 DEF OpenReset
  <1>2. CASE OpenAlloc
    BY <1>2 DEF OpenAlloc
  <1>3. CASE OpenRequestIrq
    BY <1>3 DEF OpenRequestIrq
  <1>4. CASE OpenFail \/ CloseFree
    BY <1>4 DEF OpenFail, CloseFree, FreeRing
  <1>5. CASE OpenStartStatus \/ OpenStartRx
    BY <1>5 DEF OpenStartStatus, OpenStartRx
  <1>6. CASE OpenNapiEnable
    BY <1>6 DEF OpenNapiEnable
  <1>7. CASE CloseIface \/ CloseDma
    BY <1>7 DEF CloseIface, CloseDma
  <1>8. CASE CloseDisableIrq
    BY <1>8 DEF CloseDisableIrq
  <1>9. ASSUME NEW c \in Chan, CloseNapi(c) PROVE LifeModes'
    BY <1>9 DEF CloseNapi
  <1>10. CASE Send
    BY <1>10 DEF Send
  <1>11. CASE TxDma
    <2>1. \A b \in BOOLEAN : [dma EXCEPT !["tx"] = b] \in [Engine -> BOOLEAN]
      OBVIOUS
    <2>2. (txrun > 1) \in BOOLEAN /\ dma' = [dma EXCEPT !["tx"] = (txrun > 1)]
      BY <1>11 DEF TxDma
    <2>3. dma' \in [Engine -> BOOLEAN]
      BY <2>1, <2>2, Zenon
    <2> QED
      BY <1>11, <2>3 DEF TxDma
  <1>12. ASSUME NEW c \in Chan, ChannelDma(c) PROVE LifeModes'
    <2>1. \A b \in BOOLEAN : [dma EXCEPT ![c] = b] \in [Engine -> BOOLEAN]
      OBVIOUS
    <2>2. (work[c] + 1 < N) \in BOOLEAN /\ dma' = [dma EXCEPT ![c] = (work[c] + 1 < N)]
      BY <1>12 DEF ChannelDma
    <2>3. dma' \in [Engine -> BOOLEAN]
      BY <2>1, <2>2, Zenon
    <2> QED
      BY <1>12, <2>3 DEF ChannelDma
  <1>13. ASSUME NEW c \in Chan, Irq(c) PROVE LifeModes'
    BY <1>13 DEF Irq
  <1>14. ASSUME NEW c \in Chan, PollTake(c) PROVE LifeModes'
    BY <1>14 DEF PollTake
  <1>15. ASSUME NEW c \in Chan, PollLoopEnd(c) PROVE LifeModes'
    BY <1>15 DEF PollLoopEnd
  <1>16. ASSUME NEW c \in Chan, PollHalt(c) PROVE LifeModes'
    BY <1>16 DEF PollHalt, PollReturn
  <1>17. CASE UNCHANGED lifeVars
    BY <1>17 DEF lifeVars
  <1> QED
    BY <1>1, <1>2, <1>3, <1>4, <1>5, <1>6, <1>7, <1>8, <1>9, <1>10, <1>11, <1>12, <1>13, <1>14,
       <1>15, <1>16, <1>17
       DEF LifeNext, OpenStep, CloseStep, HwStep, PollStep, Chan

\* A step of the open or close that leaves the counts alone and stays among
\* the places that hold the rings, or leaves them.
LEMMA CountsKept ==
    ASSUME CountInv, UNCHANGED <<count, work, tx_count, tx_skb, chain, txrun, due>>,
           pc' \in PcValues, pc' \in Held => pc \in Held, pc' \notin Unallocated,
           iface' = iface, iface["tx"] => pc' \in {"o_rx", "o_napi", "up"}
    PROVE  LifeCounts' /\ IfaceByPc' /\ InFlight'
  BY DEF CountInv, LifeCounts, IfaceByPc, InFlight, Unallocated

\* So does a step that keeps pc.
LEMMA CountsKeptHere ==
    ASSUME CountInv, UNCHANGED <<pc, iface, count, work, tx_count, tx_skb, chain, txrun, due>>
    PROVE  LifeCounts' /\ IfaceByPc' /\ InFlight'
  BY DEF CountInv, LifeCounts, IfaceByPc, InFlight

LEMMA CountsOpenClose ==
    ASSUME CountInv, OpenReset \/ OpenStep \/ CloseIface \/ CloseStep
    PROVE  LifeCounts' /\ IfaceByPc' /\ InFlight'
  <1> USE DEF hwVars, ringVars, txVars
  <1>0. N \in Nat /\ Budget \in Nat
    BY LifecycleConstants
  <1>1. CASE OpenReset
    BY <1>0, <1>1 DEF OpenReset, CountInv, LifeCounts, IfaceByPc, InFlight, Held, Unallocated
  <1>2. CASE OpenAlloc
    <2>1. /\ tx_count' = 0 /\ chain' = 0 /\ tx_skb' = tx_skb /\ txrun' = txrun /\ due' = due
          /\ pc = "o_alloc" /\ pc' \in {"o_irq", "o_fail"} /\ iface' = iface /\ count' = count
      BY <1>2 DEF OpenAlloc, ResetTxRing
    <2>2. tx_skb = 0 /\ txrun = 0 /\ due = 0
      BY <2>1 DEF CountInv, InFlight, Unallocated
    <2>3. IfaceByPc'
      BY <2>1 DEF CountInv, IfaceByPc
    <2>4. CASE pc' = "o_irq"
      <3>1. work' = [c \in Chan |-> 0]
        BY <1>2, <2>4 DEF OpenAlloc
      <3>2. LifeCounts'
        BY <1>0, <2>1, <2>2, <3>1 DEF CountInv, LifeCounts
      <3>3. work'["status"] = 0
        BY <3>1 DEF Chan
      <3> QED
        BY <2>1, <2>2, <2>3, <2>4, <3>2, <3>3 DEF InFlight, Held, Unallocated
    <2>5. CASE pc' = "o_fail"
      <3>1. work' = work
        BY <1>2, <2>5 DEF OpenAlloc
      <3>2. LifeCounts'
        BY <1>0, <2>1, <2>2, <3>1 DEF CountInv, LifeCounts
      <3> QED
        BY <2>1, <2>3, <2>5, <3>2 DEF InFlight, Held, Unallocated
    <2> QED
      BY <2>1, <2>4, <2>5
  <1>3. CASE OpenRequestIrq
    <2>1. /\ UNCHANGED <<count, work, tx_count, tx_skb, chain, txrun, due, iface>>
          /\ pc = "o_irq" /\ pc' \in {"o_irq", "o_status", "o_fail"}
      BY <1>3 DEF OpenRequestIrq
    <2>2. ~iface["tx"]
      BY <2>1 DEF CountInv, IfaceByPc
    <2> QED
      BY <2>1, <2>2, CountsKept DEF PcValues, Held, Unallocated
  <1>4. CASE OpenFail \/ CloseFree
    <2>1. /\ tx_skb' = 0 /\ UNCHANGED <<count, work, tx_count, chain, txrun, due, iface>>
          /\ pc \in {"o_fail", "c_free"} /\ pc' = "down"
      BY <1>4 DEF OpenFail, CloseFree, FreeRing, CloseAfter
    <2> QED
      BY <1>0, <2>1 DEF CountInv, LifeCounts, IfaceByPc, InFlight, Held, Unallocated
  <1>5. CASE OpenStartStatus \/ OpenStartRx
    <2>1. /\ UNCHANGED <<count, work, tx_count, tx_skb, chain, txrun, due>>
          /\ pc \in {"o_status", "o_rx"} /\ pc' \in {"o_rx", "o_napi"}
      BY <1>5 DEF OpenStartStatus, OpenStartRx
    <2>2. IfaceByPc'
      BY <2>1 DEF IfaceByPc
    <2> QED
      BY <2>1, <2>2 DEF CountInv, LifeCounts, InFlight, Held, Unallocated, PcValues
  <1>6. CASE OpenNapiEnable
    <2>1. /\ UNCHANGED <<count, work, tx_count, tx_skb, chain, txrun, due, iface>>
          /\ pc = "o_napi" /\ pc' \in {"o_napi", "up"}
      BY <1>6 DEF OpenNapiEnable
    <2> QED
      BY <2>1, CountsKept DEF PcValues, Held, Unallocated
  <1>7. CASE CloseIface
    <2>1. /\ UNCHANGED <<count, work, tx_count, tx_skb, chain, txrun>>
          /\ pc = "up" /\ pc' = "c_irq" /\ due' = 0 /\ ~iface'["tx"]
      BY <1>7 DEF CloseIface, CloseAfter
    <2>2. LifeCounts' /\ IfaceByPc'
      BY <1>0, <2>1 DEF CountInv, LifeCounts, IfaceByPc
    <2>3. /\ chain \in Nat /\ txrun \in Nat /\ due \in Nat /\ work["status"] \in Nat
          /\ tx_count \in Nat
      BY DEF CountInv, LifeCounts, Chan
    <2>4. chain + txrun + due + work["status"] <= tx_count /\ tx_skb = tx_count
      BY <2>1 DEF CountInv, InFlight, Held, PcValues
    <2>5. chain + txrun + 0 + work["status"] <= tx_count
      BY <2>3, <2>4
    <2> QED
      BY <2>1, <2>2, <2>4, <2>5 DEF InFlight, Unallocated
  <1>8. CASE CloseDma
    <2>1. /\ UNCHANGED <<count, work, tx_count, tx_skb, chain, due, iface>>
          /\ pc = "c_dma" /\ pc' = "c_napi_rx" /\ txrun' = 0
      BY <1>8 DEF CloseDma, CloseAfter
    <2>2. LifeCounts' /\ IfaceByPc'
      BY <1>0, <2>1 DEF CountInv, LifeCounts, IfaceByPc
    <2>3. /\ chain \in Nat /\ txrun \in Nat /\ due \in Nat /\ work["status"] \in Nat
          /\ tx_count \in Nat
      BY DEF CountInv, LifeCounts, Chan
    <2>4. chain + txrun + due + work["status"] <= tx_count /\ tx_skb = tx_count
      BY <2>1 DEF CountInv, InFlight, Held, PcValues
    <2>5. chain + 0 + due + work["status"] <= tx_count
      BY <2>3, <2>4
    <2> QED
      BY <2>1, <2>2, <2>4, <2>5 DEF InFlight, Unallocated
  <1>9. CASE CloseDisableIrq \/ \E c \in Chan : CloseNapi(c)
    <2>1. /\ UNCHANGED <<count, work, tx_count, tx_skb, chain, txrun, due, iface>>
          /\ pc \in {"c_irq", "c_napi_rx", "c_napi_status"}
          /\ pc' \in {"c_irq", "c_dma", "c_napi_status", "c_free"}
      BY <1>9 DEF CloseDisableIrq, CloseNapi, CloseAfter
    <2>2. ~iface["tx"]
      BY <2>1 DEF CountInv, IfaceByPc
    <2> QED
      BY <2>1, <2>2, CountsKept DEF PcValues, Held, Unallocated
  <1> QED
    BY <1>1, <1>2, <1>3, <1>4, <1>5, <1>6, <1>7, <1>8, <1>9 DEF OpenStep, CloseStep

LEMMA CountsRunning ==
    ASSUME CountInv, Send \/ HwStep \/ ChannelDma("rx") \/ \E c \in Chan : Irq(c) \/ PollStep(c)
    PROVE  LifeCounts' /\ IfaceByPc' /\ InFlight'
  <1> USE DEF hwVars, ringVars, txVars
  <1>0. N \in Nat /\ Budget \in Nat \ {0}
    BY LifecycleConstants
  <1>1. /\ chain \in 0 .. N /\ txrun \in 0 .. N /\ due \in 0 .. N /\ work["status"] \in 0 .. N
        /\ tx_count \in 0 .. N /\ tx_skb \in 0 .. N
        /\ count \in [Chan -> 0 .. Budget] /\ work \in [Chan -> 0 .. N]
    BY DEF CountInv, LifeCounts, Chan
  <1>2. CASE Send
    <2>1. /\ pc = "up" /\ tx_count < N /\ tx_count' = tx_count + 1 /\ tx_skb' = tx_skb + 1
          /\ UNCHANGED <<pc, iface, count, work, due>>
          /\ \/ chain' = chain + 1 /\ txrun' = txrun
             \/ chain' = 0 /\ txrun' = chain + 1
      BY <1>2 DEF Send
    <2>2. chain + txrun + due + work["status"] <= tx_count /\ tx_skb = tx_count
      BY <2>1 DEF CountInv, InFlight, Held, PcValues
    <2>3. /\ chain' + txrun' + due + work["status"] <= tx_count + 1
          /\ chain' \in 0 .. N /\ txrun' \in 0 .. N /\ tx_count + 1 \in 0 .. N
      BY <1>0, <1>1, <2>1, <2>2
    <2>4. LifeCounts'
      BY <1>1, <2>1, <2>2, <2>3 DEF LifeCounts
    <2>5. IfaceByPc'
      BY <2>1 DEF IfaceByPc
    <2> QED
      BY <2>1, <2>2, <2>3, <2>4, <2>5 DEF InFlight, Unallocated
  <1>3. CASE TxDma
    <2>1. /\ iface["tx"] /\ txrun > 0 /\ txrun' = txrun - 1 /\ due' = due + 1
          /\ UNCHANGED <<pc, iface, count, work, tx_count, tx_skb, chain>>
      BY <1>3 DEF TxDma
    <2>2. pc \in {"o_rx", "o_napi", "up"}
      BY <2>1 DEF CountInv, IfaceByPc
    <2>3. chain + txrun + due + work["status"] <= tx_count /\ tx_skb = tx_count
      BY <2>2 DEF CountInv, InFlight, Held, PcValues
    <2>4. /\ chain + txrun' + due' + work["status"] <= tx_count
          /\ txrun' \in 0 .. N /\ due' \in 0 .. N
      BY <1>0, <1>1, <2>1, <2>3
    <2>5. LifeCounts'
      BY <1>1, <2>1, <2>4 DEF LifeCounts
    <2> QED
      BY <2>1, <2>2, <2>3, <2>4, <2>5 DEF CountInv, IfaceByPc, InFlight, Unallocated
  <1>4. CASE ChannelDma("status")
    <2>1. /\ work["status"] < N /\ due > 0 /\ due' = due - 1
          /\ work' = [work EXCEPT !["status"] = @ + 1]
          /\ UNCHANGED <<pc, iface, count, tx_count, tx_skb, chain, txrun>>
      BY <1>4 DEF ChannelDma
    <2>2. work'["status"] = work["status"] + 1
      BY <1>1, <2>1 DEF Chan
    <2>3. due' \in 0 .. N /\ work' \in [Chan -> 0 .. N]
      BY <1>0, <1>1, <2>1 DEF Chan
    <2>4. chain + txrun + due + work["status"] <= tx_count
            => chain + txrun + due' + work'["status"] <= tx_count
      BY <1>1, <2>1, <2>2
    <2>5. LifeCounts'
      BY <1>1, <2>1, <2>3 DEF LifeCounts
    <2>6. due # 0
      BY <1>1, <2>1
    <2> QED
      BY <2>1, <2>4, <2>5, <2>6 DEF CountInv, IfaceByPc, InFlight
  <1>5. CASE ChannelDma("rx")
    <2>1. /\ work["rx"] < N /\ work' = [work EXCEPT !["rx"] = @ + 1]
          /\ UNCHANGED <<pc, iface, count, tx_count, tx_skb, chain, txrun, due>>
      BY <1>5 DEF ChannelDma
    <2>2. work'["status"] = work["status"] /\ work' \in [Chan -> 0 .. N]
      BY <1>0, <1>1, <2>1 DEF Chan
    <2> QED
      BY <1>1, <2>1, <2>2 DEF CountInv, LifeCounts, IfaceByPc, InFlight
  <1>6. ASSUME NEW c \in Chan, Irq(c) PROVE LifeCounts' /\ IfaceByPc' /\ InFlight'
    BY <1>6, CountsKeptHere DEF Irq
  <1>7. ASSUME NEW c \in Chan, PollTake(c) PROVE LifeCounts' /\ IfaceByPc' /\ InFlight'
    <2>1. /\ napi[c] = "run" /\ count[c] < Budget /\ work[c] > 0
          /\ work' = [work EXCEPT ![c] = @ - 1] /\ count' = [count EXCEPT ![c] = @ + 1]
          /\ UNCHANGED <<pc, iface, chain, txrun, due>>
          /\ IF c = "status" THEN tx_count' = tx_count - 1 /\ tx_skb' = tx_skb - 1
                             ELSE UNCHANGED <<tx_count, tx_skb>>
      BY <1>7 DEF PollTake
    <2>2. pc \in Held
      BY <2>1 DEF CountInv, LifeInv, NapiByPc, Chan, Held, PcValues
    <2>3. chain + txrun + due + work["status"] <= tx_count /\ tx_skb = tx_count
      BY <2>2 DEF CountInv, InFlight
    <2>4. count' \in [Chan -> 0 .. Budget] /\ work' \in [Chan -> 0 .. N]
      BY <1>0, <1>1, <2>1
    <2>5. IfaceByPc'
      BY <2>1 DEF CountInv, IfaceByPc
    <2>6. CASE c = "status"
      <3>1. work'["status"] = work["status"] - 1 /\ work["status"] > 0
        BY <1>1, <2>1, <2>6
      <3>2. tx_count' = tx_count - 1 /\ tx_skb' = tx_skb - 1
        BY <2>1, <2>6
      <3>3. /\ chain + txrun + due + work'["status"] <= tx_count'
            /\ tx_count' \in 0 .. N /\ tx_skb' = tx_count'
        BY <1>0, <1>1, <2>3, <3>1, <3>2
      <3>4. LifeCounts'
        BY <1>1, <2>1, <2>4, <3>3 DEF LifeCounts
      <3> QED
        BY <2>1, <2>2, <2>5, <3>3, <3>4 DEF InFlight, Unallocated, Held
    <2>7. CASE c # "status"
      <3>1. work'["status"] = work["status"] /\ tx_count' = tx_count /\ tx_skb' = tx_skb
        BY <1>1, <2>1, <2>7 DEF Chan
      <3>2. LifeCounts'
        BY <1>1, <2>1, <2>4, <3>1 DEF LifeCounts
      <3> QED
        BY <2>1, <2>3, <2>2, <2>5, <3>1, <3>2 DEF InFlight, Unallocated, Held
    <2> QED
      BY <2>6, <2>7
  <1>8. ASSUME NEW c \in Chan, PollLoopEnd(c) PROVE LifeCounts' /\ IfaceByPc' /\ InFlight'
    <2>1. /\ napi[c] = "run" /\ UNCHANGED <<pc, iface, count, work, due, tx_count, tx_skb>>
          /\ \/ txrun' = chain /\ chain' = 0
             \/ UNCHANGED <<txrun, chain>>
      BY <1>8 DEF PollLoopEnd
    <2>2. pc \in Held
      BY <2>1 DEF CountInv, LifeInv, NapiByPc, Chan, Held, PcValues
    <2>3. chain + txrun + due + work["status"] <= tx_count /\ tx_skb = tx_count
      BY <2>2 DEF CountInv, InFlight
    <2>4. /\ chain' + txrun' + due + work["status"] <= tx_count
          /\ chain' \in 0 .. N /\ txrun' \in 0 .. N
      BY <1>0, <1>1, <2>1, <2>3
    <2>5. LifeCounts'
      BY <1>1, <2>1, <2>4 DEF LifeCounts
    <2> QED
      BY <2>1, <2>2, <2>3, <2>4, <2>5 DEF CountInv, IfaceByPc, InFlight, Unallocated, Held
  <1>9. ASSUME NEW c \in Chan, PollHalt(c) PROVE LifeCounts' /\ IfaceByPc' /\ InFlight'
    <2>1. UNCHANGED <<pc, iface, work, due, txrun, tx_count, tx_skb, chain>>
      BY <1>9 DEF PollHalt
    <2>2. count' = [count EXCEPT ![c] = 0] \/ count' = count
      BY <1>9 DEF PollHalt, PollReturn
    <2>3. count' \in [Chan -> 0 .. Budget]
      BY <1>0, <1>1, <2>2
    <2> QED
      BY <1>1, <2>1, <2>3 DEF CountInv, LifeCounts, IfaceByPc, InFlight
  <1> QED
    BY <1>2, <1>3, <1>4, <1>5, <1>6, <1>7, <1>8, <1>9 DEF HwStep, PollStep

LEMMA CountInvNext == CountInv /\ [LifeNext]_lifeVars => CountInv'
  <1> SUFFICES ASSUME CountInv, [LifeNext]_lifeVars PROVE CountInv'
    OBVIOUS
  <1>1. LifeInv' /\ LifeModes'
    BY LifeInvNext, ModesNext DEF CountInv
  <1>2. LifeCounts' /\ IfaceByPc' /\ InFlight'
    <2>1. CASE UNCHANGED lifeVars
      BY <2>1, CountsKeptHere DEF lifeVars, hwVars, txVars
    <2>2. CASE OpenReset \/ OpenStep \/ CloseIface \/ CloseStep
      BY <2>2, CountsOpenClose
    <2>3. CASE Send \/ HwStep \/ ChannelDma("rx") \/ \E c \in Chan : Irq(c) \/ PollStep(c)
      BY <2>3, CountsRunning
    <2> QED
      BY <2>1, <2>2, <2>3 DEF LifeNext
  <1> QED
    BY <1>1, <1>2 DEF CountInv

\* Type correctness for every ring size and budget.  What it says is that
\* the counts of the transmit ring never run below zero or over the ring,
\* across opening, closing, a close with frames in flight and the next open.
THEOREM LifeTypes == LifeSpec => []LifeTypeOK
  <1>1. CountInv => LifeTypeOK
    BY DEF CountInv, LifeInv, LifeShape, PcValues, LifeModes, LifeCounts, LifeTypeOK
  <1>2. LifeSpec => []CountInv
    BY CountInvInit, CountInvNext, PTL DEF LifeSpec
  <1> QED
    BY <1>1, <1>2, PTL
=============================================================================
