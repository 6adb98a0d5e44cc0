--------------------------- MODULE MspLifecycle ---------------------------
(***************************************************************************)
(* Opening and closing the MSP Ethernet device (adi_msp_open and           *)
(* adi_msp_close of adi-msp.c) while the interrupts, the two NAPI polls    *)
(* and the DMA engines run.  The data paths are reduced to counts: MspTx   *)
(* and MspRx have their detail.                                            *)
(***************************************************************************)
EXTENDS Naturals, Sequences, FiniteSets

CONSTANTS
    N,               \* slots of each ring
    Budget,          \* work one poll may do
    OpenMayFail      \* allocations, maps and request_irq may fail

ASSUME LifecycleConstants ==
    /\ N \in Nat \ {0}
    /\ Budget \in Nat \ {0}
    /\ OpenMayFail \in BOOLEAN

Chan   == {"rx", "status"}           \* DMAs with an interrupt and a NAPI context
Engine == {"rx", "status", "tx"}
Buffers == 0 .. N - 1

\* The interrupt lines in the order of request_irq and disable_irq.  The
\* lines of the channels are named after them; the other three report errors.
Lines == <<"rx", "rx_err", "tx_err", "status", "status_err">>
LineSet == {Lines[i] : i \in 1 .. Len(Lines)}

VARIABLES
    pc,              \* position in adi_msp_open or adi_msp_close
    line,            \* interrupt lines: "free", "on", "off" (disable_irq)
    rx_skb, rx_map,  \* slots of the Rx ring with a buffer, with a mapped one
    int_en,          \* MSP_INT_CTRL_DMADONE of the channel
    napi,            \* NAPI context, and the position in its poll
    count,           \* work done by the poll
    dma,             \* engine runs
    irqdone,         \* DMA_STAT_IRQDONE of the channel
    iface,           \* MSP Rx and Tx interfaces enabled (MSP_EN)
    work,            \* entries the DMA has completed and the poll not taken
    tx_count,        \* frames in flight
    tx_skb,          \* slots of the Tx ring with a mapped frame
    chain, txrun,    \* of the frames: in the chain being built, in the running one
    due              \* of these: transmitted, status not yet written

hwVars   == <<dma, irqdone, iface, due, txrun>>
ringVars == <<rx_skb, rx_map>>
txVars   == <<tx_count, tx_skb, chain>>
lifeVars == <<pc, line, int_en, napi, count, work, hwVars, ringVars, txVars>>

\* After adi_msp_probe.
LifeInit ==
    /\ pc = "down"
    /\ line = [l \in LineSet |-> "free"]
    /\ rx_skb = {} /\ rx_map = {}
    /\ int_en = [c \in Chan |-> TRUE]
    /\ napi = [c \in Chan |-> "off"] /\ count = [c \in Chan |-> 0]
    /\ dma = [e \in Engine |-> FALSE]
    /\ irqdone = [c \in Chan |-> FALSE]
    /\ iface = [d \in {"rx", "tx"} |-> FALSE]
    /\ work = [c \in Chan |-> 0]
    /\ tx_count = 0 /\ tx_skb = 0 /\ chain = 0 /\ txrun = 0 /\ due = 0

-----------------------------------------------------------------------------
(***************************************************************************)
(* adi_msp_open.                                                           *)
(***************************************************************************)

\* adi_msp_free_ring
FreeRing == rx_skb' = {} /\ rx_map' = {} /\ tx_skb' = 0 /\ UNCHANGED <<tx_count, chain>>

\* "Make sure MSP Tx and Rx interfaces are disabled", "Make sure DMAs are
\* disabled".
OpenReset ==
    /\ pc = "down"
    /\ iface' = [d \in {"rx", "tx"} |-> FALSE]
    /\ dma' = [e \in Engine |-> FALSE]
    /\ txrun' = 0 /\ due' = 0
    /\ pc' = "o_alloc"
    /\ UNCHANGED <<line, int_en, napi, count, work, irqdone, ringVars, txVars>>

ResetTxCount == tx_count' = 0 /\ UNCHANGED chain

\* The transmit ring is empty again.
ResetTxRing == tx_count' = 0 /\ chain' = 0

\* adi_msp_alloc_ring.  If slot i has no memory, or its buffer cannot be
\* mapped, open frees what it has got.
OpenAlloc ==
    /\ pc = "o_alloc"
    /\ \/ /\ rx_skb' = Buffers /\ rx_map' = Buffers
          /\ work' = [c \in Chan |-> 0]
          /\ pc' = "o_irq"
       \/ /\ OpenMayFail
          /\ \E i \in Buffers, skb \in BOOLEAN :
               /\ rx_skb' = {j \in Buffers : j < i \/ (j = i /\ skb)}
               /\ rx_map' = {j \in Buffers : j < i}
          /\ pc' = "o_fail"
          /\ UNCHANGED work
    /\ ResetTxRing
    /\ UNCHANGED <<line, int_en, napi, count, hwVars, tx_skb>>

UnwindNothing == [l \in LineSet |-> line[l]]

\* The err_free_irq_* labels: the lines requested so far.
UnwindIrqs == [l \in LineSet |-> "free"]

\* The five calls of request_irq, in order.
OpenRequestIrq ==
    /\ pc = "o_irq"
    /\ \E i \in 1 .. Len(Lines) :
         /\ line[Lines[i]] = "free"
         /\ \A j \in 1 .. i - 1 : line[Lines[j]] # "free"
         /\ \/ /\ line' = [line EXCEPT ![Lines[i]] = "on"]
               /\ pc' = IF i = Len(Lines) THEN "o_status" ELSE "o_irq"
            \/ /\ OpenMayFail
               /\ line' = UnwindIrqs
               /\ pc' = "o_fail"
    /\ UNCHANGED <<int_en, napi, count, work, hwVars, ringVars, txVars>>

\* The error paths end with adi_msp_free_ring and return an error.
OpenFail ==
    /\ pc = "o_fail"
    /\ FreeRing
    /\ pc' = "down"
    /\ UNCHANGED <<line, int_en, napi, count, work, hwVars>>

\* Start the status DMA and the MSP Tx interface, ...
OpenStartStatus ==
    /\ pc = "o_status"
    /\ dma' = [dma EXCEPT !["status"] = TRUE]
    /\ iface' = [iface EXCEPT !["tx"] = TRUE]
    /\ pc' = "o_rx"
    /\ UNCHANGED <<line, int_en, napi, count, work, irqdone, due, txrun, ringVars, txVars>>

\* ... the Rx DMA and the MSP Rx interface, ...
OpenStartRx ==
    /\ pc = "o_rx"
    /\ dma' = [dma EXCEPT !["rx"] = TRUE]
    /\ iface' = [iface EXCEPT !["rx"] = TRUE]
    /\ pc' = "o_napi"
    /\ UNCHANGED <<line, int_en, napi, count, work, irqdone, due, txrun, ringVars, txVars>>

\* ... and only then enable the NAPI contexts, Rx first, and the queue.
OpenNapiEnable ==
    /\ pc = "o_napi"
    /\ LET c == IF napi["rx"] = "off" THEN "rx" ELSE "status" IN
         /\ napi' = [napi EXCEPT ![c] = "idle"]
         /\ pc' = IF c = "rx" THEN "o_napi" ELSE "up"
    /\ UNCHANGED <<line, int_en, count, work, hwVars, ringVars, txVars>>

-----------------------------------------------------------------------------
(***************************************************************************)
(* adi_msp_close.  The network core has stopped the queue and waited for   *)
(* adi_msp_send_packet to return.                                          *)
(***************************************************************************)

CloseFreesFirst ==
    [up |-> "c_irq", c_irq |-> "c_dma", c_dma |-> "c_free", c_free |-> "c_napi_rx",
     c_napi_rx |-> "c_napi_status", c_napi_status |-> "down"]

\* The order of its steps.
CloseAfter ==
    [up |-> "c_irq", c_irq |-> "c_dma", c_dma |-> "c_napi_rx", c_napi_rx |-> "c_napi_status",
     c_napi_status |-> "c_free", c_free |-> "down"]

\* Disable the interfaces; what they hold is lost.
CloseIface ==
    /\ pc = "up"
    /\ iface' = [d \in {"rx", "tx"} |-> FALSE]
    /\ due' = 0
    /\ pc' = CloseAfter[pc]
    /\ UNCHANGED <<line, int_en, napi, count, work, dma, irqdone, txrun, ringVars, txVars>>

\* disable_irq of the five lines, in order.
CloseDisableIrq ==
    /\ pc = "c_irq"
    /\ \E i \in 1 .. Len(Lines) :
         /\ line[Lines[i]] = "on"
         /\ \A j \in 1 .. i - 1 : line[Lines[j]] = "off"
         /\ line' = [line EXCEPT ![Lines[i]] = "off"]
         /\ pc' = IF i = Len(Lines) THEN CloseAfter[pc] ELSE pc
    /\ UNCHANGED <<int_en, napi, count, work, hwVars, ringVars, txVars>>

\* "Disable DMAs"
CloseDma ==
    /\ pc = "c_dma"
    /\ dma' = [e \in Engine |-> FALSE]
    /\ txrun' = 0
    /\ pc' = CloseAfter[pc]
    /\ UNCHANGED <<line, int_en, napi, count, work, irqdone, iface, due, ringVars, txVars>>

\* napi_disable returns when the context is neither scheduled nor polled.
NapiQuiet(c) == napi[c] = "idle"

CloseNapi(c) ==
    /\ pc = IF c = "rx" THEN "c_napi_rx" ELSE "c_napi_status"
    /\ NapiQuiet(c)
    /\ napi' = [napi EXCEPT ![c] = "off"]
    /\ pc' = CloseAfter[pc]
    /\ UNCHANGED <<line, int_en, count, work, hwVars, ringVars, txVars>>

\* adi_msp_free_ring, prev_rx_skb, and the five calls of free_irq.
CloseFree ==
    /\ pc = "c_free"
    /\ FreeRing
    /\ line' = [l \in LineSet |-> "free"]
    /\ pc' = CloseAfter[pc]
    /\ UNCHANGED <<int_en, napi, count, work, hwVars>>

-----------------------------------------------------------------------------
(***************************************************************************)
(* Interrupts, polls and the sender.                                       *)
(***************************************************************************)

\* napi_disable is waiting: the core takes the context off its list even if
\* the poll used its budget, and nobody can schedule it.
Disabling(c) == pc = IF c = "rx" THEN "c_napi_rx" ELSE "c_napi_status"

\* napi_schedule_prep
SchedulePrep(c) == napi[c] = "idle" /\ ~Disabling(c)

\* The DMA done interrupt of a channel.  When the context cannot be scheduled
\* the handler does nothing, and the level triggered interrupt fires again.
Irq(c) ==
    /\ line[c] = "on" /\ irqdone[c] /\ int_en[c]
    /\ SchedulePrep(c)
    /\ int_en' = [int_en EXCEPT ![c] = FALSE]
    /\ napi' = [napi EXCEPT ![c] = "run"]
    /\ UNCHANGED <<pc, line, count, work, hwVars, ringVars, txVars>>

\* Take one completed entry.
PollTake(c) ==
    /\ napi[c] = "run" /\ count[c] < Budget /\ work[c] > 0
    /\ work' = [work EXCEPT ![c] = @ - 1]
    /\ count' = [count EXCEPT ![c] = @ + 1]
    /\ irqdone' = [irqdone EXCEPT ![c] = FALSE]
    /\ IF c = "status" THEN tx_count' = tx_count - 1 /\ tx_skb' = tx_skb - 1
                       ELSE UNCHANGED <<tx_count, tx_skb>>
    /\ UNCHANGED <<pc, line, int_en, napi, dma, iface, due, txrun, ringVars, chain>>

\* After the loop; the status poll first restarts a halted Tx DMA.
PollLoopEnd(c) ==
    /\ napi[c] = "run" /\ (count[c] = Budget \/ work[c] = 0)
    /\ napi' = [napi EXCEPT ![c] = "halt"]
    /\ IF c = "status" /\ ~dma["tx"] /\ chain > 0
       THEN /\ dma' = [dma EXCEPT !["tx"] = TRUE]
            /\ txrun' = chain /\ chain' = 0
       ELSE UNCHANGED <<dma, txrun, chain>>
    /\ UNCHANGED <<pc, line, int_en, count, work, irqdone, iface, due, ringVars, tx_count, tx_skb>>

PollReturnKept(c, done) ==
    /\ UNCHANGED napi
    /\ int_en' = IF done < Budget THEN [int_en EXCEPT ![c] = TRUE] ELSE int_en
    /\ count' = [count EXCEPT ![c] = 0]

\* The end of a poll that did the given work.  Below the budget it completes
\* and enables the interrupt.  With the budget used up it is polled again,
\* or taken off the list by a waiting napi_disable.
PollReturn(c, done) ==
    /\ IF done < Budget
       THEN napi' = [napi EXCEPT ![c] = "idle"] /\ int_en' = [int_en EXCEPT ![c] = TRUE]
       ELSE /\ napi' = [napi EXCEPT ![c] = IF Disabling(c) THEN "idle" ELSE "run"]
            /\ UNCHANGED int_en
    /\ count' = [count EXCEPT ![c] = 0]

AllDoneAssumed(c) == TRUE

\* Byte 0 of the next entry is zero.
AllDone(c) == work[c] = 0

\* A halted DMA whose work is done is restarted; otherwise the rest of the
\* budget is used.
PollHalt(c) ==
    /\ napi[c] = "halt"
    /\ IF dma[c]
       THEN PollReturn(c, count[c]) /\ UNCHANGED <<dma, irqdone>>
       ELSE IF AllDone(c)
       THEN /\ irqdone' = [irqdone EXCEPT ![c] = FALSE]
            /\ dma' = [dma EXCEPT ![c] = TRUE]
            /\ PollReturn(c, IF count[c] < Budget THEN count[c] ELSE Budget - 1)
       ELSE IF count[c] < Budget
       THEN /\ napi' = [napi EXCEPT ![c] = "run"]
            /\ UNCHANGED <<int_en, count, dma, irqdone>>
       ELSE PollReturn(c, count[c]) /\ UNCHANGED <<dma, irqdone>>
    /\ UNCHANGED <<pc, line, work, iface, due, txrun, ringVars, txVars>>

\* adi_msp_send_packet: start the Tx DMA, or extend the chain.
Send ==
    /\ pc = "up" /\ tx_count < N
    /\ tx_count' = tx_count + 1 /\ tx_skb' = tx_skb + 1
    /\ IF dma["tx"]
       THEN chain' = chain + 1 /\ UNCHANGED <<dma, txrun>>
       ELSE /\ dma' = [dma EXCEPT !["tx"] = TRUE]
            /\ txrun' = chain + 1 /\ chain' = 0
    /\ UNCHANGED <<pc, line, int_en, napi, count, work, irqdone, iface, due, ringVars>>

-----------------------------------------------------------------------------
(***************************************************************************)
(* The hardware, as the driver relies on it.                               *)
(***************************************************************************)

\* The Tx DMA passes a frame to the interface and halts after the last one.
TxDma ==
    /\ dma["tx"] /\ txrun > 0 /\ iface["tx"]
    /\ txrun' = txrun - 1
    /\ due' = due + 1
    /\ dma' = [dma EXCEPT !["tx"] = (txrun > 1)]
    /\ UNCHANGED <<pc, line, int_en, napi, count, work, irqdone, iface, ringVars, txVars>>

\* A channel's DMA completes an entry and halts at the end of the ring.
ChannelDma(c) ==
    /\ dma[c] /\ work[c] < N
    /\ IF c = "rx" THEN iface["rx"] /\ UNCHANGED due
                   ELSE due > 0 /\ due' = due - 1
    /\ work' = [work EXCEPT ![c] = @ + 1]
    /\ irqdone' = [irqdone EXCEPT ![c] = TRUE]
    /\ dma' = [dma EXCEPT ![c] = (work[c] + 1 < N)]
    /\ UNCHANGED <<pc, line, int_en, napi, count, iface, txrun, ringVars, txVars>>

-----------------------------------------------------------------------------
OpenStep == \/ OpenAlloc \/ OpenRequestIrq \/ OpenFail \/ OpenStartStatus
            \/ OpenStartRx \/ OpenNapiEnable
CloseStep == \/ CloseDisableIrq \/ CloseDma \/ (\E c \in Chan : CloseNapi(c))
             \/ CloseFree
PollStep(c) == PollTake(c) \/ PollLoopEnd(c) \/ PollHalt(c)
HwStep == TxDma \/ ChannelDma("status")

LifeNext ==
    \/ OpenReset \/ OpenStep \/ CloseIface \/ CloseStep
    \/ Send \/ HwStep \/ ChannelDma("rx")
    \/ \E c \in Chan : Irq(c) \/ PollStep(c)

\* A started open or close goes on, an enabled interrupt is delivered, a
\* scheduled poll runs and the DMA finishes what it started.  Nothing opens
\* or closes the device, sends, or makes frames arrive.
LifeFairness ==
    /\ WF_lifeVars(OpenStep) /\ WF_lifeVars(CloseStep) /\ WF_lifeVars(HwStep)
    /\ \A c \in Chan : WF_lifeVars(Irq(c)) /\ WF_lifeVars(PollStep(c))

LifeSpec     == LifeInit /\ [][LifeNext]_lifeVars
LifeFairSpec == LifeSpec /\ LifeFairness

-----------------------------------------------------------------------------
(***************************************************************************)
(* Properties.                                                             *)
(***************************************************************************)

Polling(c) == napi[c] \in {"run", "halt"}

LifeTypeOK ==
    /\ pc \in {"down", "o_alloc", "o_irq", "o_fail", "o_status", "o_rx", "o_napi", "up",
               "c_irq", "c_dma", "c_napi_rx", "c_napi_status", "c_free"}
    /\ line \in [LineSet -> {"free", "on", "off"}]
    /\ rx_skb \subseteq Buffers /\ rx_map \subseteq Buffers
    /\ int_en \in [Chan -> BOOLEAN]
    /\ napi \in [Chan -> {"off", "idle", "run", "halt"}]
    /\ count \in [Chan -> 0 .. Budget]
    /\ dma \in [Engine -> BOOLEAN] /\ irqdone \in [Chan -> BOOLEAN]
    /\ iface \in [{"rx", "tx"} -> BOOLEAN]
    /\ work \in [Chan -> 0 .. N]
    /\ tx_count \in 0 .. N /\ tx_skb \in 0 .. N /\ chain \in 0 .. N /\ txrun \in 0 .. N /\ due \in 0 .. N

\* A poll runs only while the rings exist: adi_msp_close frees them after the
\* last poll has ended, also if it started before disable_irq, used up its
\* budget or restarted the DMA, and adi_msp_open allocates them before the
\* first one can start.
PollsOnlyLiveRings ==
    \A c \in Chan : Polling(c) => rx_skb = Buffers /\ rx_map = Buffers

\* However adi_msp_open fails, and after adi_msp_close, no buffer is left
\* allocated or mapped and no interrupt line is left requested.
NothingLeftBehind ==
    pc = "down" => /\ rx_skb = {} /\ rx_map = {} /\ tx_skb = 0
                   /\ \A l \in LineSet : line[l] = "free"

\* adi_msp_close returns: both calls of napi_disable see the poll end.
CloseReturns == (pc = "c_irq") ~> (pc = "down")

\* The interrupt of the channel is masked and no poll will unmask it.
Masked(c) == ~int_en[c] /\ napi[c] = "idle"

\* No interrupt is lost: while the device is up, completed entries are polled,
\* also those that were completed before the NAPI context was enabled or
\* while a poll was ending.
EntriesPolled ==
    \A c \in Chan : (pc = "up" /\ work[c] > 0 /\ ~Masked(c)) ~> (Polling(c) \/ pc # "up")

\* "Disable DMAs": from then on until it returns, adi_msp_close has the DMA
\* engines disabled.
DmasStayDisabled ==
    pc \in {"c_napi_rx", "c_napi_status", "c_free"} => \A e \in Engine : ~dma[e]
=============================================================================
