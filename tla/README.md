# TLA+ models of the ADI O-RAN BSP drivers

`meta-adi-oran-bsp` is a Yocto layer. Its own logic is in three Linux drivers
under `src/intel-fpga/recipes-kernel/linux-socfpga/files/`; the rest is build
metadata, device trees and images. This directory models the drivers, checks
the models with TLC and proves the central invariants with TLAPS.

## Inventory

| Component | State | Operations | What is hard | What makes it correct |
|---|---|---|---|---|
| MSP transmit path (`adi-msp.c`) | `tx_skb[]`, Tx descriptor ring and chain, status ring and status work units, frame tags, `tx_count`, queue state | `adi_msp_send_packet`, status interrupt, `adi_msp_status_poll` | sender, poll and two DMA engines run at once; `lp->lock` covers only part of the poll; tags and slots run out | frames leave once and in order, no slot is overwritten, nothing is left behind by a halted DMA, every frame completes, a stopped queue wakes |
| MSP receive path (`adi-msp.c`) | `rx_skb[]`, Rx descriptor ring, `prev_rx_skb[]` | Rx interrupt, `adi_msp_rx_poll` | the ring is recycled under a running DMA; a halted DMA must be restarted at the right moment; lost or garbled work units; no memory | good frames go up once and in order, nothing received is overwritten, no buffer is written after it was passed on, no array overflow |
| MSP lifecycle (`adi-msp.c`) | rings, NAPI contexts, interrupt lines, DMA enables | `adi_msp_open`, `adi_msp_close` | close races with polls; state left over from the previous session | DMA never runs on freed rings, a reopened device works |
| PTP time of day (`ptp_adi.c`) | TOD registers and trigger, seconds / nanoseconds / fractions | gettime, settime, adjtime, probe | trigger and poll protocol with timeout, carries, 32-bit overflow | reads are consistent, adjustments add up, waits end |
| PTP clock control (`ptp_adi_clk.c`) | tuning clock, the frequency read from it (`hw_clk->freq`: centre + offset) | `adi_phc_clk_probe` (makes the auxiliary NCO the parent of the PLL behind `sys_clk`), `adjfine` | runs beside the rest of the chip's probe and beside a chip that switches by itself; error paths | the parent recorded is the one in effect, the frequency asked for is the one set, adjustments are not biased |
| AD9545 (`clk-ad9545.c`) | buffered and live registers, profiles and parents of two PLLs, NCOs, TDCs, references, outputs, `clks[]` | `ad9545_probe` (parse, set up or read the set-up, register, publish, post setup), `set_parent`, rates, phases, NCO tuning | thirty stages that may fail; consumers arrive before the post setup; one `io_update` commits what others have written; roundings and narrow types | a published provider is complete, all that was written takes effect, a rate set is the one announced, the probe ends |

The sender and the poll of the transmit path share `tx_skb[]`, the tag counts,
`tx_count`, the queue state and, under `lp->lock`, the chain and the Tx DMA
registers. Transmit and receive paths share nothing but the device. The PTP
clock index is handed to the network driver at probe time.

## Modules

| Module | What it is |
|---|---|
| `MspTx` | the transmit path: sender, interrupt, poll, Tx DMA, status DMA |
| `TxFifo` | what the transmit path promises: a bounded FIFO with unique tags |
| `MspTxRefinement` | the mapping under which `MspTx` implements `TxFifo` |
| `MspTxProofs` | theorems about `MspTx`: types and the ring of frames |
| `MspTxFlowProofs` | theorems about `MspTx`: the status ring, what the DMA works on, tags, and that it implements `TxFifo` |
| `MspRx` | the receive path: interrupt, poll, Rx DMA, the wire |
| `RxFifo` | what the receive path promises: a FIFO of the good frames |
| `MspRxRefinement` | the mapping under which `MspRx` implements `RxFifo` |
| `MspRxProofs` | theorems about `MspRx`: types, the ring, and that it implements `RxFifo` |
| `MspLifecycle` | open and close against interrupts, polls, sender and DMA engines |
| `MspLifecycleProofs` | theorems about `MspLifecycle` |
| `MspTxReopen` | `MspTx` with a device that is closed and opened again |
| `PtpTstamp` | the timestamp arithmetic of the ToD driver, as operators |
| `PtpTstampSteps` | a timestamp under any sequence of these operations |
| `PtpTod` | reading, setting and adjusting the time of day |
| `PtpTstampProofs` | theorems about the timestamp arithmetic |
| `PtpTodProofs` | theorems about `PtpTod` |
| `Ad9545` | the AD9545 and what its driver keeps: registers, choice of a profile, PLL operations |
| `Ad9545Probe` | `ad9545_probe`, a stage at a time |
| `PhcClock` | composes the AD9545, its probe, and the PTP driver that uses it |
| `MCPhcClock` | device trees and EEPROM contents for TLC |
| `PhcClockProofs` | theorems about `PhcClock` |
| `Ad9545Rates` | rates, phases and frequency adjustments: the arithmetic |
| `Ad9545RatesProofs` | theorems about that arithmetic |
| `PtpParts` | `PtpTod`, `PtpTstampSteps` and `Ad9545Rates` side by side |

The transmit and receive paths share no state. `MspLifecycle` puts both under
one device and reduces them to counts: their product with the detailed models
would be out of TLC's reach and add no interaction, since they meet only in
open and close. `MspTxReopen` goes the other way and adds the effect of close
and open to the detailed transmit path.

### How the transmit model corresponds to the code

An action is the code between two points at which another CPU or a DMA engine
can see or change shared state. `sndPc` is the position in
`adi_msp_send_packet`: `check` (length, ring and tag tests), `stop`
(`netif_stop_queue`), `map` (headroom, header, `dma_map_single`), `commit`
(tag, `tx_count`, slot and descriptor), `stat` (read of the DMA state), `chain`
(the four cases of halted or running DMA, empty or filled chain). `lp->lock` is
held exactly while `sndPc # "idle"`, so `PollRestart` waits for it. `plPc` is
the position in `adi_msp_status`, from the read of byte 0 to the restart of the
halted status DMA. Both DMA engines latch a descriptor when they fetch it,
which is what makes the order of descriptor writes matter. A status work unit
is written in two steps (byte 0 and tag, then the timestamp).

The several `atomic_read`s of the sender's checks are one step: until the
sender commits, `tx_count` can only fall and the tag counts only rise, and a
frame is accepted or dropped on the values of one moment. The two register
reads of the "not done yet" test are one step as well: if the DMA is in the
work unit at the first read, `DSCPTR_PRV` was not its descriptor then, so the
pair of reads always decides as one atomic read at the first or at the second
moment would.

Abstracted: lengths, padding and alignment, the content of frames (an skb is
its class and tag), statistics, messages. A status with the error bit and a
good one differ only in statistics. A faulty status (`Faults`) may have a wrong
type, tag, PTP bit or the error bit.

### How the receive model corresponds to the code

`rxPc` is the position in `adi_msp_rx`. `RxTake` is everything between the
allocation of the new buffer and the end of the classification: it touches only
memory the DMA does not look at. `rx_skb_dma[i]` alternates between two buffer
addresses, which is enough to tell the current buffer from the previous one. A
work unit is reduced to the class of its first byte and a payload; a frame
passed up is the payload of its data work unit and that of the status its
length and timestamp come from, so that mixing two frames is visible.
`DATA_WU_PER_FRAME` is 1, as in the code with an MTU of 1500. `RxFaults` lets
the interface lose work units or garble headers. With `Coherent = FALSE` the
second read of byte 0, which has no `dma_sync_single_for_cpu`, may give the
zero that the loop cached.

### How the lifecycle model corresponds to the code

`pc` is the position in `adi_msp_open` (`o_...`) or `adi_msp_close` (`c_...`),
with a step for every call or group of register writes that another actor can
see. The two channels with a DMA done interrupt and a NAPI context are `rx` and
`status`; a poll is reduced to its control: take entries up to the budget,
restart a halted Tx DMA (status poll), restart the channel's halted DMA, loop,
complete or be polled again. `work` counts the completed entries, `tx_skb` the
occupied Tx slots. `napi_disable` (external) refuses new scheduling, takes the
context off the list when a poll used up its budget, and returns when no poll is
left. `adi_msp_free_ring` does not reset `tx_count`; `adi_msp_alloc_ring` does.

### How the time-of-day model corresponds to the code

Time is a variable and advances by `Tick`; the other actions take no time. A
step of the driver may be `MaxLat` ticks late. `pc` is the position in
`_tod_hw_settstamp`/`_tod_hw_gettstamp`: `gc` (read the golden counter and set
the value to trigger at), `arm`, `delay` (`mdelay`, `udelay`), `poll` (read the
status), `late` (look at the time), `clear`, `ret`. `adjtime` goes through it
twice. The counter, the golden counter and the PPS output, which
`adi_tod_module_init` connects to the PPS input, are external. `age` and `ref`
only serve the properties: how long the call has taken, and the time a perfect
call would have led to. `TOD_TIMEOUT_RATIO` is `1 \div 20`, as in C.

### How the clock models correspond to the code

`Ad9545Probe` steps through `Stages`, the calls of `ad9545_probe` and of the
functions it calls, in their order: `ParseStages` or nothing, then
`SetupStages` or, with auto-init, `ReadStages`, then `PostStages`. `pos` is the
stage. A stage is one action: until the provider is published nobody else
reaches the chip, and after that the stages are cut where they read and write
(`post_read`, `post_write`). A stage that fails releases the device's
resources (`Fail`); the registers it may have written until then are left out.
`AccessError` lets any stage fail, except where the code forgets the result.

Registers are buffered (`buf`) and in effect (`live`). `Stage` writes the
former; `Commit` is a write that ends with `ad9545_io_update`, which puts
everything buffered into effect. Kept are the profiles (enabled, source), the
assigned profile of a PLL and the centre and offset frequencies of the NCOs,
whose sum an NCO runs at (`NcoFreq`); all other registers are groups that have or have not been written (`conf`). The chip (`HwSelect`,
`HwHold`, `HwSource`) makes any enabled profile with a valid source active, an
assigned one first, and falls into holdover at any time.

`ppc` is the position in `adi_ptp_probe`, from the deferred `devm_clk_get` to
`ptp_clock_register`, or what became of it: `up` and `adj` (adjfine between its
write and its update), `removed`, `error`, and the outcomes under Findings:
`orphan`, `gone`, `oops`. `clk_set_parent` runs under the prepare lock, which
the clean-up of a failed probe takes too, so `ProbeThread` does not fail during
`poll`. Nothing else excludes the two drivers.

`PtpGetTuning` reads centre and offset (`ad9545_get_nco_freq`, 3643-3660) in one
step: a reading that mixes values from before and after the post setup gives
another `hw_freq`, which no property compares with the registers. `AdjFine`
writes the centre alone (3687). `asked` is history: the frequency that adjfine
has written last, or that the post setup has set from
`adi,set-aux-nco-frequencies` (with an offset of 0), whichever came later.

`Ad9545Rates` has the functions behind `clk_set_rate`, `clk_set_phase` and
adjfine as operators over scaled widths. `SetRate` is what the framework does
with them: round, set the rounded rate, read back. In adjfine the result of
`mul_u64_u64_shr` is an unbounded number: its truncation to 64 bits is not
modelled. A frequency is below 2^56, so up to 256 ppm nothing is cut off; the
board has `adi,max-adj = <131072>` (131 ppm), but the binding
(`ptp-adi.yaml:34`) allows up to 1000000000, where `AdjfineRounds` and its
theorem would not apply.

The hardware (DMA engines, MSP interfaces, AD9545) is external: it is modelled from the
way the driver uses its registers and descriptors.

## Runs

| Run | Bounds | Shows |
|---|---|---|
| `tx_faults` | 2 slots, both classes, 1 PTP and 2 other tags, maps may fail, all faults | counters in range, ring consistent, tags conserved, DMA ownership, status ring never overwritten, timestamps complete |
| `tx_fifo` | 3 slots, one class, 3 tags, budget 2, maps may fail | `MspTx` implements `TxFifo`; no frame forgotten, no unexplained status |
| `tx_live` | 2 slots, one class, fair | `MspTx` implements fair `TxFifo`; a stopped queue wakes |
| `tx_reopen` | 2 slots, one class | **violated**: `StatusOfThisSession`, see below |
| `rx_ring` | 2 slots, array of 3, 2 payloads, up to 2 data work units, all faults, allocations may fail | `MspRx` implements `RxFifo`; no overflow of `prev_rx_skb[]`, nothing overwritten, buffers owned, only complete work units taken |
| `rx_live` | 3 slots, 2 payloads, garbled headers, fair | `MspRx` implements fair `RxFifo`; a halted DMA restarts |
| `rx_stale` | 2 slots, `Coherent = FALSE` | **violated**: `RxNotOverwritten`, see below |
| `life` | 2 slots, budget 1, open may fail anywhere, fair | polls only see live rings, nothing is left behind, close returns, no interrupt is lost |
| `close_dma` | 2 slots | **violated**: `DmasStayDisabled`, see below |
| `ptp` | part `tod`: second of 9 ticks, 4 seconds, both triggers, GC delay 3, steps of up to 2 ticks, fair; part `tstamp`: the same second, nanosecond of 4 fractions, deltas of over two seconds; part `rates`: `u8` of 8 values, `u16` and `u32` of 16, a hertz of 4 units, circle of 12 degrees, parent rates up to 20, rates up to 21 | fresh reads, sets take effect, adjustments add up, calls return; normal form, sums and rounding; rates as announced, phases read back, adjfine to the nearest |
| `clk` | 2 references, 3 profiles a PLL, 28 device trees and EEPROM contents, every access may fail, 2 polls, NCO frequencies up to 2, offset 0 or 1, fair | provider complete when published, parents recorded are in effect, nothing stays buffered, the NCO runs at what was asked plus the offset left by the EEPROM, both probes end |
| `tod_timeout` | second of 20 ticks, steps of up to 2 ticks | **violated**: `NoSpuriousTimeout`, see below |

Two slots suffice for every order of two neighbouring descriptors and for ring
wrap-around. With three a frame is chained behind a running one while the poll
completes a third, and the DMA is ahead of the poll by more than one slot; that
the ring invariants hold for every size is proved. `Budget` is 1 or 2 so that
the budget is used up, and used up exactly when the DMA halts. Fewer tags than
slots make the tags the bottleneck. An array of three with frames of two data
work units and lost statuses reaches the "too many work units" case. Two
payloads are enough to see a lost, repeated or reordered frame: some behaviour
gives the frames involved different payloads.

With a second of a few ticks every phase of the call against the PPS edge
occurs; all that matters of the real size of a second is that it is longer than
the driver needs from a trigger to arming the next operation (9 ticks against
at most 8 in `ptp`). The wrap-around of the seconds is longer than the longest
call, so that times modulo it can be compared. The adjustments of the
part `tod` stay below a second, because of the dropped seconds below; larger
ones are in the part `tstamp`.

The parts of `ptp` share no variables: `part` says which one moves, and the
run is the union of three state spaces. The widths of `Ad9545Rates` are small
so that every divider is truncated, clamped and left alone for some rate, and
that there are more input edges than a register counts; the theorems hold for
the real ones.

In `clk` three profiles are enough for an enabled profile behind a disabled one
(parent index and profile number differ), a free one to add, and none left. Two
polls are one that goes on and one that gives up. The EEPROM sets a centre
frequency of 1 and an offset of 0 or 1, the device tree may ask for 2, and
adjfine adds 0 or 1 to what was read: it finds an offset left, cleared or never
set, and a sum that does not fit into the centre register. Each faulty tree has one fault; what several
faults do is decided by the first.

`tx_faults` and `tx_fifo` do not check for deadlock: after `reset_tx`, or with
failing maps (below), the system really stops. So does `clk`: with a failed
probe there is nothing left to do. `tx_reopen` asks for one violation only.

### Fairness

Weak fairness of the sender's code, of the polls, of interrupt delivery and of
the DMA engines: code that runs keeps running, a level-triggered interrupt that
is enabled and asserted is delivered, NAPI polls what is scheduled, hardware
finishes what it started. Strong fairness of `PollRestart`, which takes
`lp->lock`: the lock is released again and again, and the ticket lock of the
kernel does not starve a waiter. Nothing makes the stack send or frames arrive.

In `life` a started open or close goes on; nobody has to call them. In
the part `tod` of `ptp` time passes and the driver, which runs with interrupts
disabled, goes on; nobody has to call it. In `clk` the two probes run in kernel
threads that go on (`ProbeThread`, `PtpThread`), and a call of adjfine that was
made is finished; nobody has to call it, and no reference has to become valid,
no PLL to lock and no profile to become active.

## Findings

- `rx_stale`: the restart decision at `adi-msp.c:1493` reads a streaming DMA
  buffer without syncing it for the CPU. The device tree does not make the
  device coherent, so the stale zero of the loop can be read and the DMA is
  restarted on a descriptor that was completed but not taken. All other receive
  runs and the ring theorems assume that this read sees memory.
- `close_dma`: `adi_msp_close` disables the DMAs (2464) before `napi_disable`.
  A poll under way takes the DMA for halted and starts it again: the run shows
  a DMA enabled after the comment's "Disable DMAs". Nothing between there and
  `adi_msp_free_ring` disables it once more.
- `tx_reopen`: only `adi_msp_probe` clears the status work units (2830). The
  first slot is safe after the next open: no poll runs before the status DMA
  has written it anew. A status that close left unpolled in the second slot is
  not: the poll that handles the first frame goes on to it, and while the
  status DMA has not come to that work unit `ADDR_CUR` is elsewhere, so that
  the "not done yet" test lets the old status pass. Type and tag fit as well,
  since tags start anew, and the skb of the second frame is unmapped and freed
  before its own status is there: in the trace, before it is sent.
- `tod_timeout`: `TOD_TIMEOUT_RATIO` is `(1 / 20)` (`ptp_adi.c:36`), that is 0,
  so the PPS timeout has no margin: the driver may report `-ETIMEDOUT` for an
  operation that was carried out at the edge it waited for.
- Without a statement in the repository to compare with, recorded as hazards
  only: `_tod_adjtime` does not add the seconds of a delta when its nanoseconds
  carry (`SecondsDropped` in `PtpTstampSteps`); with the GC trigger there is no
  timeout at all; a poll that used up its budget while being disabled leaves
  its interrupt masked for good (`Masked` in `MspLifecycle`); a queue stopped by a
  frame that is then dropped for lack of memory is never woken when nothing
  else is in flight; a failed buffer allocation can leave a received frame in
  the ring until the next one arrives. `reset_tx` (`adi-msp.c:1870`) only logs,
  as its TODO says: after a status the driver cannot explain the frames in
  flight stay there.
- The same for the clocks. `ad9545_pll_set_parent` writes `DPLLX_MODE(0)` and
  reads `PLLX_OPERATION(0)` for both PLLs (`clk-ad9545.c:2612`, `2622`): with
  the system clock on PLL1 (`SysClk = 6`, `DeviceTrees <- MCOnPll1`) TLC finds
  `ParentIsSource` violated. It also takes the active profile of a PLL in
  holdover for a successful switch. `ad9545_plls_post_setup` dereferences
  `pll->st` of a PLL that no node describes (4711; `drv = "oops"`), and returns
  without an error, leaving PLL1 alone, when PLL0 has no active frequency.
  `ad9545_set_r_div` refuses a divider of 0, so a set-up without auto-init
  needs all references in the tree. An invalid zero-delay path ends the parsing
  of a PLL's profiles without an error (803-810), and the profile is used with
  the source it was zeroed to. In the read set-up a late error ends
  `ad9545_input_refs_read_setup` with 0. `adi_ptp_probe` registers the clock
  although `adi_phc_clk_probe` failed, and then returns that error (`orphan`);
  a tuning clock that is not used is NULL and is dereferenced (`oops`); when
  the chip's probe fails after the provider was published, the PTP driver keeps
  using the freed clocks (`gone`). `hw_clk->freq` is read once, perhaps before
  the post setup changes it. It is centre plus offset, while adjfine writes the
  centre alone (3657, 3687; the comment at `ptp_adi_clk.c:215` takes it for the
  centre frequency): with an offset from the EEPROM and no frequency in the
  device tree the NCO runs at what was asked plus the offset, `LeftOffset` in
  `AllInEffect`, and even an adjustment of 0 shifts it. `clamp_t(u8, ...)` and `clamp_t(u16, ...)`
  truncate first (4064, 3826); bit 32 of a phase is never cleared and is lost
  when it is read (1461-1462). The example of the binding
  (`clk-ad9545.yaml`) has no zero-delay path in its profiles, which the parser
  requires (794-801).

## Proofs

For every value of the constants that satisfies `TxConstants`, `RxConstants`,
`LifecycleConstants`, `TstampConstants`, `StepConstants`, `TodConstants`,
`ChipConstants`, `TreeFreqs` and `RateConstants`. All invariants that a passing
run checks are theorems; where a theorem has a further assumption it is named
here.

Transmit path (`MspTxProofs`, `MspTxFlowProofs`):

- `TxTypeCorrect`: `Spec => []TypeOK`. `TypeOK` is not inductive: that
  `tx_count` stays below the ring size needs what the sender has established
  before it commits (`SenderHolds`), that it does not become negative needs
  that every occupied slot is counted (`OccupiedCounted`, a cardinality), and
  the budget needs `PollHolds`. The invariant is `TxInv`.
- `TxRingCorrect`: `Spec => []TxRingConsistent`. On top of `TxInv`: the poll
  frees the first slot in flight (`RingFree`) and the sender fills the first
  free one (`RingFill`); all else moves no end of the ring.
- `TxStatusNotOverwritten`, `TxTimestampComplete`: the status ring, which
  survives even `reset_tx`. `StInv` orders the work units by age from the first
  one not cleared: the written ones are a prefix, the DMA is right behind it,
  `DSCPTR_PRV` is its youngest complete member, and the descriptor before the
  first uncleared one stops the DMA.
- `TxDmaOwnership`, `TxNoFrameForgotten`: the frames in flight, counted from
  the oldest. `Flow(r, q, e)` says that the first `r` have a status, those up
  to `q` are inside the interface (in that order), those up to `e` are in the
  chain the Tx DMA works on, and the rest in the chain from `tx_chain_head` on;
  the descriptors not yet sent lead from each to the next, up to the end of
  their chain. `FlowInv` is that such a split exists. Each action moves one
  frame over one of the borders (`FlowCommit`, `FlowChained`, `FlowXfer`,
  `FlowBeat`, `FlowTake`, ...) or none (`LookingKeeps`).
- `TxTagsConserved`: by class, the tags that are out are consecutive, in the
  order of the frames, from the one `put_frame_tag` expects to the one before
  `next_tag` (`TagOrder`). With faulty statuses it needs that a tag which
  `put_frame_tag` accepts is that of the frame taken (`AcceptedReport`).
- `TxNeverReset`, for `Faults \subseteq {"err"}`: the status in a work unit is
  a report of the frame in its slot (`ReportsMatch`), and its tag the expected
  one, so that `reset_tx` is not reached.
- `TxImplementsFifo`, for the same faults: `Spec => ImplementsFifo`. `FifoView`
  expresses the refinement mapping by the flow: the frames up to `q` are
  `sent`, the others `waiting`. `SendCommit` is `Accept` (the tag is new by
  `TagOrder`), `TxDmaXfer` is `Transmit`, the `PollCheck` that takes a frame is
  `Complete`, and all else is invisible (`FifoStep`).

Receive path (`MspRxProofs`):

- `RxTypeCorrect`: `RxSpec => []RxTypeOK`, including the bound on
  `prev_rx_skb[]`, by cases on the work unit taken (`SortTypes`).
- `RxNothingOverwritten`, `RxBuffersOwned`, `RxOnlyComplete`: with `Coherent`,
  the three safety properties of the receive ring. The inductive invariant
  `RxRingInv` orders the slots by age from the oldest untaken one: the complete
  work units are a prefix (`FilledInOrder`), the DMA is right behind it,
  `DSCPTR_PRV` is its youngest member or the slot taken last
  (`PrevIsYoungest`), the slot before the oldest stops the DMA (`StopsAtLast`),
  and descriptor addresses are those of the mapped buffers except for the slot
  being put back (`AddressesMatch`). Each action has its lemma.
- `RxImplementsFifo`, with `Coherent`: `RxSpec => ImplementsRxFifo`. On top of
  `RxRingInv`, `RxLineInv` says how many the complete work units are
  (`AreOldest`) and that the driver holds a start and its follow-up data
  (`HeldInOrder`). A step leaves the line of work units as it is, adds one at
  its end or takes the oldest out of the ring (`LineSteps`). A new work unit
  completes at most one frame, the last (`FramesGrow`): `Receive`. The work unit
  taken shortens the line by what the driver drops, which is no frame
  (`FramesKept`) or exactly the first one, and that one is passed up
  (`FirstFrameLeaves`): `Deliver`; `SortFrames` goes through the four kinds of
  header. The frames of a line are numbered by the rank of their starts
  (`Nth`), so that the mapping needs no recursion; `NthWithLast`,
  `NthWithoutFirst` and `NthShifted` are what the proof needs of it.

Lifecycle (`MspLifecycleProofs`):

- `LifePollsLiveRings`, `LifeNothingLeft`: `LifeInv` says by the position in
  open or close which rings are held (`RingsByPc`), which NAPI contexts are
  enabled (`NapiByPc`) and which lines are free (`LinesByPc`); polls,
  interrupts, sender and DMA move only enabled contexts (`LifeInvRunning`).
- `LifeTypes`: the counts stay in the ring because the frames in the chain, in
  the Tx DMA, without a status and with an unpolled one add up to the occupied
  slots (`CountInv`), also across close and reopen.

Time of day (`PtpTstampProofs`, `PtpTodProofs`):

- `TstampNormal`, `TstampAddsUp`, `TstampRounds`: the timestamp arithmetic, for
  every radix and delta (the last with an even number of fractions, as 2^16
  is). `DelayExact` and `AdjustExact` say what a single operation does, with one
  case per carry or borrow; `DeltaParts` is `div_s64_rem`. The invariant is that
  the timestamp is normal (`StepInv`).
- `TodTypes`; `TodReadFresh`, for `FRAC > 1` (2^16 in the code; a single
  fraction would be rounded up); `TodSetTakesEffect`. The invariant follows how
  far the latched time, or the counter, is from the time a perfect call would
  have led to, from the arming of the trigger to the return.
- `TodAdjPhase`, for `4 * MaxLat < SEC` and, with the GC trigger, deltas below
  a second. The first says that the four steps of the driver between the edge
  at which the time is read and the arming of the write fit into a second (they
  take microseconds); without it the second operation would miss its edge. The
  second is the carry that `_tod_adjtime` drops (see Findings).

Clocks (`PhcClockProofs`, `Ad9545RatesProofs`):

- `PhcPublishedComplete`: `PublishInv` ties the rows of `clks[]` and the
  registered clocks to the position in `Stages`, for both set-ups; the two
  lists of stages are tables (`SetupTable`, `ReadTable`) that the proof looks
  positions up in.
- `PhcAllInEffect`: `EffectInv` says which of the two drivers may have written
  registers that are not in effect yet; when neither has, `buf = live`. That
  the post setup runs beside the PTP driver does no harm because every write of
  either ends with an `io_update` that commits all (`StageEffect`). For the
  frequency of the NCO `EffectInv` follows the centre register, which is what
  was asked for last from the moment the provider is there, and the offset
  register, which is that of the EEPROM until the stage that sets the
  frequencies of the device tree (`OffsetNow`); what it ends as is
  `LeftOffset`.
- `PhcTypes`: `ChipInv` and `PtpInv`. That a profile is found for the tuning
  clock needs that there is a least number in a set of places, which
  `LeastNumber` gets from the well-foundedness of finite sets.
- `RatesAsRounded`: rounding is idempotent although the second divider may
  differ from the first. For an output the second is at least the first, for a
  TDC at most, and in both cases the rate is squeezed between the same bounds
  (`OutRounds`, `TdcRounds`). `PhasesReadBack` needs that the phase register
  belongs to the present divider (`RateTypes`), and that a code is below the
  number of edges (`PhaseBack`). `AdjfineClose` bounds the two roundings
  (`AdjustmentClose`).

Only model-checked: all liveness (`ImplementsFairFifo`, `ImplementsFairRxFifo`,
`QueueWakes`, `RxDmaRestarts`, `CloseReturns`, `EntriesPolled`, `CallReturns`,
`ProbesEnd`), which this prover cannot state (fairness, ENABLED), and
`ParentIsSource`, which does not hold for every value of the constants (see
Findings: `SysClk` above 5) and is not proved for the others yet.

## Plan

1. Proofs: `ParentIsSource` for a system clock on PLL0, from what `Numbered`
   and `Parents` make of the profiles.
2. The trigger delay of `adi_tod_probe` with its fraction (32-bit overflow) and
   its default.

## Not modelled

- AD9545: how `ad9545_pll_set_rate`, `ad9545_pll_clk_round_rate` and
  `ad9545_pll_set_feedback_tagging` find dividers, fractions and tuning words
  (64-bit products beyond TLC's integers, and no inverse in the driver to
  compare with), enabling, muting and n-shot pulses of outputs (register writes
  that no other code reads), debugfs.
- PTP: the delay computation and device tree properties of `adi_tod_probe`,
  the register writes of `adi_tod_module_init`, the OP-TEE variant of the clock
  control (compiled out).
- MSP: statistics, ethtool and probe code without protocol state.
- The bus glue, device trees, recipes, scripts and images.
