# Verification of the Telink BLE SDK for Zephyr: transports, updates, timers and queues

TLA+ models of the parts of `tl_ble_sdk` that carry logic of their own, the TLC
runs that check them on small instances, and TLAPS proofs of their most
important invariants for every value of the constants. Paths below are relative
to `src/tl_ble_sdk/`; `PROJECT.json` maps every definition to its lines.

## 1. The system and its parts

The SDK is a BLE controller and host for six MCUs. Most of the BLE stack is a
binary library (`proj_lib`) of which the repository has headers only. The logic
that is in source is around it:

| Part | State it keeps | Operations | Talks to |
|---|---|---|---|
| **HCI H5 transport** `vendor/common/hci_transport/hci_h5.c` | link state, negotiated window, `txSeq`, `rxAck`, `txAck`, two window counters, three timers | handshake frames, data, pure ACK, resend, reset | SLIP, the UART FIFO, `bltHci_txfifo`, `bltHci_rxfifo` |
| **H5 UART glue, SLIP** `hci_tr_h5.c`, `hci_slip.c` | UART Rx FIFO, backup of an incomplete frame | Rx interrupt, drain loop, send | UART, `HCI_H5_PacketHandler` |
| **HCI H4 transport** `hci_tr_h4.c` | UART Rx FIFO, backup buffer, flush timer | Rx interrupt, packet assembly, Tx | UART, the two HCI FIFOs |
| **Transport main loop** `hci_tr.c` | none | poll, hand one packet to `blc_hci_handler`, send one in H4 mode | all of the above |
| **DFU over HCI** `hci_dfu.c`, `hci_dfu_port.c` | `dfuCb` (status, size, offset, CRC, resend count, timer), two flash banks and their boot flags | START, FW_DATA, END, reset, task, timeout, init | HCI commands from the host, flash, Tx FIFO, boot ROM |
| **Software timers** `vendor/common/blt_soft_timer.c` | sorted table of callbacks, application wake-up | add, delete, process | main loop, PM library |
| **2.4G OTA** `vendor/2p4g_feature_test/2p4g_ota` | master and slave states, message queue, flash banks and boot flags | radio interrupts, retries, timeouts, erase, check, flag swap | radio, flash, boot ROM |
| **Generic queue** `common/tl_queue.c` | head, tail, counter, links in the items | enq, insert, deq, remove, delete, count | callers in the main loop and in interrupts |
| Flash protection, device table, service discovery `vendor/common/flash_prot.c`, `device_manage.c`, `simple_sdp.c` | lock state; connection table; discovery step | OTA lock/unlock; connect, disconnect; find attributes | library callbacks |
| ESL label and access point demos `vendor/eslp_*_demo` | image store, OTA client, table of labels | profile callbacks, console | profile library |
| Board helpers, USB, drivers, FreeRTOS, other demos | small, or hardware | | |

What is hard in it. There are no threads: an interrupt fills a UART FIFO and
everything else happens in one main loop. The difficulty is elsewhere: two sides
that run the H5 code against each other over a wire that damages frames, with
timers that race acknowledgements, a UART that refuses a frame while it sends
another, and a peer that restarts; flash that must be bootable whenever power
fails; tables that change while they are walked, and tick comparisons across the
wrap of a 32-bit counter. `PROJECT.json` lists the hazards line by line.

What makes each part correct:

- *H5*: packets reach the HCI of the other side once and in order; a packet
  is released only when the peer has it; the window stays inside the FIFO; the
  handshake ends; every packet is delivered in the end.
- *DFU*: whenever power fails the boot ROM finds a flagged bank and that bank
  is complete; the running firmware is never touched; a successful END leads to
  a restart; a failing host cannot hold the update open.
- *Soft timers*: the table stays sorted, no timer disturbs another one, each
  timer fires, and the MCU does not sleep through one.
- *H4*: the byte stream, cut into chunks anywhere, gives exactly the packets that
  were sent, and after an overflow the receiver finds a packet boundary again.
- *2.4G OTA*: a flagged bank is complete and there always is one; the running bank
  is never touched; an image the slave confirms passes its check; both sides
  get back to their idle loops.
- *Queue*: whatever the order of calls, the links hold every item once, in first
  in, first out or priority order.

## 2. Modules

| Module | Models |
|---|---|
| `HciH5` | two sides of the H5 transport, their UARTs and main loops |
| `MCHciH5` | constants for TLC: two sides, packets per side, windows |
| `HciH5Proofs` | theorems about each side of `HciH5`: types, window |
| `HciH5ExchangeProofs` | theorems about the two sides together: handshake, exchange of packets |
| `HciDfu` | DFU, the flash banks, the host, power failures |
| `MCHciDfu` | constants for TLC |
| `HciDfuProofs` | theorems about `HciDfu` |
| `SoftTimer` | the timer table, the process loop, the clock and sleep |
| `MCSoftTimer` | constants for TLC |
| `SoftTimerProofs` | theorems about `SoftTimer`: the sort, types, order, wake-up |
| `HciH4` | the receiving half of the H4 transport, the UART and its DMA, the host |
| `MCHciH4` | constants for TLC |
| `HciH4Proofs` | theorems about `HciH4` |
| `Ota24` | master and slave of the 2.4G OTA, the radio, the flash of the slave, power failures |
| `MCOta24` | constants for TLC |
| `Ota24Proofs` | the bounds of `Ota24` and the invariant about its flash, for any number of sessions |
| `Ota24SessionProofs` | theorems about what the slave assembles, and about the banks |
| `TlQueue` | the linked queue, pointer by pointer |
| `OrderedQueue` | what a queue promises: a sequence of distinct items; implemented by `TlQueue` |
| `MCTlQueue` | constants for TLC |
| `TlQueueProofs` | theorems about `TlQueue`, among them the refinement |

Definitions marked *Mutant* in a comment are altered versions of the definition
they precede; no specification uses them. They document which coding error each
property would catch (`mutants` in `PROJECT.json`).

### HciH5

Every variable is a function on the two sides and has the name of the field of
`hciH5Cb` it stands for (`txSlid` and `rxSlid` are `txSlidWinSize` and
`rxSlidWinSize`, `win` is `config.slidWinSize`; `txT`, `rxT` and `rsT` say
whether `txTick`, `rxTick` and `resendTick` are set). `txq` and `rxq` are the HCI
FIFOs as sequences from `rptr` to `wptr`, `uartTx` is the frame on the wire and
`uartRx` the UART Rx FIFO. `released`, `handled` and `dropped` are history.

One action is one call from the main loop, with everything that call does:
`RxHandler` takes a frame out of the UART FIFO and is the branch of
`HCI_H5_PacketHandler` for its type; `PollLink`, `PollResend` and `PollSend` are
the three paths through `HCI_H5_Poll` followed by `HCI_RxHandler`. They need an
empty UART FIFO because `HCI_Tr_H5RxHandler` drains it first. The interrupt
(`UartRxIRQ`), damage on the wire, the controller queueing a packet, and a
restart are the other actions. `Transmit` drops the frame when the UART is busy,
as `HCI_Slip_Send` does; `PackHciPdu` overwrites the oldest slot of a full FIFO,
as the code does. So does the UART: once its FIFO is full the DMA is armed on the
slot of the oldest unread frame (`hci_tr_h5.c:321`, 329), so the next frame takes the place of
the oldest and is processed *before* the others (`Stored`), or spoils it while the main
loop reads it (`RxSpoilt`). `MaxOverrun` bounds how often; `overruns` counts.

Abstractions: one UART chunk holds one frame (`HciH4` models split chunks); a damaged
frame takes its slot and is discarded by the receiver (`RxDamaged`); payloads are
numbers. The CRC-16 of `HCI_H5_DATA_INTEGRITY` is compiled out by default and
left out. A timer may run out in any round after it was set, except:

- `SlowTimers = TRUE`: the link tick (250 ms) and the resend timers (50 ms) run
  out only when the wires are empty and no ACK timer (10 ms) is running, and the
  ACK timer only when the own UART is idle. At 1 Mbaud a frame of the largest
  HCI packet takes under 8 ms, so this is the normal timing of the code.
- `SlowTimers = FALSE`: no such relation. `MaxBusy` then bounds how often a resend
  timer runs out while the own UART is still transmitting.

### HciDfu

`cbVars` is `dfuCb`, `flash[b][k]` is unit `k` of bank `b`, `flag[b]` the byte at
`DFU_FW_FLAG_OFFSET`. A unit is what sizes, payloads and sectors are multiples of; block `k` of
version `v` is `<<v, k>>`. One FW_DATA writes 0 to `Payload` units. The code asks only that
`fwOffset` is below `newFwSize` (line 205), so the last payload may pass the announced size, and the
area of `MaxSize` units, by `Payload - 1` units; `Unit` has room for them.
The CRC is abstracted to what it decides: it is zero when the blocks read
back were those of one version, in order and complete, and also right after
`DFU_Init`, whose `memset` leaves it zero ("ZERO") where `DFU_Reset` does not
("INIT"). Writing clears bits only: a block over other data gives `XX`.

Each command handler is an action with all its early returns; `DFU_TaskStart` is
split along its three tests. A handler that writes or erases flash has two
outcomes: it completes, or power fails on the way (`Stop`), with some units of
the payload and half the next written, one of the two flags written, or any number of units erased. (An
erase that is interrupted inside one unit is not modelled.) `Boot` starts a
flagged bank and runs the erasure of `DFU_Init`, which may be interrupted too.

Three constants describe the environment. `Orderly`: the host waits for the
reply to a command, starts before it ends, and sends nothing after a successful
END. `Prompt`: it collects the reply to END before the 30 s timer runs out.
`Covered`: its first FW_DATA reaches past the boot flag at offset 0x20. The code
enforces none of them.

### SoftTimer

`timers` is the table, `pnow`, `idx` and `chg` are the locals of
`blt_soft_timer_process`, `cur` is the callback that runs.
The loop is two actions per slot, the call (`LoopFire`) and what the loop does with the
value returned (`LoopReturn`); between them the callback may add timers, which sorts the table
under the loop, and delete its own or others, any number of them. `Sort` is the bubble sort with
`TIME_COMPARE_BIG` modulo `Wrap`, its two loops written as recursive functions. `Uses` says what an
application does besides adding timers in its main loop and rescheduling them: it deletes them there ("delete"), its
callbacks return a negative number ("return"), delete their own timer ("own") or another ("other"), or
add timers ("add"). Each callback has at most one timer, and a callback takes no time. `Sleep` and `Clock` are the
PM library as the code uses it: the MCU sleeps unless its application wake-up
is due, and is woken at that tick.

### HciH4

A byte is the pair of the packet it belongs to and its place in it, so that the
type and the length of a packet are what the bytes at its front say. As long as
nothing was lost (`lost` is history) the receiver reads those; after a loss any byte
may be read as any type or length. `UartReceive` is the DMA filling the slot it was
given, `UartRxIRQHandler` the interrupt at the end of a chunk. The DMA is armed on
the slot behind the queued chunks; when all slots are taken that is the slot of the
oldest unread chunk, so a chunk is overwritten *before* the test for a full FIFO
drops anything. `pc` and `cur` are the place of the main loop inside
`HCI_Tr_H4RxHandler`: interrupts fall between any two packets of a chunk. The
eight-bit `backupCnt` and result are taken modulo `Wrap`. `RxSkip` keeps the
missing advance of `pPacket` and the unsigned underflow of `len` for events and SCO
data ("wild"). Two rules of the host are assumed: it has no more packets
outstanding than `Credit`, and it does not pause for the flush time (1 s) inside a
packet; after a loss it gives up and is silent for longer than that.

### Ota24

`m` and `s` are `MasterCtrl` and `SlaveCtrl` with `TxFrame`, the message queue (`q`) and what
the radio is doing (`rf`). A step of a side is one round of the loop around
`OTA_MasterStart` or `OTA_SlaveStart`, which pops at most one message. Frames carry
the length they are sent with: `Len` is static, a repeated frame goes out with the length of
the last frame received, and `ReadAs` says what the other side reads of a frame that
was cut short (what `RxFrame` held before). A data frame so short that the length of its block
underflows (`Underflows`; `ota.c:803`, 806) makes `flash_write` go on without end: `RunAway` spoils
the target bank from there, and the other one when it gets that far, until something stops the slave. Once it has
reached the bank it runs from, nothing more is said of the slave (state `RUNAWAY`, no successor).
`OTA_MasterStart` has no return statement
at its end; the value such a round returns is a free choice (`FallsOff`). The CRCs are
abstracted to what they decide: the blocks received and the blocks in flash are
those of one image. Flash writes only clear bits (`Written`); every flash operation
may be cut off by a power failure. `Boot` runs the first flagged bank, as the choice
of the target in `main_idle_loop` presumes.

Left out: the batch mode, a last block shorter than the others (an image is a
multiple of 48 bytes), the reuse of the receive buffers of the radio, and an
interrupt inside `OTA_MsgQueuePop`.

### TlQueue and OrderedQueue

Every function of `tl_queue.c` but `queue_init` disables interrupts for its work, so each is one
action; `queue_init` is called before anybody uses the queue. The two search loops are described by the items they have passed
(`Walks`, `Passed`, `At`). `held` is what the callers know: they enqueue an item only
while no queue has it, and give `queue_insert` and `queue_remove` the predecessor
an iteration has found. `OrderedQueue` knows none of this and is the documented contract: its `Insert` puts an item
directly behind the one that is named (`tl_queue.h:92-100`, `tl_queue.c:159-166`). `Implements` maps its
`list` to the sequence the links lay out. `queue_insert` does not keep that contract behind the tail
of a priority queue, where it calls `queue_enq`, which sorts the item in (`tl_queue.c:185-186`). `TailInPlace`
says that the callers insert there only what belongs there, and `Implements` needs it.

## 3. Runs

| Run | Instance | Result |
|---|---|---|
| `h5_safety` | window 1, 2 + 1 packets, sequence numbers mod 2, 1 damaged frame, 1 restart of either side, no overwritten UART slot | `TypeOK`, `WindowInFifo`, `NoSilentLoss`, `NoDuplicate`, `RxFifoNotOverrun`, `NoSpuriousReset` hold (2.9 million states) |
| `h5_live` | window 1, `SlowTimers`, damage to anything but ACKs, 1 restart, UART FIFO of one slot with 1 overwritten frame | `NoSilentLoss`, `LinkUp`, `Delivery` hold |
| `h5_wide` | window 2, one unreliable packet per side, 1 damaged frame, 1 overwritten UART slot | `WindowInFifo` holds |
| `h5_lost_ack` | window 1, 1 packet, 1 damaged frame | `Delivery` violated |
| `h4` | 3 packets (a command that is all header, data), chunks of 1 to 5 bytes, 2 chunk slots, 2 HCI slots, 2 packets outstanding, any number of restarts of the host | `TypeOK`, `Reassembled`, `BackupTimed`, `Delivered`, `Recovers` hold (384 000 states) |
| `dfu_update` | image of 2 blocks, area of 2 units of which 1 is sampled, payloads of 0 to 2 units, any number of power failures; orderly, prompt, covered | `TypeOK`, `SomeBankBoots`, `FlaggedIsIntact`, `RunIntact`, `EndRestarts`, `ResendLimitEnds` hold (79 000 states; with an area of 3 units, 2 of them sampled, too, 1.5 million) |
| `dfu_timeout` | the same, host not prompt | `EndRestarts` violated |
| `ota` | 2 images of 2 blocks, 2 retries, 2 sessions of the master, any number of the slave, any number of lost frames and power failures | `TypeOK`, `FlaggedIsIntact`, `SomeBankBoots`, `OneImage`, `AnsweredIsWhole`, `RunningBankKept`, `ConfirmedIsWhole` hold (1.6 million states; with 3 retries too, 6.8 million) |
| `ota_live` | the same, 1 session of the master | `MasterReturns`, `SlaveReturns` hold |
| `queue` | 4 items, 2 of one rank, every call at any time, `TailInPlace` | `TypeOK`, `Linked`, `Implements` hold (14 000 states) |
| `timer_table` | 4 callbacks, 3 slots, ticks mod 32, callbacks that add timers and delete any | `TypeOK`, `Ordered`, `OnlyOwnMove` hold (2.3 million states) |
| `timer_sleep` | 2 callbacks, rescheduling only, with sleep | `WakeArmed`, `Fires` hold |

`CHECK_DEADLOCK FALSE` in three runs: in `dfu_timeout` both banks lose their flag and the
controller cannot start any more; in `h4` the host may have sent all its packets,
and the state "wild" has no successor; in `ota` a slave that has overwritten its own bank
(`RUNAWAY`) does nothing more, while the master is back in its idle loop and may not press again.

Why the bounds are enough. Sequence numbers modulo 2 are the worst case for a
window of one: every stale number is at most one off, and all confusions between
old and new frames that the 3-bit numbers allow appear within two packets. With
two packets a side sends one, resends it, and goes on; with one loss each kind of
frame is lost in some behaviour; a restart is met in every state of the link. The
HCI Rx FIFO has one slot so that it can overrun at all, and one overwritten UART slot shows each order of two
frames that the wire alone would not give. For DFU two blocks tell
order and completeness apart, a payload of two units is one that may pass the announced size, and the area; the number of updates and power failures is not
bounded. For the timers, ticks wrap within a few rounds, the intervals are
below, and the margins in the same proportion as, those of the code
(`Pre < Interval < Post < Near < Quarter < Wrap / 2`), and `MaxLate` keeps the
main loop inside the 4 s margin. For H4, chunks of five bytes hold two whole packets
and a part of the next, or cut each packet everywhere; two slots in each FIFO can
fill, and the history of a packet ends when the host restarts, so three packets
between restarts reach every alignment of backup buffer, chunk and FIFO. For the
2.4G OTA two blocks tell first, last and repeated blocks apart, two retries tell
"counted" from "exhausted", and a second session of the master is needed for
messages and lengths left over from the first. Four items are enough for head,
middle and tail of a queue to differ while another item is put in.

Fairness. Everything runs in one main loop that never blocks, so handlers
that stay enabled run (weak fairness), the UART finishes a frame, time passes.
The polls of `HciH5` get strong fairness: a poll is enabled only in the rounds that
find the UART FIFO empty, and the loop gets there again and again; a timer that is
set in round after round is found expired in one of them, as real time passes.
Damage, restarts, commands of the host and removal of timers get none. `EvtSent`
has strong fairness because a command that arrives may delay, not prevent, the
UART. In `HciH4` the flush and the restart of the host have strong fairness: the
silence of a host that lost packets lasts longer than the timer, however often the
main loop polls meanwhile. In `Ota24` both loops run, transmissions end and listening
windows close; key presses, power failures and the value a round without a return
statement yields get no fairness. In `SoftTimer` nothing but the application wake-up is sure to wake a
sleeping MCU.

### What the violations show

- **`h5_lost_ack`** (`hci_h5.c:642`). A reliable packet out of sequence is dropped
  without an answer. The resend of a packet whose ACK was lost is such a packet,
  so it is resent for ever, against the comment at line 788. The link carries
  data again only after the peer happens to send a packet of its own.
- **`dfu_timeout`** (`hci_dfu.c:461`). The timeout is handled in state END too: it
  erases the new image after END_DFU has cleared the flag of the old one.

Further observations, each reproduced by changing the constants of a run and
listed as hazards:

- `MaxMsg <- MCMsg11`, `SeqMod = 8`, `MaxLoss = 0`, `MaxReboot = 0`, `MaxBusy = 1` in `h5_safety`: `NoDuplicate`
  fails. A resend timer that runs out while the UART is busy sets `txSeq` back
  although nothing is sent (`hci_h5.c:555`). The ACK of the packet then looks like a
  request to resend, and the packet goes out again under a new number.
- `Orderly = FALSE` in `dfu_update`: `FlaggedIsIntact` fails. END_DFU right after power-on
  passes the check, since size, offset and CRC are all zero, and flags an empty
  bank (`hci_dfu.c:142`).
- `Credit = 3` in `h4`: `Reassembled` fails. A full HCI Rx FIFO makes the receiver return
  in the middle of a chunk and begin it again (`hci_tr_h4.c:411`): packets are
  taken in twice, and a chunk with two packets may be begun again for ever, which is
  why `Recovers` has its second disjunct. A controller that announces as many ACL
  buffers as the FIFO has slots, and takes a command besides, is in this case.
- `Wrap = 4` in `h4`: `Reassembled` fails. A packet as long as the range of `backupCnt`
  (256 bytes in the code, line 122) is lost when it is split over chunks.
- A packet of kind `SKIP` in `h4`: `Reassembled` fails. For events and SCO data the receiver
  counts the length down but leaves `pPacket` where it is (`hci_tr_h4.c:381-403`), so it reads
  the next packet at the wrong place.
- `Factory = 2`, `MaxPress = 1` in `ota` with `NoDowngrade`: fails. A VERSION_RSP that is repeated is
  cut to the length of the request (`ota.c:733`), and the master reads version 0.
- `RetryMax = 3` in `ota` with `AnsweredIsWhole` for every session: fails in the second one. Answers left in the
  queue of the master keep it a step behind; a DATA frame and then the END_REQ are repeated with
  the length of an old answer (`ota.c:516`, 548), the slave takes a block that is not whole,
  compares its size with bytes its buffer held before (865) and sends END_RSP. The CRC check behind it
  still refuses the image. `ConfirmedIsWhole`
  says what remains: an END_REQ that came whole is only answered for a whole image.
- `Win <- MCWin2`, `SeqMod = 8` in `h5_safety`: `NoDuplicate` fails. `HCI_H5_ResendStart` starts at
  the first packet of the FIFO under the number the peer asked for (553-556).
- `Unreliable = {1}`, `SlowTimers`, `SeqMod = 8` and 2 and 3 packets in `h5_safety`:
  `NoSilentLoss` fails.
  An unreliable packet advances `txAck` (677) but not the sender's `txSeq`.
- `MaxReboot = 2`, `MaxLoss = 0`, `UartNum = 4`, `TxNum = 1`, two packets of the host and none of
  the controller in `h5_safety`: `NoSilentLoss` fails. A SYNC_RSP that is still in
  transmission when its receiver restarts a second time answers a SYNC of the first
  start (`hci_h5.c` does not tell them apart): the side becomes ACTIVE without having
  reset its peer, and an ACK with the peer's old `txAck` releases a packet it
  never took in. One restart is not enough for this.
- `Covered = FALSE` in `dfu_update`: `FlaggedIsIntact` fails; with payloads of up to 32
  bytes the boot flag is written with the second one (`hci_dfu.c:207`).
- `TailInPlace = FALSE` in `queue`: `Implements` fails. Behind the tail of a priority queue `queue_insert` puts
  the item where its priority belongs (`tl_queue.c:185`), not behind `pPrev` as its documentation says.
- `MaxOverrun = 1`, `MaxReboot = 0` in `h5_safety`, with `NoSpuriousReset` without its exception for `overruns`:
  fails. Two SYNCs wait in the UART FIFO of a side in INIT; a CONFIG_RSP replaces the first, the
  side becomes ACTIVE, and the second SYNC resets it (`hci_h5.c:503`). With the same constants
  `NoDuplicate` and `RxFifoNotOverrun` fail too (they hold with `SeqMod = 8`), and
  `NoSilentLoss` with an overwritten slot and a restart.
- `InBounds` left out of `FlaggedIsIntact`, `SomeBankBoots` or `RunningBankKept`: each fails in `ota`. An answer left in the
  queue of the master keeps it a step behind, a data frame of its second session is repeated with the length of that
  answer, and `Len - 3 - 36` (`ota.c:803`) is below zero. `flash_write` takes it as unsigned (`drivers/TL321X/flash.c:212`)
  and programs on past the target bank.
- `Uses` in `timer_sleep`. `{"delete"}`: `WakeArmed` and `Fires` fail; deleting the first timer when the second is
  already due disables the wake-up (`blt_soft_timer.c:131`). `{"return"}` or `{"other"}`: both fail;
  deleting slot `i`, or one before it, inside the loop skips the timer that moves into it, and being overdue
  it makes the loop disable the wake-up (213). `{"own"}`: `Fires` fails, since the loop sets again, or
  deletes, the timer that has moved into the slot; `WakeArmed` holds. `{"add"}`, with three callbacks
  and three slots: both fail; the added timer is sorted in under the loop (85), the timer that was due moves in front
  of slot `i`, and the returned value sets another one again.
- `OnlyOwnMove` excepts a callback whose timer is not in slot `i` any more when it returns; the slot
  belongs to another timer then, which is put off or deleted (`blt_soft_timer.c:194-203`). Without that exception it
  fails in `timer_table` with `Uses = {"own"}`, `{"other"}` or `{"add"}`.
- `Near = 3` in `timer_sleep`: `WakeArmed` fails. For a first timer 5 s or more ahead
  `blt_soft_timer_process` sets no wake-up at all, and the MCU sleeps past it.
  Once it may oversleep, here or with `Uses = {"delete"}`, `Ordered` fails as well: timers get so
  late that `TIME_COMPARE_BIG` takes them for later ones.
- `Interval = {2, 7}` in `timer_table` (a late timer and a new one a `Quarter` apart): `Ordered`
  fails, for the same reason without sleep. BIT(30) ticks are 67 s at 16 MHz.

## 4. Proofs

The theorems hold for every value of the constants that the named assumptions
(`H5Assumption`, `DfuAssumption`, `H4Assumption`, `OtaAssumption`, `ItemAssumption`,
`TimerAssumption`) admit:
any window up to 7, any sequence number range, FIFO, packet, chunk, image and bank
sizes, retry limits, any number of faults, restarts, packets and sessions, any finite
set of items and ranks, any table of timers, tick range and margins. TLC evaluates the assumptions in every run. A theorem that
needs more has it as a named hypothesis, and section 3 tells which run fails
without it. TLC finds every inductive invariant below to hold with the constants of the
component's safety run.

**`HciH5Proofs`**: `H5TypeCorrect` and `H5WindowInFifo`. The inductive invariant is
`IInv == TypeOK /\ WindowInFifo`. The window alone is not inductive:
`rptr += txSlidWinSize` keeps it because the FIFO is a sequence at least that long,
and the negotiated window bounds the counter only because it cannot shrink without
`Reset`. There is one lemma per helper (`ResetStep`, `ReleaseStep`, `AcceptStep`,
`SendDataStep`, ...), one per group of actions (`RxHandlerStep`, `PollStep`,
`OtherStep`), and each theorem combines them.

**`HciH5ExchangeProofs`** relates the frames on both wires to the counters of both sides.

- `H5NoSpuriousReset` (`NoSpuriousReset`). `LinkInv` is about the order of
  frames: until a side restarts or a slot of a UART FIFO is overwritten (`Undisturbed`), a side that still sends SYNC has an inactive peer and no
  CONFIG_RSP under way, a SYNC never comes behind a CONFIG_RSP, and no SYNC is under way to an
  ACTIVE side. A side becomes ACTIVE on CONFIG_RSP, so every SYNC has arrived by then.
- `H5NoSilentLoss`, `H5NoDuplicate` and `H5RxFifoNotOverrun`, for a window of one
  (`SingleWindow`; the code configures it) and reliable packets (`AllReliable`), as long as no
  side has restarted and no UART slot is overwritten (`Undisturbed`) and, for `NoDuplicate` alone, no resend timer has run out
  during a transmission (`busy = 0`). `ExchangeInv` says, for each direction, that the receiver's
  expected number is that of the sender's first packet or the next (`Numbers`), that the
  data frames under way are copies of that packet behind older ones, whose number
  the receiver does not expect (`DataOK`), that acknowledgements under way do not run
  ahead of the receiver and do not fall back (`AckOK`), and what has been taken in (`Taken`).
  None of these alone is inductive: a stale number is harmless only because of
  what may still be behind it on the same wire.
  Each of the four comes in two strengths. `Talking(0)` is the exact stop-and-wait
  protocol. `Talking(1)` survives a resend that the busy UART refuses: `HCI_H5_SendData` then
  takes the packet out of the window while copies of it are still under way, and its
  acknowledgement, no longer that of `txSeq`, moves `rxAck` on without releasing anything.
  `txSeq` stays one behind until the resend timer, armed in that state, sends the same packet
  under the next number: a duplicate, but no loss, and no packet before the one
  taken in has been handled. The window, the reliability and the `busy = 0` of `NoDuplicate` are necessary
  (section 3); so is `Undisturbed`: an overwritten slot breaks `NoDuplicate` and `RxFifoNotOverrun`, two
  restarts break `NoSilentLoss`.

**`HciDfuProofs`**: `UpdateKeepsBootable` (`SomeBankBoots`), `UpdateFlagsIntact`
(`FlaggedIsIntact`), `UpdateKeepsRunning` (`RunIntact`) and `DfuTypeCorrect`, under `Orderly`,
`Prompt` and `Covered`. (`DfuTypeCorrect` says that `offset` passes the announced size by less than a
payload, not that no write leaves the area.) Section 3 shows that each of the three is needed. The inductive
invariant `DfuInv` adds to the properties:
`FlagSeen` (a flagged bank has a nonempty first unit, so the sampling of
`DFU_EraseNewFwArea` cannot overlook it), `BankFlags` (which bank is flagged in
which state; in state END the new one, complete) and `Progress` (while the CRC
is that of version `v`, the blocks so far are those of `v`). The argument: only the
bank that is neither running nor flagged is written or erased; it is flagged
when complete, and only then is the old flag cleared.

**`HciH4Proofs`**: `H4TypeCorrect` and `H4BackupTimed` for every stream, and `H4Reassembled`
(`Reassembled`) when no packet is of a skipped type (`Plain`), packets are shorter than
`Wrap` (`Narrow`) and the host's credit fits the HCI Rx FIFO (`Metered`). `H4Inv` adds to
the types that every byte under way belongs to a packet the host began (`BytesKnown`; the
lengths the receiver reads from a header are otherwise arbitrary) and what the handler has
in hand at each point (`InHand`). `StreamInv` lays the whole stream out: wire, DMA,
chunks, chunk in hand and backup buffer are consecutive pieces of the packets sent, from
the end of what has come out (`Queued`, `Placed`), the backup buffer holds a proper
beginning of the next packet (`Begun`), and what came out is what was sent (`CameOut`).
Cutting and joining such pieces are the lemmas; where a piece ends is shown with the
least counterexample. Each condition is needed (section 3).

**`Ota24Proofs`**: `OtaTypeCorrect`, without conditions: any number of sessions, any loss, damage and power
failure. `OtaInv` adds that data frames carry blocks a bank
has room for (`FramesFit`), what the block counters count (`MasterCount`, `SlaveCount`), and, as long as the
slave has not run away, `RunsFlagged`: it runs from the first flagged bank and works on the other one, which
has no flag until its CRC check has passed. This is why an erase cannot reach the last
bootable bank.

**`Ota24SessionProofs`**: `OtaOneImage` (`OneImage`) and `OtaAnsweredWhole`
(`AnsweredIsWhole`), both about the first session of a master, and `OtaFlaggedIntact` (`FlaggedIsIntact`), `OtaBootable`
(`SomeBankBoots`) and `OtaRunningKept` (`RunningBankKept`): in the first session without conditions, later
until a block that was cut short makes `flash_write` run into the slave's own bank. That this cannot happen in the first
session (`Tame`) follows from `SessionInv`; the rest is `OtaInv`. `SessionInv` is the stop-and-wait argument: the
queues hold at most one message that matters (`SlaveQueue`, `MasterQueue`), what is under way is
the master's present request or an answer to it and nothing is behind an answer
(`Paired`), the slave's last answer is the one a repeated request must bring out
(`SlaveFrame`), and the slave has the blocks 1 to `blk` of the master's image, never more than
were sent (`InStep`, `Landed`). The static `Len` does no harm in the first session, since
the frames the master repeats are never cut (`MasterFrame`). In a later session the queue
that `OTA_MasterInit` does not clear breaks `Paired`, and both properties fail (section 3).

**`TlQueueProofs`**: `QueueTypeCorrect`, `QueueLinked` (`Linked`) and, under `TailInPlace`, `QueueImplements` (`Implements`).
`Linked` is inductive together with `TypeOK`: for each action the new sequence
is named (an item put behind place `k`, or place `k` taken out) and shown to be the
one the new links lay out. The lemmas show that a linked sequence is the only one
(so `Contents`, a CHOOSE, is it), that a walk the search loops have passed is
one of its prefixes, and that the place a loop stops at is a place of the sequence.
Facts that would be inductions over a sequence are proved from a least
counterexample. The refinement then takes each action to the action of `OrderedQueue`
of the same call.

**`SoftTimerProofs`**: `TimerTypeCorrect` and `TimerOnlyOwnMove` (`OnlyOwnMove`, with the exception it states), without
further conditions, whatever timers the callbacks add and delete; `TimerOrdered` (`Ordered`) and `TimerWakeArmed` (`WakeArmed`) under two.
`Short`: every interval plus the lateness of the main loop is below BIT(30).
`Careful`: an application that sleeps keeps its intervals below the 5 s of `Near`, and its callbacks do
no more with the table than set their own timer again or delete it (`Uses \subseteq {"own"}`). Section 3 shows what breaks without each.
Three things carry the proofs.

- *The sort.* Each loop has a run, the table after every iteration (`PassRun`, `SortRun`), and
  what holds along a run is shown with a least counterexample (`Climb`): a pass carries a largest
  timer to its end (`PassSorts`), the rounds build a sorted tail (`SortSorts`), and the result
  is a permutation (`SortShuffles`).
- *The comparison.* Taken modulo `Wrap`, "at least as late" is not transitive. `Ahead` is the signed
  distance to the present tick; among timers that are at most `MaxLate` late and at most `Horizon`
  ahead (`Within`) `TIME_COMPARE_BIG` compares `Ahead` (`Compare`), so it is a linear order there.
- *The invariants.* `TableInv` (types, one timer per callback, the locals of the loop) is enough for
  the first two theorems. `TimerInv` adds `Within`; `Sorted`, which inside the loop holds until a
  timer is set again (deletions keep it, which is why the code need not sort after them); `Looked`, that the
  slots passed lie ahead and the others do or are due, so that at the end of the
  loop `blt_soft_timer_process` finds the first timer in the future and sets its wake-up; and
  `WakeSet`, that outside the loop the wake-up is that of the first timer and asleep it has
  not been missed. `WakeArmed` alone is not inductive: it needs the order to know that
  the first timer is the next one due, and the order needs that nothing is overslept. TLC finds
  `TimerInv` to hold in `timer_table`, and with `Uses = {"own"}`, three callbacks and three slots in `timer_sleep`.

Only model-checked: liveness (`LinkUp`, `Delivery`, `EndRestarts`,
`ResendLimitEnds`, `Fires`, `Delivered`, `Recovers`, `MasterReturns`, `SlaveReturns`), which is
out of the prover's reach; `NoSilentLoss`, `NoDuplicate` and `RxFifoNotOverrun` of `HciH5` after
a restart, and `NoSilentLoss` after an overwritten UART slot; and `ConfirmedIsWhole` of `Ota24`. That no slave assembles blocks of two images of
equal size rests on how little the queue of four messages can carry from one session into the
next, and an invariant that says so was not found.

## 5. Not modelled, and the plan

Of the repository's lines most are register headers, drivers for six chips, third-party
code and copies of demo set-up. Some thousands of lines carry state and decisions
of their own, and the modules above cover those with the hardest behaviour; their share of
the whole stays small for that reason.

Not modelled for good: the binary BLE stack, drivers and register access,
FreeRTOS, USB hardware, debug output, the MI_CONTROLLER commands of DFU (compiled
out), `common/fifo.c` (compiled out). The ESL demos, flash protection and service
discovery consist of callbacks of the binary library, whose order the source does
not fix; a model of them would be a model of guesses.

Modelled in part: `HCI_TxHandler` of the H4 mode, the byte stuffing of SLIP and H5
frames split over chunks, the batch mode of the 2.4G OTA (section 2 says what
is left out of each module).

Planned: an inductive invariant for `ConfirmedIsWhole`, which needs the contents of the master's
queue across sessions.
