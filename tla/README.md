# TLA+ models of the Phytium SDK drivers

This directory specifies the concurrent core of the Phytium SDK: the Ethernet
driver XMAC, the SD/eMMC host driver SDIF and the USB input tasks of the libbsd
example. The specifications are translated from the C source, checked with TLC
on small instances, and in part proved with TLAPS for all instances.
`PROJECT.json` lists components, runs, the code lines behind every definition,
the hazards the properties are aimed at, and the disagreements found.

## 1. The system

The SDK adds drivers for Phytium SoCs to RTEMS and its FreeBSD port, libbsd.
The drivers are FreeBSD drivers: a softc with one mutex (`sc_mtx`), an interrupt
handler in a thread of its own, callouts (timers), and entry points that the
network stack or the MMC layer calls from any thread. Hardware shares memory
with them (descriptor rings) or answers through status registers.

| Component | State it keeps | Operations | Talks to |
|---|---|---|---|
| XMAC transmit ring (`fxmac/phytium_xmac.c`) | `txring`, `txring_m`, head, tail, queued; `IFF_DRV_OACTIVE` | `start`, `start_locked`, `clean_tx`, `intr`, `stop`, `init` | network stack (calls, send queue), MAC (ring, ISR, start bit) |
| XMAC receive ring | `rxring`, `rxring_m`, head, tail, queued | `fill_rqueue`, `recv`, `intr`, `stop`, `init` | MAC (ring, ISR), stack (`if_input`, lock released) |
| XMAC link | `mii_media_active`, `net_cfg_shadow`, `tick_ch` | `tick`, `statchg`, `linkchg`, `mediachange`, `ifmedia_upd`, `ifmedia_sts` | MII layer (callbacks), PHY |
| XMAC life cycle, MDIO, ioctl | resources, filters | `attach`, `detach`, `readreg`, `writereg`, `ioctl`, `rx_filter` | bus |
| XMAC v2 (`fxmac_v2_0/`) | the same, with a doorbell and messages | the same; the handler acknowledges RXCOMP twice | firmware |
| SDIF requests (`fsdif/phytium_sdif.c`) | `req`, `curcmd`, `cmd_done`, `dto_rcvd`, `req_pending`, `timeout_callout` | `request`, `pre_request`, `set_block_count`, `command_done`, `data_done`, `finish_command`, `timeout` | MMC layer (calls, `done`), controller (commands, interrupts) |
| SDIF card detection | `child`, `card_task`, `card_delayed_task` | `card_detected`, `handle_card_present`, `card_task` | task queue, bus |
| SDIF host ownership | `bus_busy` | `acquire_host`, `release_host` | MMC layer |
| SDIF bus settings | `host.ios`, cached width, clock, power, voltage; v2: `curios` | `read_ivar`, `write_ivar`, `update_ios`, translation of commands | MMC layer, controller |
| SDIF v2 (`fsdif_v2_0/`) | the same, with message tables | the same; `request` takes the lock twice | firmware |
| USB input tasks (`rtems_usb_mouse.c`, `rtems_usb_keyboard.c`) | two queues, kill and active flags | open task, read task, exit handler | device node, each other (messages) |
| Example start-up, ports, tools | none that lasts | | RTEMS |

What makes these parts hard, and what makes them correct:

* **XMAC transmit.** The MAC walks the ring while the driver writes it, without a
  lock. A frame may be visible only when it is whole, the head may not meet the
  tail although a wrap skips descriptors, packets are freed once and not before
  the MAC is done with them, an interrupt acknowledged too early may strand a
  frame, and `IFF_DRV_OACTIVE` may be left set for good.
* **XMAC receive.** `recv` releases the lock in the middle of the interrupt
  handler. Every buffer has one owner, the MAC writes only to buffers of the
  ring, and no frame and no empty ring is forgotten.
* **XMAC link.** `mediachange` releases the lock around the clock setting. The
  poll must not die, and the cached media must tell the truth.
* **SDIF requests.** The interrupt callbacks take no lock. A request is finished
  once, by its own answer or by its timeout, and the two panics of the driver
  stay out of reach.
* **SDIF card detection.** The interrupt looks at `sc->child` while the task
  changes it. The child must follow the card.
* **SDIF host ownership.** Waiters release the lock, and are woken together.
  In v2 the claim on the host is all that keeps other requests from coming
  between a SET_BLOCK_COUNT and its transfer.
* **SDIF bus settings.** Both drivers program what differs from what they
  remember: a setting remembered but not programmed stays wrong.
* **USB input.** Two tasks share one descriptor by message passing alone.

## 2. Plan

In order of importance; 1 to 11 are done.

1. `XmacTx`, its abstract queue `TxFifo`, and the refinement `XmacTxFifo`.
2. `XmacRx`, with `XmacRxProof`.
3. `XmacTxProof`: the transmit ring for every size.
4. `SdifRequest`.
5. `XmacLink`, with `XmacLinkProof`.
6. `SdifHotplug` with `SdifHotplugProof`; `SdifHost`.
7. `UsbInput`, with `UsbInputProof`.
8. `XmacMsgRx`: the v2 receive path on the ring of `XmacRx`; `XmacRxProof` proves
   both with the same lemmas.
9. `SdifMsgRequest`: the v2 request path, composed of `SdifHost` and
   `SdifRequest`; `SdifMsgProof`: it implements `SdifHost`, whose exclusion it has.
10. `SdifSettings`: `update_ios` of both drivers against what the MMC layer asked
    for, and the tables of clocks, settings and commands.
11. `SdifRequestProof`, `SdifSettingsProof`, the packets in `XmacTxProof`, and the
    requests in `SdifMsgProof`, and the refinement of `TxFifo`: with them a theorem
    states every safety property of the runs.
12. The v2 transmit ring, whose tail doorbell replaces the start bit.

## 3. Modules

`MCX.tla` instantiates `X` for TLC: it adds symmetry where that is sound (never
in a run with a liveness property) and the sets a configuration file cannot
write. Driver variants and environments that share a text are a
parameter chosen in `Init` (`Env` in `SdifRequest`, `Drivers` in `SdifSettings`), so
that one run covers them all; the v2 drivers that change a path extend the
module of v1 or instantiate it.
Definitions that end in `_Something` and are
marked "mutant" are variants of the definition below them with a plausible bug;
no specification uses them, they serve to confirm that the properties notice.

### XmacTx: the transmit ring

Driver variables have the names of the softc's fields. Whatever holds `sc_mtx` is
one thread, so one program counter `pc` describes it: `"idle"`, the places of
`start_locked` (`"start"`, `"fill"`, `"kick"`), of `clean_tx` (`"clean"`,
`"walk"`), and of `stop`. Each descriptor access is an action
(`FillDesc`, `CleanFrame`, `CleanSkip`, ...), so that the MAC's steps
(`MacFetch`, `MacNext`, `MacDone`, `MacHalt`) come between any two of them. A
descriptor is its three control bits and the packet its address points into.
`parked` is the interrupt thread inside `recv`, which has released the lock
(`XmacRx` models what it does there). Threads of the stack are counted:
`checked` are past the stack's test of `IFF_DRV_RUNNING`, `kicks` wait for the
lock in `phytium_xmac_start`; `MaxSenders` bounds both.

`MaxSenders` is kept below the number of senders that could fill the ring of a
stopped interface: a sender that passed the test before `stop` still puts its
frame in the ring, and since `init` does not start the MAC, a ring filled
entirely that way would set `IFF_DRV_OACTIVE` with the MAC idle. With the
driver's constants that takes more than sixty threads between the test and the
lock in one stop.

The kick is the start bit. For a controller that the driver calls version 2 it writes
the place of the head to a doorbell as well (`sc->version == 2`, lines 425 and 754,
enabled at 914); that write is left out, here as in the v2 driver. A frame has at least one
segment.

`TxFifo` is what the stack is promised: a queue of whole frames with enqueue,
dequeue and discard. `XmacTxFifo` maps the ring to it and states
`ImplementsFifo == Fifo!Spec`: `pending` is the frames that the driver recorded in
`txring_m` and whose first descriptor is still the MAC's (`Starts`), in the order in
which the MAC comes to them from where it is (`InOrder`, by `Rank`, the number of
frames before one on the way around). A frame is thus accepted when the last of its
descriptors to be written, the first in the ring, loses USED, and delivered when the
MAC sets that bit. The module has no recursion, so that the refinement can be proved.

### XmacRx: the receive ring

The same conventions. `delivering` is the interrupt thread in the unlocked part
of `recv`; meanwhile `Stop`, `InitLocked` and the MAC go on. `m_hd` is the list
it hands up. The pool of mbufs is finite, so allocation fails by itself
when it is empty; the stack frees what it was given. The address of a buffer
reaches the descriptor in two stores, the upper half in `FillAlloc` and the address
word in `FillPost`, and the MAC may look before, between and after; `dma` is the set of
buffers whose halves make up the address that the MAC writes to, so that an address
mixed from two would be seen (`DmaInRing`).

### XmacMsgRx: the receive ring of v2

The module extends `XmacRx` and replaces the interrupt handler and `stop`: the
handler of `phytium_xmac_v2.c` acknowledges what it saw, hands the frames up with
the lock released, and acknowledges RXCOMP again when it is back. A frame that
arrived in between is left without an interrupt until the next one arrives.
`OnlyAckRxLoses` says that nothing else loses one, and `FramesTakenOrSwept` that
every other frame is taken.

### XmacLink: link state

An action is what a thread does from taking the lock to releasing it next; `th`
has, for each ioctl thread and the tick, where it is in the unlocked stretch of
`mediachange` (`SetRefClk`, `Relock`), from which operation, and with which
media. The FreeBSD MII layer is external (`MiiUpdate`): it compares what it sees
with its last values and calls `statchg` or `linkchg`. `cfg` and `refclk` are the
speed in the NWCFG register and the one the clock was set for.

### SdifRequest: a request from call to done

Three threads: `request` (`rpc`) and the callout (`tpc`), which exclude each other
by the lock, and the interrupt task (`ipc`), which does not. The assignments of
`sdif_finish_command` are steps of their own, because the others run between
them. The controller executes one command (`hw`) that has events to raise
(`hwleft`); what it has raised and not delivered is `irq`. The environment is drawn
from `Env` at the start and stays: `auto_stop` (no SET_BLOCK_COUNT before the data)
and what `card` may do, `"lossy"` (answers may be lost, the card may stay busy, a
start may fail) and `"slow"` (an answer may come as late as the timeout).
DMA preparation is its outcome. `FSdifGetCmdResponse`, whose failure would panic
(line 812), reads the registers of a controller that was set up, and does not fail.

### SdifHotplug, SdifHost

`SdifHotplug` separates the two reads of the interrupt (slot, then `sc->child`) and
the steps of `sdif_card_task`; the queue is two flags, since a queued task is not
queued twice. `Hasty` lets the card move while they are at work. A new child is
always made: `device_add_child` fails for want of memory only. Attach calls the task
once itself (line 1014), while the system starts and holds the Giant lock under which
the queue (`taskqueue_swi_giant`) runs its tasks, so `TaskRun` stands for both. `SdifHost` is
`acquire_host`/`release_host` for any number of threads, with the lock that
`msleep` releases, its timeout, and the wakeup of all sleepers.

A thread that owns the host may take the lock for a request (`UseLock`).

### SdifMsgRequest: the request path of v2, under the ownership of the host

Threads claim the host (`SdifHost`, extended), issue requests and release it; the
place of each in `phytium_sdif_v2_request` is `rpc`. The text of the callbacks, the
callout and the controller is that of v1, so these actions are `SdifRequest`'s,
instantiated as `R` with a thread standing for its request; the v1 request thread
is replaced. `request` polls the card without the lock, `set_block_count` takes it
and polls for the answer with it held, and the transfer takes it again.
`wired` remembers what was last put on the wire.

### SdifSettings: bus settings and commands of both drivers

`ios` is what the MMC layer asks for, `cache` what the driver remembers having
programmed, `hw` the controller, and `cur` what v2's message library sent last. An
update runs under one hold of the lock and is one action, with the failures of
its calls as alternatives: a clock that fails may be left `Lost`, a v2 voltage may
be switched before the message with the rest fails. A voltage that is neither 1.8, 3.3
nor 3.4 V is remembered by v1 and not programmed, and a panic in v2 (`MsgVoltPanic`,
after which nothing happens). Commands are named and have
an opcode, and a response for each kind of card; `pre_request` filters, v1 takes the
response from the layer's flags and v2 from its tables, which panic for what they
do not list.

What is assumed of the MMC layer: power goes off, up and on with an update after
each; GO_IDLE comes first; commands are sent when the last update succeeded;
HS400 is asked at width 8 only. Width, clock, timing and voltage are written one by one,
in any order, with an update after any of them. The card in a removable slot is an SD
card; nothing is erased. After a failed update the layer may ask for anything.

`Agreed` says that after an update that succeeded the controller has each setting asked
for, and is exact about what it cannot say. v1 programs DDR with the clock only, so its
timing is the one asked for when the clock last changed (`good.timing`). And a setting
that returns to its old value after a failed update looks programmed although that
update may have changed it: `tried` has, for each setting, what the failed updates since
its last change may have left (`Left`: a lost clock in v1, in v2 a voltage already
switched, or the power that was to be sent), and the controller has either that or what
was asked for, never a third value.

### UsbInput

One model for the two files, which differ in names and output. The tasks' locals
(`ofd`, `rfd`, `omsg`), the queues of 16 messages, and the flags are variables.
`live` is the set of descriptors whose device has not been unplugged since the
open: only those can be read. `early` remembers that exit came before both tasks
had begun. In the example it does not, because `Init` lowers its own priority
below theirs before it can reach `exit` (`main.c:176`); the two properties about
the end of the tasks are claimed for that order only, the others for both.

## 4. Runs

| Run | Shows | Bounds |
|---|---|---|
| `tx_ring` | `NoTornFrame`, `MacReadsLive`, `Conservation`, `HeadStopsMac`, `ImplementsFifo` | 6 descriptors, 2 segments, 3 packets: longer than the reserve of 4, and both a wrap after one frame and a wrap after two happen, so descriptors are skipped and recycled |
| `tx_live` | `FramesLeave`, `WaitingRestarts` | 4 descriptors, 1 segment, 3 packets: the ring fills with two frames, a third waits behind `IFF_DRV_OACTIVE` |
| `rx_ring` | `DmaInRing`, `OneOwner`, `TailHasBuffer`, `FramesTaken`, `NoStarvation` | 4 descriptors, 3 buffers posted, 3 in all: a full ring, and allocations that fail and a ring that runs dry whenever the stack holds some |
| `xmac_msg` | `OneOwner`, `OnlyAckRxLoses`, `FramesTakenOrSwept` | 3 descriptors, 2 buffers posted, 3 in all: the ring wraps, runs dry, and frames arrive while `recv` hands others up |
| `link_poll` | `PollAlive`, `ViewAgrees` | two ioctl threads, the tick, all three speeds: up to three threads in the unlocked stretch |
| `sdif_request` | `AnsweredOnce`, `PendingWhenDone`, `TimeoutUnanswered`, `WireWatched`, `WireEnds` | two requests, each reused without bound: enough for a new request to meet what the last one left; a prompt card with either setting of `auto_stop`, a lossy one with `auto_stop` |
| `sdif_timeout_race` | a violation, see 7 | a slow card with `auto_stop` |
| `sdif_stale_request` | a violation, see 7 | a lossy card without `auto_stop` |
| `sdif_msg` | `HostExclusive`, `HostIsTaken`, `CountThenTransfer`, `MsgAnsweredOnce`, `RequestEnds` | two threads, each with any requests one after the other: an owner inside a request, and one that waits for the host and looks at it whenever the lock is free; the environments of `sdif_request` |
| `sdif_settings` | `Agreed`, `InitFirst`, `ResponseExpected` | both drivers, v1 with both clock methods, both kinds of card; widths 1 (at the start) and 8; 1.8 V, 3.3 V and a voltage no driver knows; three clocks, one of each kind in the fixed tables (with hold, without, no row), each with an SDR or a DDR timing |
| `sdif_hotplug` | `SettledAgrees`, `InsertedIsAttached`, `RemovedIsDetached` | finite by nature; the card moves without bound |
| `usb_input` | `ReadsOpenDescriptor`, `OneToken`, `QueuesOutliveTasks`, `Reopens`, `ExitEnds` | two descriptors, so that a leaked one shows; exit at any time |

`tx_ring` and `sdif_request` also check the type invariants of their modules, which
say more than types; those of the other modules are proved only.
Deadlock is checked except in `sdif_request` and
`sdif_stale_request`, whose card loses answers: a caller whose request the driver
refused without `done` waits for ever, which is a stop of the system and a listed
hazard; and in `sdif_settings`, where v2 panics for an unknown voltage.

## 5. Fairness

* A thread that holds `sc_mtx` goes on, and so does hardware: weak fairness of
  `Driver`, `Mac`, `HwEvent \/ HwLose` and of the steps of each thread.
* A thread that waits for `sc_mtx` gets it: strong fairness of `Start`, `Intr`,
  `IntrResume` and `RecvRelock`, because the lock is taken by others again and
  again. RTEMS mutexes queue their waiters by priority, and the drivers' threads
  are the interrupt server's and the stack's. In `SdifMsgRequest` the threads that
  claim the host and the callout get the lock in the same way (`HostLock`, `MsgLock`,
  `Timeout`), and `HostIsTaken` promises only that somebody gets the host.
* Timers fire: weak fairness of `Timeout` and of the waits with a time limit.
* Nothing is assumed of the stack sending, of users, of cards, of the PHY, of
  interfaces being brought up, or of memory coming back except where a property
  says so (`NoStarvation` needs the stack to free its packets: `StackFree`).

## 6. Proofs

`XmacTxProof` proves, for every `NumDesc > 2 * MaxSegs`, every set of packets and
every number of senders:

* `TypeCorrect`: `Spec => []TypeOK`; the content is that the unchecked indexing
  `txring_hd_ptr + i` stays inside the ring.
* `NeverTorn`: `Spec => []NoTornFrame`.
* `HeadStops`: `Spec => []HeadStopsMac`.

Neither invariant is inductive: they speak about the MAC's place and the head, and
say nothing of the descriptors in between. `IInv` unrolls the ring. With `e` the
slot whose WRAP bit ends the current lap, slot indices from the tail on become
consecutive virtual indices (`At`, `Virt`), and the invariant says where the window
in use lies (`Window`: either one run up to the head, or a lap that ends within
`MaxSegs + 1` of the ring's end), which bits its descriptors have (`Bits`: WRAP at
`e` only, LAST at the end, USED outside), that from the MAC's place on the window
consists of whole unread frames (`Pending`), what the MAC is reading (`Reading`),
and what the locals of `start_locked` and `clean_tx` promise (`Filling`,
`Walking`). The only arithmetic fact needed of the constants is
`NumDesc > 2 * MaxSegs`: `HeadRoom` derives from the reserve that the head and the
longest frame fit before the end of the ring and never reach the tail. One lemma
per action shows that `IInv` is kept; `RingFrame` covers all actions that do not
touch the ring.

Two more theorems are about the packets: `PacketsKept` (`Spec => []Conservation`)
and `NeverReadsFreed` (`Spec => []MacReadsLive`). `Conservation` alone says of each
entry of `txring_m` that it is nobody else's, but not that an entry which
`start_locked` overwrites is empty, nor that `clean_tx` finds one at the tail.
`Packets` adds it: only the first slot of a frame has an entry (`FirstOnly`), each
frame still in the window has one (`Recorded`), and the descriptors of a frame
point to the packet of its entry (`Addressed`). `PacketsHold` carries it along with
`IInv`, so the lemmas about the window serve both.

`RingIsFifo` (`Spec => ImplementsFifo`) is the refinement of `TxFifo`. Three lemmas say
what becomes of a set of slots listed in the MAC's order when a slot is added behind
all others (`OrderAppends`), when the first is taken away (`OrderTails`), and that the
list has each slot once (`OrderLists`). They apply because the unsent frames begin
between the MAC and the head (`StartsAhead`), and because the frame at the MAC is
the first of them. Then `FillDesc` of a frame's first descriptor is `Accept`
(`FillFirstAccepts`; the lengths of the others stay, `FillKeepsFrames`), `MacDone` is
`Deliver` (`MacDoneDelivers`), `StopClear` is `Discard` (`StopDiscards`), and `InitLocked`
and `Stop` are `Switch`; every other step leaves the queue alone (`StillFifo`), in
particular `clean_tx`, which frees and marks only what the MAC has sent.

`SdifRequestProof` proves `TypeCorrect` for every set of requests and every `Env`,
and the four invariants of `sdif_request` (`FinishedOnce`, `NeverSpurious`,
`TimedOutWaiting`, `TimerRuns`) under the hypothesis `Copes`: no card of `Env` is slow,
and one that is lossy comes with `auto_stop`. The environments of the runs
`sdif_request` and `sdif_msg` are of this kind; without the hypothesis the
invariants are false. Under it even the two properties that section 7 finds
violated hold (`TimeoutFinds`, `PrivateAlone`): those cards are the only cause.
The invariant follows the answer: each event of it is still to come (`hwleft`), in the
controller's status (`irq`), in the task's copy (`ibits`) or handled, and never in two of
these places (`Answer`); the steps of `sdif_finish_command` begin when all are
handled (`Finishing`); while a request is prepared nothing is on the wire
(`Quiet`, `Prepared`, `Issued`); and the block count's answer is polled for apart
(`CountAnswer`).

`SdifMsgProof` proves `TypeCorrect` and `Exclusive` (`Spec => []HostExclusive`) for
every set of threads, from the invariant that `bus_busy` is 0 exactly when nobody
is inside and that whoever is about to read or write it has the lock. It then
proves that v2's request path implements that protocol
(`MsgImplementsHost`: `MsgSpec => Spec`), step by step: what a request does between
`acquire_host` and `release_host` is a step of `SdifHost` or leaves its variables
alone. `MsgExclusive` (`MsgSpec => []HostExclusive`) follows. On it rest `CountPrecedes`
(`[]CountThenTransfer`) and `MsgFinishedOnce` (`[]MsgAnsweredOnce`), again under `Copes`:
`FlagsInv` is the invariant of `SdifRequestProof` with the thread inside the host in the
place of the one request. That there is one is not a matter of the lock, which v2
releases between a block count and its transfer, but of `HostExclusive`;
`CountWired` remembers what the last hold of the lock put on the wire.

`SdifSettingsProof` proves `SettingsAgree` (`[]Agreed`), `FirstInitialises`
(`[]InitFirst`) and `WaitsForResponse` (`[]ResponseExpected`) for every set of clocks,
timings and voltages and the three widths. `Agreed` speaks of moments after a good update; the invariant says
what the memory of each driver is worth at any time. v1: a remembered width, power
or voltage is programmed (`Programmed`), a power change is at most one update behind
(`PowerFollows`), and so is the clock, unless it failed on the way
(`ClockProgrammed`, which also has the timing of that clock). v2: what was sent last is
what is remembered, but for a voltage that a failed update switched (`SentRemembered`)
and the power that attach sent (`PowerSent`).

`XmacLinkProof` proves `TypeCorrect`, `PollsOn` (`[]PollAlive`) and `ViewFollows`
(`[]ViewAgrees`) for any number of ioctl threads. `ViewAgrees` is about moments when
no thread is inside `mediachange`, and needs `Followed`: the PHY driver's copy of
the media differs from the MII layer's only while a statchg is under way. A poll
that sees nothing new then cannot miss that the cached media is old.

`SdifHotplugProof` proves `TypeCorrect`, and `Settled` (`[]SettledAgrees`) for a card
that keeps still while handler or task is at work (`~Hasty`). The strengthening is
`Current`: what either has read of the switch is still so.

`XmacRxProof` proves `TypeCorrect`, `WritesInRing` (`[]DmaInRing`),
`BuffersOwnedOnce` (`[]OneOwner`) and `RecvFindsBuffer` (`[]TailHasBuffer`) for every
ring size and number of buffers. `OneOwner` is not inductive: that `fill_rqueue`
overwrites no buffer, and that `recv` finds one, depends on where the buffers of
the ring are. `Window` says it with `Offset`, the distance of a slot from the tail
around the ring: a slot has a buffer exactly when its offset is below the count
(one more while a buffer is being posted), and the head is at the offset
`rxring_queued`. `Pointing` and `Writing` tie both halves of the addresses in the MAC's
descriptors to the recorded buffers (`Posting` those of the one being filled), and `Off` says that the receiver is off whenever `init` turns it on.

For v2 it proves `MsgBuffersOwnedOnce` (`MsgSpec => []OneOwner`) and
`OnlyAckRxMayLose` (`MsgSpec => []OnlyAckRxLoses`). The steps there are those of
`XmacRx`, whose lemmas apply since `IInv` says nothing of where the handler is, or
steps that leave ring and buffers alone (`QuietKeeps`). `Announced` is the invariant
behind the second theorem: a frame at the tail has its RXCOMP up, or `recv` is
looking, or RXCOMP was swept away by an acknowledgement that is over.

`UsbInputProof` proves `TypeCorrect`, `TokenKept` (`[]OneToken`), `ReaderHasIt`
(`[]ReadsOpenDescriptor`) and `QueuesLast` (`[]QueuesOutliveTasks`) for any descriptors. `OneToken` needs `Begun`, that nobody has
the token before the configuration sends it, and `Held`, that a descriptor sent
to the read task is the open one until it comes back; each then protects the
other: only the holder of the token may close or open. `QueuesLast` needs
`ActiveInLoop`, that the active flags are set exactly while a task is in its loop,
and `Ending`, that after an exit which found both begun none is new again, and both
are done once the queues are gone.

Assumptions: the named ones of the modules (`ConfigAssumption`, `ThreadAssumption`,
`MsgAssumption`, `FdAssumption`; of `SdifSettings`, `SettingsAssumption`, the kinds of
values, and `UnsetAssumption`, that the caches' initial value is no setting), and the hypotheses `~Hasty` and `Copes` where they are said, nothing else.

Only model-checked are the liveness properties (`FramesLeave`, `WaitingRestarts`,
`FramesTaken`, `NoStarvation`, `FramesTakenOrSwept`, `WireEnds`, `HostIsTaken`,
`RequestEnds`, `InsertedIsAttached`, `RemovedIsDetached`, `Reopens`, `ExitEnds`), since
liveness under fairness is outside what the proof system does, and the two
properties of section 7, which fail.

## 7. Where code and comments disagree

Each is a run that expects a violation; `PROJECT.json` quotes the lines.

* `sdif_timeout_race`: the callout's panic "Spurious comand - no request" can
  be reached by an answer that comes together with the timeout.
* `sdif_stale_request`: after a timeout the old request is still in `sc->req`; the
  next SET_BLOCK_COUNT finishes it a second time.

Other behaviours of the same code go wrong in ways that have no run of their own:
a media ioctl on the down interface caches the media, `init` then resets the
register to 1000 Mb/s, and no later statchg programs it, although `stop` says
"Force next statchg or linkchg to program net config register"
(`phytium_xmac.c:1072`); a card that comes back while the child of the last one is
being deleted is never attached, since the interrupt still finds `sc->child`
(`Hasty`); in v2 a frame that arrives while `recv` has released the lock waits for
the next one (`phytium_xmac_v2.c:762`); a v2 voltage, or a v1 clock, whose update
failed and which then returns to its old value is not programmed again (`tried` in
`SdifSettings`), nor is a timing changed at the same clock in v1; v2 panics for a
voltage it does not know, with the lock held, and for an
MMC card in a removable slot and for an erase, whose opcodes its tables lack; a
slow card that answers SET_BLOCK_COUNT after the driver gave up on it makes the
next request's own answer panic (`PendingWhenDone` with `Env` a slow lossy card
without `auto_stop`); a card pulled between the card task's look at the slot and
its creation of the child leaves that child attached (`RemovedIsDetached` with
`Hasty`); a command that finishes before its timer is armed leaves it armed, to
fire without effect; and the reference clock follows neither a 10 Mb/s link nor
two media changes whose unlocked stretches overlap (`refclk` in `XmacLink`).

## 8. Not modelled

Attach and detach run once and in one thread; the order in which detach tears
things down is wrong in several places, which are listed as hazards, and no
property of it would hold. The v2 transmit ring is left for later (section 2); the
v2 link code has the text of v1. The SDIF DMA descriptors appear as the outcome of
their preparation, success or failure. MDIO access, the multicast filter, offload
capabilities, device tree attachments, the CAM glue (not compiled), start-up code,
debug output, the empty GMAC file and the build and image tools have no behaviour
over time that a model would add to; `PROJECT.json` gives the reason for each.
Statistics, logging and cache maintenance are left out of the modelled operations;
memory is taken to be coherent, in program order, as the drivers' barriers and
uncached rings provide.
