# Verification of stm32_network_stack

TLA+ models, model-checking runs and machine-checked proofs for the firmware
that lets an STM32 Nucleo board with an ENC28J60 ethernet module answer pings.
Only the repository's own code is modelled (`enc28j60/`, `stm32_app/`), about
1900 lines; FreeRTOS, lwIP and the chip are environments, modelled from how that
code uses them and, for the chip, from the datasheet and the errata in `doc/`.

Paths below are relative to the repository, `eth:73` means line 73 of
`stm32_app/tasks/eth_packet_task.c`, `ip:` is `ip_stack_task.c`, `app:`
`stm32_network_app.c`, `drv:` `enc28j60/enc28j60.c`, `dbg:` `enc28_debug.c`.

## 1. Inventory

| Component | State | Operations | Correct when |
|-|-|-|-|
| Ethernet task (`eth`) | `pkt_buf`, the buffer in hand | publish buffers, receive loop, transmit one frame, wait 10 ticks or for a notification | every frame is moved once, in order; buffers are not lost; it does not block for ever |
| IP task (`ip`) | packet in hand, one `pbuf_custom` | receive, hand to lwIP or answer a ping, output, free, run timers | the same |
| Three queues of buffer pointers | contents, waiting task | send with timeout 0 or `portMAX_DELAY`, receive | one owner per buffer; sends whose result is ignored never fail |
| Scheduler, interrupt | running task, what each task waits for, notification | block, wake, yield, ISR | every frame is delivered in the end, no mutual wait |
| Boot (`app`, `drv:88-308`) | register banks, the driver's copy of the bank, MII, clock | reset, init, read revision, begin transfer, create tasks | registers reached are the ones named; receiving starts on a configured chip and with a task to notify |
| Driver, receive (`drv:650-757`) | ERDPT, ERXRDPT, EPKTCNT, RXERIF, the ring | read header and data, skip, release, decrement, recover | each frame returned once, in order, intact |
| Driver, transmit (`drv:759-892`) | ETXST/ETXND, TXRTS, TXIF | write a frame, start, check status | each frame sent once, whole |
| Ping responder (`dbg`) | none | recognise a request, build the reply | reply is valid |

How they interact: the chip pulls INT low, the EXTI interrupt gives the
ethernet task a notification (`app:66`), which copies frames from the chip into
buffers of *free* and sends them to *ready*; the IP task takes them, lwIP calls
back `enc28_netif_output` (copies into a buffer of *free*, sends to *transmit*)
and `enc28_pbuf_free` (sends to *free*); the ethernet task writes frames of
*transmit* to the chip and returns the buffers. The tasks share nothing else.
Preemption is off (`FreeRTOSConfig.h:40`): a task runs until it blocks.

What is hard here: the chip runs beside the driver and changes registers
between any two SPI commands; the buffers go round through three queues and two
tasks that can wait for each other; the interrupt is edge triggered and some of
its causes are never cleared; recovery from overruns and errors is hardly
testable on hardware. `PROJECT.json` lists the hazards line by line with the
properties that would catch them.

## 2. Modules

| Module | Models | Variables and actions |
|-|-|-|
| `PacketPipeline` | both tasks, queues, scheduler, interrupt, chip as seen by the tasks | one action per step of a task between two calls that can block or change shared state; a failed `configASSERT` is `Halt`; `calls` is what lwIP still does with a packet; `content` and the history variables follow every frame |
| `FrameFifo` | what receiving promises: a FIFO of frames | abstract specification |
| `Enc28Rx` | `enc28_read_packet` against the receive ring | one action per group of SPI commands; each byte of the ring is the number of the frame it belongs to |
| `Enc28Tx` | `enc28_write_packet`, `enc28_check_outgoing_packet_status`, `enc28_select_register_bank` against the transmit logic | read and write of ECON1 are two steps; ERDPT is borrowed and given back in two bytes |
| `NetworkStack` | the tasks on top of the step-by-step driver and the ring | composes `PacketPipeline` and `Enc28Rx`: `enc28_read_packet` is `Enc28Rx`'s SPI commands, the other actions are the pipeline's |
| `Enc28Boot` | `enc28_test_app` and the calls it makes | each driver function is a list of register accesses; one action per kind of access |
| `PingReply` | `enc28_debug_handle_ping` | the test for a request, addresses, type and checksum of the reply, against the one's complement sum |
| `PacketPipelineProofs`, `Enc28RxProofs`, `Enc28TxProofs`, `Enc28BootProofs`, `NetworkStackProofs` | theorems about the module of that name (section 4) | the inductive invariants are defined there |
| `MCPipeline`, `MCStack`, `MCRx`, `MCTx`, `MCBoot`, `MCPing` | instances for TLC | the constants are in the `.cfg` files |

`PacketPipeline` uses the chip at the level of `enc28_read_packet` (a frame, an
error for a frame, an overrun or nothing) and `enc28_write_packet` (TXRTS is set or
not). That the first view is right is checked and proved: `Enc28Rx` refines a FIFO
of frames (`ImplementsFifo`), and `NetworkStack`, where frames, interrupts and ticks
come between any two SPI commands of the driver, refines `PacketPipeline`
(`ImplementsPipeline`: the frames the pipeline sees are those that EPKTCNT counts,
its `rxErr` is EIR.RXERIF). So the invariants proved of `PacketPipeline` hold of the
composition (`StackInvariants`).

In step and astray. Two things make `enc28_read_packet` lose its place in the ring
(`astray` of `Enc28Rx`): it returns an error for a frame (`drv:690`, `drv:697`) and
leaves ERDPT inside it, or it handles RXERIF while an unread frame lies behind the
write pointer, and ERXRDPT at the end of the ring (`drv:743`) no longer protects that
frame (`Exposed`). Both are steps of every specification here: frames may have an
error, may arrive between any two SPI commands, those of the recovery included, and
may be missed by PKTIF (errata 4; PKTIF is not set without a frame). What is
stated about order and content of received frames has the premise that neither has
happened yet (`InStep`, `inStep`). After that the driver reads what is in the ring as
headers, any next-packet pointer of `GarbageNext` and any length of `GarbageLens`, and
the pipeline calls the result frame 0, of any kind; types, ownership, sends and
outputs are claimed there too. Section 3 lists what fails without the premise.

Abstractions. A buffer is its index, a frame its number and kind. The kinds say
what lwIP 2.2.0 does with the packet: `echo` is freed, then answered
(`icmp.c`); `arp` is answered, then freed (`etharp.c`); a first fragment (`frag`)
is kept (`ip4_frag.c`); everything else is freed. Register pairs are one access:
the chip takes ERXRDPT over when its high byte is written (datasheet 7.2.4), the
other pairs are not used by it between the two writes. Null-pointer checks and
`ENC28_INVALID_REGISTER` are left out: the application passes one complete
context and the register names are constants. Stack watermark checks and output
by `printf` are left out.

Where the chip's documents allow several behaviours, the model has all of them:
PKTIF may miss frames at every read of EIR, a transmission may never end (errata 13),
the set-bits command may or may not work on a MAC or MII register (the datasheet
gives it for ETH registers only), the oscillator may be stable at power-on or not, and
a reset command stops the PHY clock but not CLKRDY (errata 1). There are no constants
that switch such a case off; the constants are sizes, bounds (`MaxFrames`, `MaxAfterBad`,
`ChipCapacity`, `MaxTimerOutputs`, `MaxWrites`), the build switch `USE_LWIP` and the sets that
inputs are taken from. `Enc28Boot` starts either as the application or, with `stage` at
`"any"`, as a program that calls the driver in any order.

## 3. Runs

Runs that pass:

| Run | Checks | Bounds |
|-|-|-|
| `pipeline_lwip` | `TypeOK`, `OneOwner`, `SendsNeverFail`, `RxInOrder`, `TxInOrder` | 2 buffers, 3 frames of kinds `echo`, `arp`, `frag` (`other` does a part of what `arp` does), ring of 2, 1 timer output; error returns and missed frames at any time |
| `pipeline_ping` | `NoLeak`, `NoMutualWait` without lwIP | 2 buffers, bursts of 5 frames |
| `stack` | `ImplementsPipeline`, `FramesAreDelivered`, `OutputsAreSent` | 2 buffers, 3 `arp` frames of 8 bytes with their header, good or bad, in a ring of 20; one frame after a bad one; garbage is a frame of one byte with next pointer 0 |
| `rx_ring` | `TypeOK`, `UnreadIntact`, `ReadsAtFrameStart`, `ErxrdptIsOdd`, `ImplementsFifo` | ring of 30 bytes (10 to 39), frames of 8 and 14 bytes with their header, 5 frames, of which any may be bad, and one more after a bad one; garbage lengths on both sides of the buffer's size, garbage next pointers 0, 11, 40 and 41 |
| `tx_race` | `BufferIsStable`, `WholeFrameSent`, `TxifIsFresh`, `ErdptIsReturned` | 3 frames of 5 sizes, 13 being too small; ERDPT at two addresses that differ in both bytes |
| `boot_up` | `RightRegister`, `DummyByteSkipped`, `PhyValueIsFresh` for any sequence of calls; `ReadyWhenReceiving`, `MacNeedsClock`, `BootCompletes` for the order of `enc28_test_app` | no constants: both duplex modes, clock stable or not at power-on, set-bits commands that work or not |

Two buffers are enough for every way in which buffers can meet (one in each of
two queues, both in one, one in the hands of each task) and the theorems of
section 4 cover the other numbers, as they do the other sizes of ring and frames.
The ring of 30 bytes holds two or three frames and does not divide by their sizes, so that frames wrap at every even
offset; five frames go round it about twice. The garbage next pointers take every
branch of `drv:719` (below the ring, inside it, one behind its end, two behind it),
0, 40 and 41 also that of `drv:667`. Two frames fit into the ring of `stack`, so a third
overruns it, and wraps once there is room. TX frames lie on both sides of address 255.

Runs that end in a violation state something that the repository says and the
code does not do; each is a finding in `PROJECT.json` with the quotation.

| Run | Property | What happens |
|-|-|-|
| `pipeline_deadlock` | `NoMutualWait` | with lwIP the reply is output after the request is freed, so replies can take all buffers while the ethernet task waits for one in its receive loop |
| `pipeline_txassert` | `WriteNeverAsserts` | the second of two replies is written while the first is being sent: `configASSERT` at `eth:98` |
| `rx_no_room` | `EmptyRingHasRoom` | after an overrun near the end of the ring, reception stops |
| `tx_twice` | `SentOnce` | a bank selection restarts a transmission that ended between its read and its write of ECON1 |
| `ping_carry` | `ReplyIsValid` | the carry of the checksum adjustment is lost |
| `boot_notify` | `NotifiedTaskExists` | INT and reception are enabled (`app:104`) before `packet_task_handle` is set (`app:107`): a frame in between makes `configASSERT( xTaskToNotify )` fail in the interrupt |

`PingReply` has no passing run: its one property is the one that fails, when the
addition overflows 16 bits (8 of the 65536 values of the checksum).

Known divergences without a run of their own. Each property is a definition of the
module of the run named, and TLC finds it violated with that run's constants, changed
as stated:

| Start from | Change | Property that fails | What happens |
|-|-|-|-|
| `pipeline_ping` | `USE_LWIP = TRUE`, `FrameKinds = {"frag"}` | `NoLeak` | lwIP keeps the packet of a fragment, the next packet overwrites the only `pbuf_custom` (`ip:158`), the buffer is never returned |
| `pipeline_lwip` | `FairSpec`, `FrameKinds = {"other"}` | `TimersRun` | when the network falls silent the IP task waits at `ip:117` for ever; lwIP's `timeouts.c:349` says of `sys_check_timeouts` "Must be called periodically from your main loop" |
| `rx_ring` | the premise `InStep` dropped | `ReadsAtFrameStart` | the error returns (`drv:690`, `drv:697`) leave ERDPT six bytes into the frame and EPKTCNT unchanged; the next header is read there |
| `rx_ring` | | `RecoveryKeepsFrames` | a frame stored between the read of EIR and the write of ERXRDPT (`drv:743`), or one that PKTIF missed (errata 4), is overwritten |
| `tx_race` | | `EtxndIsLastByte` | ETXND is one behind the last byte (`drv:800`), against the comment at `drv:802`: one stray byte is sent with every frame |
| `tx_race` | | `TsvBehindEtxnd` | the mask of the high byte comes after the shift (`drv:857`): above address 255 the status vector is read elsewhere |
| `boot_up` | | `MacIsSetUp` | MACON1, MACON3, MACON4 are written with a command that the datasheet excludes for MAC registers (`drv:151`, `drv:170`, `drv:176`) |
| `boot_up` | | `PhyIsReady` | CLKRDY says nothing after a reset command (errata 1): the PHY is read while its clock stands |

Deadlock checking is off where the system may stop: after a failed assertion or
a mutual wait in the pipeline, after a failed assertion while booting, and after
the one reply of `PingReply`.

Fairness. `stack` assumes weak fairness of the running task, the idle task (it
yields in every turn of its loop, `configIDLE_SHOULD_YIELD`), a pending interrupt and
the tick, and strong fairness of a read of EIR that sees PKTIF (`SeesFrame`): the flag
may miss a frame any number of times, but not at every read for ever; the errata
calls it unreliable, not dead. Nothing is assumed about frames, nor that a
transmission ends (with errata 13 it may not; the next write then fails the
assertion, which the two properties count as an end). The tasks need no strong
fairness since a task that has the CPU keeps it. `FramesAreDelivered` has the
premise that overruns end
(`OverrunsEnd`): each overrun raises INT, and if a notification is pending at every
`ulTaskNotifyTake` the ethernet task never blocks and, without preemption, the IP
task never runs; without the premise TLC finds this behaviour. It also ends when
the driver loses step: what it reads then need not be frames. Both properties
are about a bounded number of frames, `echo` left out because of the mutual wait
above: an endless stream of frames keeps the ethernet task in its receive loop
(`eth:66`) and outputs wait. `boot_up` assumes weak fairness of the program, of
the oscillator's start and of the completion of an MII read.

## 4. Theorems

### The packet path

`PacketPipelineProofs` proves, for every number of buffers, every set of frame
kinds and every bound (`PipelineAssumption` only), with the driver in step or not:

* `TypeCorrect` — types, together with `Control`: a task holds a buffer exactly
  at the steps where its code has one.
* `NoSendFails` — no queue is full when somebody sends to it.
* `UniqueOwner` — a buffer has one owner.
* `ReceiveOrder` — `RxInOrder`: frames read in step are delivered once, in order,
  intact; while the driver is in step no accepted frame is missing.
* `TransmitOrder` — outputs go through once, in order, intact.
* `BuffersAreReturned` — `NoLeak`, assuming `NeverKept`: no lwIP, or no fragments.
  Section 3 shows that the assumption is needed.
* `NoDeadlockWithoutLwip` — `NoMutualWait`, assuming `~USE_LWIP`.
  `pipeline_deadlock` shows that it is needed.

The argument. `TypeOK` is not inductive: `EthPutReady` sends `ethBuf`, of which
`TypeOK` says only that it may be no buffer, so `Control` ties steps to buffers.
With it, `Bounded` (buffers in queues, in hands and not yet published are at
most `MAX_ETH_PACKETS`) is inductive by counting, and a queue of that capacity
has room whenever somebody holds a buffer: `SendsNeverFail`. So a send always
moves its buffer, and `OneOwner` is inductive. One owner means that filling a
buffer changes no frame that stands in a queue: on that rest `RxInOrder` and
`TxInOrder`. For `NoLeak` the count is exact once every packet is owed a
callback (`Returned`). For `NoMutualWait` without lwIP, `Answering` says that
replies are made while the request is held, so the transmit queue never has all
buffers; if both tasks waited, all buffers would have to be there.

### The receive path (`Enc28RxProofs`)

For every even start and odd end of the ring, all frame lengths up to the size
of the driver's buffer and any number of frames (`RxAssumption`; the chip drops
frames above MAMXFL, 1536, and `pkt_buf` has 1600 bytes; garbage may be any 13-bit
pointer and any length). Nothing is assumed of the chip beyond its actions:

* `TypeCorrect` — `TypeOK`: even when the driver has lost its place, it leaves
  ERXRDPT in the ring; ERDPT may be any 13-bit address.
* `FramesIntact` — `UnreadIntact`: while the driver is in step, no frame still to be
  copied is overwritten.
* `HeaderAtStart`, `OddErxrdpt` — `ReadsAtFrameStart`, `ErxrdptIsOdd`, while in step.
* `Refinement` — `ImplementsFifo`: driver and ring implement `FrameFifo`; what is
  returned after the driver lost step is not counted (`got` stays).

The premise names the two events of section 2 and nothing else: frames that arrive
in the recovery, or that PKTIF missed, do no harm unless they are `Exposed`.

The argument. Positions are measured from ERXRDPT (`Pos`, a
distance around the ring), so that wrapping disappears from the invariant.
`Chain` says that each frame starts where the one before it ends, at an even
address, and the next one will start at ERXWRPT; `Layout`, that the frames which
ERXRDPT protects lie between it and ERXWRPT in their order, without overlapping;
`Intact`, that their bytes are theirs; `InCall`, what ERDPT, the header and the
data are worth at each step of `enc28_read_packet`. `UnreadIntact` alone is not
inductive: that a new frame spares the old ones follows from `Layout` and from the
free space that the chip computes. `RxInv` has `Layout`, `Intact` and `InCall` only
while the driver is in step, and for the time after that only the types. The
recovery keeps `Layout` unless a frame is `Exposed`: the unread frames then lie, in
their order, below the write pointer, and the whole rest of the ring becomes free.

### The transmit path (`Enc28TxProofs`)

For all frame sizes, addresses of the buffer and numbers of writes
(`TxAssumption`): `StableBuffer` (`BufferIsStable`), `WholeFrame`
(`WholeFrameSent`: the frame and exactly one byte behind it), `TxifFresh`
(`TxifIsFresh`) and `ErdptReturned` (`ErdptIsReturned`). `TxInv` ties the registers to the step of the call: `Quiet`
(between the check of TXRTS and its setting neither TXRTS nor the value of ECON1
in hand has it set, so that no bank selection starts anything), `Covered` (ETXST
and ETXND enclose the frame whenever a transmission runs or can be started),
`Fresh` and `Borrowed` (while ERDPT is elsewhere, its two saved bytes are what it
has to return to; `AddressOfBytes` says that they make up the address again).

### Boot and register access (`Enc28BootProofs`)

For programs that call the driver in any order, resets included, and for any
behaviour of the chip:

* `RegistersRight`, `DummyBytes` — `RightRegister`, `DummyByteSkipped`. A list of
  accesses is `Ready` from bank b when each access is to a common register or has
  its bank selected before it, by the list or since before the list; `BankInv` has
  the accesses left ready from the bank that chip and driver agree on, or from
  no bank when they do not (after a reset). So the copy that a reset leaves behind
  is harmless because every function selects a bank before it relies on one.
* `PhyFresh` — `PhyValueIsFresh`. A read of the PHY has four phases; `PhyInv` says
  that the accesses left can be walked through from the phase the MII is in, to
  an end where no read is under way.

For the order of `enc28_test_app`, and for a chip that obeys the set-bits command on
MAC registers or not, whose PHY clock a reset stops:

* `ClockFirst` — `MacNeedsClock`: until CLKRDY is set, only accesses outside MAC and
  MII come before the polling loop (`ClockInv`).
* `SetUpFirst` — `ReadyWhenReceiving`: each register that is written is programmed or
  still on the list of its call, PHCON1 has been read when its duplex bit is used, and
  the mode that goes to MACON3 is the one read (`SetupInv`, which needs `BankInv`, `PhyInv`
  and `StageInv`: what may be on the list at each stage, and that nothing before
  `enc28_begin_packet_transfer` enables reception).

### The whole stack (`NetworkStackProofs`)

Without further assumptions:

* `StackRefinement` — `ImplementsPipeline`: each step of the tasks, the driver, the
  chip and the interrupt is a step of `PacketPipeline` or a stutter. Losing step is one
  of the pipeline's steps (`EthReadError`, `EthRecover`).
* `StackInvariants` — so `OneOwner`, `SendsNeverFail`, `RxInOrder` and `TxInOrder` hold of
  the tasks on the step-by-step driver.
* `StackWithoutLwip` — and, assuming `~USE_LWIP`, `NoLeak` and `NoMutualWait`.

The steps of the driver in the stack are steps of `Enc28Rx`, so the invariant of
the ring holds there (`RingInvariant`). `Coupled` says where the ethernet task is
while the driver works. That is needed where the ring decides: EPKTCNT counts a
frame until the driver decrements it, so `enc28_read_packet` returns a frame
exactly where the pipeline takes one; in step it is the oldest because its header was
read at its start, and out of step the pipeline knows it as frame 0.

### Only model-checked

`FramesAreDelivered`, `OutputsAreSent` and `BootCompletes` are liveness under fairness,
outside the prover used. Every safety property of a passing run is proved. The
properties of the violation runs and of the list of known divergences are false with
the constants given there.

## 5. Not modelled

* FreeRTOS and lwIP themselves; the expiry of lwIP's reassembly timer, which
  walks the payload of a kept fragment through an overwritten `pbuf_custom` (its
  links are then bytes of another frame): what it frees is not defined.
* SPI transfers and the HAL (not in the repository); SPI commands are reliable.
* Output of pbuf chains (`ip:56` copies the first pbuf only): the replies of this
  configuration are single pbufs.
* Errata 3 (the write pointer may start at 0): the ring of `Enc28Rx` has no memory
  outside it, and the errata does not say where the chip would write.

## 6. Plan

1. Every safety property of the passing runs is proved. To be proved still: that
   `PingReply`'s checksum adjustment is right outside the 8 values that overflow,
   which needs a property with that premise.
2. Memory outside the ring, if the behaviour of errata 3 becomes known.
