--------------------------- MODULE PacketPipeline ---------------------------
(***************************************************************************)
(* The packet path of the application: the ethernet task                   *)
(* (packet_handling_task), the IP task (ip_stack_task), the three queues   *)
(* of buffer pointers between them, the receive interrupt, the             *)
(* cooperative FreeRTOS scheduler (configUSE_PREEMPTION 0) and, as the     *)
(* environment, the ENC28J60 as enc28_read_packet and enc28_write_packet   *)
(* present it.                                                             *)
(*                                                                         *)
(* A packet buffer is its index in eth_packets[].  A frame is its sequence *)
(* number: received frames are numbered as the chip accepts them,          *)
(* transmitted frames as lwIP (or the ping responder) outputs them.  What  *)
(* enc28_read_packet returns after it has lost step with the receive ring  *)
(* (Enc28Rx) is frame 0.                                                   *)
(***************************************************************************)
EXTENDS Integers, Sequences

CONSTANTS
    MAX_ETH_PACKETS,    \* buffers, and the capacity of each of the queues
    USE_LWIP,           \* the build switch of stm32_network_app.h
    FrameKinds,         \* what the network sends us
    MaxFrames,          \* bound: frames the chip accepts in one behaviour
    ChipCapacity,       \* bound: frames the receive ring of the chip holds
    MaxTimerOutputs     \* bound: frames lwIP's timers output in one behaviour

ASSUME PipelineAssumption ==
    /\ MAX_ETH_PACKETS \in Nat \ {0}
    /\ USE_LWIP \in BOOLEAN
    /\ FrameKinds \subseteq {"echo", "arp", "other", "frag"}
    /\ MaxFrames \in Nat
    /\ ChipCapacity \in Nat \ {0}
    /\ MaxTimerOutputs \in Nat

VARIABLES
    free, ready, transmit,  \* the three queues: buffers, oldest first
    content,                \* the frame in each buffer
    published,              \* buffers the start-up loop has put in "free"
    ethPc, pktBuf, ethBuf,  \* ethernet task: step, pkt_buf, free_buf / to_send
    ipPc, packet, calls,    \* IP task: step, ready_packet, callbacks lwIP owes
    timerOutputs,           \* frames output by lwIP's timers so far
    running,                \* the task that has the CPU
    ethWait, ipWait,        \* what each task is blocked on
    notified,               \* the notification value of the ethernet task
    irq,                    \* the EXTI line is pending
    pending, rxErr,         \* chip: frames in the ring, EIR.RXERIF
    txBusy, txErr,          \* chip: ECON1.TXRTS, EIR.TXERIF
    inStep,                 \* history: the driver is in step with the ring
    lastRead,               \* history: last frame read in step
    rxLog,                  \* history: the kind of every accepted frame
    delivered,              \* history: last frame the IP task received
    outputs, lastSent       \* history: last frame output / given to the chip

queues   == <<free, ready, transmit>>
ethVars  == <<ethPc, pktBuf, ethBuf, published>>
ipVars   == <<ipPc, packet, calls, timerOutputs>>
rtos     == <<running, ethWait, ipWait, notified, irq>>
chip     == <<pending, rxErr, txBusy, txErr>>
stepVars == <<inStep, lastRead>>
history  == <<rxLog, delivered, outputs, lastSent>>
vars     == <<queues, content, ethVars, ipVars, rtos, chip, stepVars, history>>

Buffers  == 1..MAX_ETH_PACKETS
NoBuffer == 0

Frame   == [dir : {"blank", "rx", "tx"}, id : Nat]
Blank   == [dir |-> "blank", id |-> 0]
Rx(n)   == [dir |-> "rx", id |-> n]
Tx(n)   == [dir |-> "tx", id |-> n]

(* What the IP task still does with the packet it received: outputs made   *)
(* before the buffer is given back, whether it is given back, outputs made *)
(* afterwards.                                                             *)
Calls == [before : Nat, free : BOOLEAN, after : Nat]

Init ==
    /\ free = <<>> /\ ready = <<>> /\ transmit = <<>>
    /\ content = [b \in Buffers |-> Blank]
    /\ published = 0
    /\ ethPc = "init" /\ pktBuf = 0 /\ ethBuf = NoBuffer
    /\ ipPc = "init" /\ packet = NoBuffer
    /\ calls = [before |-> 0, free |-> FALSE, after |-> 0]
    /\ timerOutputs = 0
    /\ running = "ip"                    \* priority 2 against 1
    /\ ethWait = "none" /\ ipWait = "none"
    /\ notified = FALSE /\ irq = FALSE
    /\ pending = <<>> /\ rxErr = FALSE
    /\ txBusy = FALSE /\ txErr = FALSE
    /\ inStep = TRUE /\ lastRead = 0
    /\ rxLog = <<>> /\ delivered = 0 /\ outputs = 0 /\ lastSent = 0

-----------------------------------------------------------------------------
(* FreeRTOS: queues and the scheduler.                                     *)

(* xQueueSend with a timeout of 0 whose result nobody looks at.            *)
Send(q, b) == IF Len(q) < MAX_ETH_PACKETS THEN Append(q, b) ELSE q

(* The highest-priority task that is not blocked.                          *)
NextTask(eth, ip) ==
    CASE ip = "none" -> "ip"
      [] ip # "none" /\ eth = "none" -> "eth"
      [] OTHER -> "idle"

(* Sending to "free" makes the ethernet task ready if it waits there; it   *)
(* does not run before the sender blocks.                                  *)
WakeOnFree == IF ethWait = "free" THEN "none" ELSE ethWait

(* With preemption off, the idle task is the only one that offers the CPU. *)
IdleYield ==
    /\ running = "idle"
    /\ NextTask(ethWait, ipWait) # "idle"
    /\ running' = NextTask(ethWait, ipWait)
    /\ UNCHANGED <<queues, content, ethVars, ipVars, chip, stepVars, history,
                   ethWait, ipWait, notified, irq>>

-----------------------------------------------------------------------------
(* The ethernet task, packet_handling_task().                              *)

EthAt(pc) == running = "eth" /\ ethPc = pc

(* Mutant: the start-up loop runs with <= instead of <. *)
EthInitOneTooMany ==
    /\ EthAt("init")
    /\ published <= MAX_ETH_PACKETS
    /\ published' = published + 1
    /\ free' = Send(free, published + 1)
    /\ content' = [content EXCEPT ![published + 1] = Blank]
    /\ ethPc' = IF published + 1 > MAX_ETH_PACKETS THEN "read" ELSE "init"
    /\ UNCHANGED <<ready, transmit, pktBuf, ethBuf, ipVars, rtos, chip,
                   stepVars, history>>

(* One turn of the loop that publishes the buffers.                        *)
EthInit ==
    /\ EthAt("init")
    /\ published < MAX_ETH_PACKETS
    /\ published' = published + 1
    /\ free' = Send(free, published + 1)
    /\ content' = [content EXCEPT ![published + 1] = Blank]
    /\ ethPc' = IF published + 1 = MAX_ETH_PACKETS THEN "read" ELSE "init"
    /\ UNCHANGED <<ready, transmit, pktBuf, ethBuf, ipVars, rtos, chip,
                   stepVars, history>>

(* enc28_read_packet returned ENC28_OK: the frame is in pkt_buf.           *)
EthReadPacket ==
    /\ EthAt("read")
    /\ inStep /\ pending # <<>>
    /\ pktBuf' = Head(pending)
    /\ lastRead' = Head(pending)
    /\ pending' = Tail(pending)
    /\ ethPc' = "get_free"
    /\ UNCHANGED <<queues, content, ethBuf, published, ipVars, rtos, rxErr,
                   txBusy, txErr, inStep, history>>

(* The same once the driver has lost step: bytes that need not be a frame. *)
EthReadGarbage ==
    /\ EthAt("read")
    /\ ~inStep /\ pending # <<>>
    /\ pktBuf' = 0
    /\ pending' = Tail(pending)
    /\ ethPc' = "get_free"
    /\ UNCHANGED <<queues, content, ethBuf, published, ipVars, rtos, rxErr,
                   txBusy, txErr, stepVars, history>>

(* It returns an error for a pending frame, which ends the receive loop.   *)
(* The frame remains counted and ERDPT inside it.                          *)
EthReadError ==
    /\ EthAt("read")
    /\ pending # <<>>
    /\ inStep' = FALSE
    /\ ethPc' = "transmit"
    /\ UNCHANGED <<queues, content, pktBuf, ethBuf, published, ipVars, rtos,
                   chip, lastRead, history>>

(* PKTIF is clear, though it may be so with frames in the ring (errata     *)
(* item 4).  Without RXERIF it returns ENC28_NO_DATA: the loop ends.       *)
EthReadNothing ==
    /\ EthAt("read")
    /\ ethPc' = IF rxErr THEN "recover" ELSE "transmit"
    /\ UNCHANGED <<queues, content, pktBuf, ethBuf, published, ipVars, rtos,
                   chip, stepVars, history>>

(* With RXERIF it moves ERXRDPT, which may expose a frame that arrived     *)
(* since EIR was read or was missed ...                                    *)
EthRecover ==
    /\ EthAt("recover")
    /\ inStep' \in {inStep, inStep /\ pending = <<>>}
    /\ ethPc' = "clear"
    /\ UNCHANGED <<queues, content, pktBuf, ethBuf, published, ipVars, rtos,
                   chip, lastRead, history>>

(* ... and then clears RXERIF and returns ENC28_PACKET_RCV_ERR, which ends *)
(* the loop, even if there is a frame by now.                              *)
EthClearRxerif ==
    /\ EthAt("clear")
    /\ rxErr' = FALSE
    /\ ethPc' = "transmit"
    /\ UNCHANGED <<queues, content, pktBuf, ethBuf, published, ipVars, rtos,
                   pending, txBusy, txErr, stepVars, history>>

(* xQueueReceive(free, portMAX_DELAY) finds a buffer; pkt_buf is copied.   *)
EthGetFree ==
    /\ EthAt("get_free")
    /\ free # <<>>
    /\ ethBuf' = Head(free)
    /\ free' = Tail(free)
    /\ content' = [content EXCEPT ![Head(free)] = Rx(pktBuf)]
    /\ ethPc' = "put_ready"
    /\ UNCHANGED <<ready, transmit, pktBuf, published, ipVars, rtos, chip,
                   stepVars, history>>

(* Mutant: a timeout of 0 on "free"; the frame is dropped. *)
EthDropsFrame ==
    /\ EthAt("get_free")
    /\ free = <<>>
    /\ ethPc' = "read"
    /\ UNCHANGED <<queues, content, pktBuf, ethBuf, published, ipVars, rtos,
                   chip, stepVars, history>>

(* It finds none and blocks; once woken the task tries again.              *)
EthWaitFree ==
    /\ EthAt("get_free")
    /\ free = <<>>
    /\ ethWait' = "free"
    /\ running' = NextTask("free", ipWait)
    /\ UNCHANGED <<queues, content, ethVars, ipVars, ipWait, notified, irq,
                   chip, stepVars, history>>

(* xQueueSend(ready, portMAX_DELAY).                                       *)
EthPutReady ==
    /\ EthAt("put_ready")
    /\ Len(ready) < MAX_ETH_PACKETS
    /\ ready' = Append(ready, ethBuf)
    /\ ethBuf' = NoBuffer
    /\ ipWait' = "none"
    /\ ethPc' = "read"
    /\ UNCHANGED <<free, transmit, content, pktBuf, published, ipVars,
                   running, ethWait, notified, irq, chip, stepVars, history>>

(* Mutant: xQueuePeek instead of xQueueReceive. *)
EthPeekTransmit ==
    /\ EthAt("transmit")
    /\ transmit # <<>>
    /\ ethBuf' = Head(transmit)
    /\ transmit' = transmit
    /\ ethPc' = "write"
    /\ UNCHANGED <<free, ready, content, pktBuf, published, ipVars, rtos,
                   chip, stepVars, history>>

(* xQueueReceive(transmit, 0).                                             *)
EthTakeTransmit ==
    /\ EthAt("transmit")
    /\ transmit # <<>>
    /\ ethBuf' = Head(transmit)
    /\ transmit' = Tail(transmit)
    /\ ethPc' = "write"
    /\ UNCHANGED <<free, ready, content, pktBuf, published, ipVars, rtos,
                   chip, stepVars, history>>

EthNothingToSend ==
    /\ EthAt("transmit")
    /\ transmit = <<>>
    /\ ethPc' = "take"
    /\ UNCHANGED <<queues, content, pktBuf, ethBuf, published, ipVars, rtos,
                   chip, stepVars, history>>

(* enc28_write_packet succeeds and the buffer goes back to "free".         *)
EthWrite ==
    /\ EthAt("write")
    /\ ~txBusy
    /\ txBusy' = TRUE
    /\ lastSent' = content[ethBuf].id
    /\ free' = Send(free, ethBuf)
    /\ ethBuf' = NoBuffer
    /\ ethPc' = "take"
    /\ UNCHANGED <<ready, transmit, content, pktBuf, published, ipVars, rtos,
                   pending, rxErr, txErr, stepVars, rxLog, delivered,
                   outputs>>

(* configASSERT: interrupts are disabled, the program loops for ever.      *)
Halt == running' = "halted"

(* It returns ENC28_PACKET_TX_IN_PROGRESS and the assertion on it fails.   *)
EthWriteAssert ==
    /\ EthAt("write")
    /\ txBusy
    /\ Halt
    /\ UNCHANGED <<queues, content, ethVars, ipVars, ethWait, ipWait,
                   notified, irq, chip, stepVars, history>>

(* ulTaskNotifyTake(pdTRUE, 10): a notification is pending...              *)
EthTakeNotification ==
    /\ EthAt("take")
    /\ notified
    /\ notified' = FALSE
    /\ ethPc' = "read"
    /\ UNCHANGED <<queues, content, pktBuf, ethBuf, published, ipVars,
                   running, ethWait, ipWait, irq, chip, stepVars, history>>

(* ... or the task blocks until the interrupt or the tenth tick ...        *)
EthWaitNotification ==
    /\ EthAt("take")
    /\ ~notified
    /\ ethWait' = "notify"
    /\ running' = NextTask("notify", ipWait)
    /\ ethPc' = "taken"
    /\ UNCHANGED <<queues, content, pktBuf, ethBuf, published, ipVars, ipWait,
                   notified, irq, chip, stepVars, history>>

(* ... and clears the count when it runs again.                            *)
EthTaken ==
    /\ EthAt("taken")
    /\ notified' = FALSE
    /\ ethPc' = "read"
    /\ UNCHANGED <<queues, content, pktBuf, ethBuf, published, ipVars,
                   running, ethWait, ipWait, irq, chip, stepVars, history>>

EthStep ==
    \/ EthInit \/ EthReadPacket \/ EthReadGarbage \/ EthReadError
    \/ EthReadNothing \/ EthRecover \/ EthClearRxerif
    \/ EthGetFree \/ EthWaitFree \/ EthPutReady
    \/ EthTakeTransmit \/ EthNothingToSend \/ EthWrite \/ EthWriteAssert
    \/ EthTakeNotification \/ EthWaitNotification \/ EthTaken

-----------------------------------------------------------------------------
(* The IP task, ip_stack_task(), with the callbacks lwIP makes into it.    *)

IpAt(pc) == running = "ip" /\ ipPc = pc

(* lwip_init, netif_add and enc28_ip_init_callback.  The interface has no  *)
(* NETIF_FLAG_LINK_UP, so netif_set_up announces nothing: no frame is      *)
(* output before the first one is received.                                *)
IpInit ==
    /\ IpAt("init")
    /\ ipPc' = "receive"
    /\ UNCHANGED <<queues, content, ethVars, packet, calls, timerOutputs,
                   rtos, chip, stepVars, history>>

(* Mutant: the ping responder gives the request back before it answers. *)
ProcessFreesFirst(kind) ==
    [before : {0}, free : {TRUE}, after : {IF kind = "echo" THEN 1 ELSE 0}]

(* What is done with a frame of each kind.  Without lwIP a ping request is *)
(* answered while the request is still held.  With lwIP:                   *)
(*   echo   icmp_input copies the request, frees it, then outputs: nothing *)
(*          (bad checksum), one frame (the reply, or an ARP request in its *)
(*          place) or two (the ARP entry is re-requested first);           *)
(*   arp    etharp_input outputs a parked frame and an ARP reply, if any,  *)
(*          then frees the packet;                                         *)
(*   frag   the first fragment of a datagram: ip4_reass keeps the pbuf;    *)
(*   other  freed (a later fragment of a kept datagram included).          *)
Process(kind) ==
    IF USE_LWIP
    THEN CASE kind = "echo"  -> [before : {0}, free : {TRUE}, after : 0..2]
           [] kind = "arp"   -> [before : 0..2, free : {TRUE}, after : {0}]
           [] kind = "frag"  -> [before : {0}, free : {FALSE}, after : {0}]
           [] OTHER          -> [before : {0}, free : {TRUE}, after : {0}]
    ELSE [before : {IF kind = "echo" THEN 1 ELSE 0}, free : {TRUE}, after : {0}]

(* xQueueReceive(ready, portMAX_DELAY) returns a packet.  With lwIP, its   *)
(* pointer is stored in the one pbuf_custom of the task, over the pointer  *)
(* of a packet lwIP may still be holding there.  Frame 0 may be taken for  *)
(* a frame of any kind.                                                    *)
IpReceive ==
    /\ IpAt("receive")
    /\ ready # <<>>
    /\ packet' = Head(ready)
    /\ ready' = Tail(ready)
    /\ LET n == content[Head(ready)].id
       IN  /\ delivered' = IF n = 0 THEN delivered ELSE n
           /\ \E kind \in IF n = 0 THEN FrameKinds ELSE {rxLog[n]} :
                  calls' \in Process(kind)
    /\ ipPc' = "process"
    /\ UNCHANGED <<free, transmit, content, ethVars, timerOutputs, rtos, chip,
                   stepVars, rxLog, outputs, lastSent>>

IpWaitReady ==
    /\ IpAt("receive")
    /\ ready = <<>>
    /\ ipWait' = "ready"
    /\ running' = NextTask(ethWait, "ready")
    /\ UNCHANGED <<queues, content, ethVars, ipVars, ethWait, notified, irq,
                   chip, stepVars, history>>

OutputDue == calls.before > 0 \/ (~calls.free /\ calls.after > 0)
OutputDone == IF calls.before > 0
              THEN [calls EXCEPT !.before = @ - 1]
              ELSE [calls EXCEPT !.after = @ - 1]

(* Mutant: xQueueSendToFront. *)
IpOutputToFront ==
    /\ running = "ip" /\ ipPc \in {"process", "timers"}
    /\ OutputDue
    /\ free # <<>>
    /\ outputs' = outputs + 1
    /\ content' = [content EXCEPT ![Head(free)] = Tx(outputs + 1)]
    /\ free' = Tail(free)
    /\ transmit' = <<Head(free)>> \o transmit
    /\ calls' = OutputDone
    /\ UNCHANGED <<ready, ethVars, ipPc, packet, timerOutputs, rtos, chip,
                   stepVars, rxLog, delivered, lastSent>>

(* enc28_netif_output (without lwIP, the reply to a ping request) with a   *)
(* buffer to copy the frame to ...                                         *)
IpOutput ==
    /\ running = "ip" /\ ipPc \in {"process", "timers"}
    /\ OutputDue
    /\ free # <<>>
    /\ outputs' = outputs + 1
    /\ content' = [content EXCEPT ![Head(free)] = Tx(outputs + 1)]
    /\ free' = Tail(free)
    /\ transmit' = Send(transmit, Head(free))
    /\ calls' = OutputDone
    /\ UNCHANGED <<ready, ethVars, ipPc, packet, timerOutputs, rtos, chip,
                   stepVars, rxLog, delivered, lastSent>>

(* ... and without one: the frame is dropped, lwIP is told ERR_OK.         *)
IpOutputDropped ==
    /\ running = "ip" /\ ipPc \in {"process", "timers"}
    /\ OutputDue
    /\ free = <<>>
    /\ calls' = OutputDone
    /\ UNCHANGED <<queues, content, ethVars, ipPc, packet, timerOutputs, rtos,
                   chip, stepVars, history>>

(* Mutant: the send of ip_stack_task.c:146 is made in the lwIP build too.  *)
GiveBackTwice == Send(Send(free, packet), packet)

(* Mutant: the send of ip_stack_task.c:146 is missing.                     *)
GiveBackNever == free

(* The queue "free" with the packet back in it.                            *)
GiveBack == Send(free, packet)

(* enc28_pbuf_free, or the send to "free" at the end of the other path.    *)
IpFree ==
    /\ IpAt("process")
    /\ calls.before = 0 /\ calls.free
    /\ free' = GiveBack
    /\ packet' = NoBuffer
    /\ calls' = [calls EXCEPT !.free = FALSE]
    /\ ethWait' = WakeOnFree
    /\ UNCHANGED <<ready, transmit, content, ethVars, ipPc, timerOutputs,
                   running, ipWait, notified, irq, chip, stepVars, history>>

Idle(c) == c.before = 0 /\ ~c.free /\ c.after = 0

(* sys_check_timeouts: the ARP timer may output requests.                  *)
IpCheckTimeouts ==
    /\ IpAt("process")
    /\ Idle(calls)
    /\ \E n \in 0..(MaxTimerOutputs - timerOutputs) :
           /\ n > 0 => USE_LWIP
           /\ timerOutputs' = timerOutputs + n
           /\ calls' = [calls EXCEPT !.after = n]
    /\ ipPc' = "timers"
    /\ UNCHANGED <<queues, content, ethVars, packet, rtos, chip, stepVars,
                   history>>

IpLoop ==
    /\ IpAt("timers")
    /\ Idle(calls)
    /\ ipPc' = "receive"
    /\ UNCHANGED <<queues, content, ethVars, packet, calls, timerOutputs,
                   rtos, chip, stepVars, history>>

IpStep ==
    \/ IpInit \/ IpReceive \/ IpWaitReady \/ IpOutput \/ IpOutputDropped \/ IpFree
    \/ IpCheckTimeouts \/ IpLoop

-----------------------------------------------------------------------------
(* The chip and the interrupt.  INT is low while an enabled flag of EIR is *)
(* set (PKTIF, RXERIF, TXERIF) and EXTI fires on its falling edge only.    *)

IntHigh == pending = <<>> /\ ~rxErr /\ ~txErr

(* The same if PKTIF, which is not reliable, misses the pending frames.    *)
IntMissesFrames == ~rxErr /\ ~txErr

FrameArrives ==
    /\ Len(rxLog) < MaxFrames
    /\ Len(pending) < ChipCapacity
    /\ \E kind \in FrameKinds : rxLog' = Append(rxLog, kind)
    /\ pending' = Append(pending, Len(rxLog) + 1)
    /\ irq' \in {irq, irq \/ IntMissesFrames}
    /\ UNCHANGED <<queues, content, ethVars, ipVars, running, ethWait, ipWait,
                   notified, rxErr, txBusy, txErr, stepVars, delivered,
                   outputs, lastSent>>

(* A frame does not fit between the write pointer and ERXRDPT, which may   *)
(* happen with any number of frames in the ring (Enc28Rx): it is lost and  *)
(* RXERIF is set.                                                          *)
FrameOverruns ==
    /\ ~rxErr
    /\ rxErr' = TRUE
    /\ irq' \in {irq \/ IntHigh, irq \/ IntMissesFrames}
    /\ UNCHANGED <<queues, content, ethVars, ipVars, running, ethWait, ipWait,
                   notified, pending, txBusy, txErr, stepVars, history>>

(* The transmission ends, TXRTS is cleared; if it was aborted TXERIF is    *)
(* set, which nothing in the driver clears.                                *)
TransmissionEnds ==
    /\ txBusy
    /\ txBusy' = FALSE
    /\ \/ UNCHANGED <<txErr, irq>>
       \/ txErr' = TRUE /\ irq' \in {irq \/ IntHigh, irq \/ IntMissesFrames}
    /\ UNCHANGED <<queues, content, ethVars, ipVars, running, ethWait, ipWait,
                   notified, pending, rxErr, stepVars, history>>

(* enc28_test_app_handle_packet_recv_interrupt.                            *)
Interrupt ==
    /\ irq
    /\ running # "halted"
    /\ irq' = FALSE
    /\ notified' = TRUE
    /\ ethWait' = IF ethWait = "notify" THEN "none" ELSE ethWait
    /\ UNCHANGED <<queues, content, ethVars, ipVars, running, ipWait, chip,
                   stepVars, history>>

(* Mutant: the ethernet task waits with portMAX_DELAY. *)
NotifyForever == FALSE /\ UNCHANGED vars

(* The tenth tick passes while the ethernet task waits for a notification. *)
NotifyTimeout ==
    /\ running # "halted"
    /\ ethWait = "notify"
    /\ ethWait' = "none"
    /\ UNCHANGED <<queues, content, ethVars, ipVars, running, ipWait,
                   notified, irq, chip, stepVars, history>>

Next ==
    \/ EthStep \/ IpStep \/ IdleYield
    \/ FrameArrives \/ FrameOverruns \/ TransmissionEnds
    \/ Interrupt \/ NotifyTimeout

Spec == Init /\ [][Next]_vars

(* A task that has the CPU runs, the idle task keeps yielding, pending     *)
(* interrupts are taken and ticks come.  Nothing is assumed about the      *)
(* frames that arrive, nor that a transmission ends (errata item 13).      *)
Fairness ==
    /\ WF_vars(EthStep) /\ WF_vars(IpStep) /\ WF_vars(IdleYield)
    /\ WF_vars(Interrupt) /\ WF_vars(NotifyTimeout)

FairSpec == Spec /\ Fairness
-----------------------------------------------------------------------------
(* Properties.                                                             *)

(* Every variable keeps its type.                                          *)
TypeOK ==
    /\ free \in Seq(Buffers) /\ ready \in Seq(Buffers) /\ transmit \in Seq(Buffers)
    /\ content \in [Buffers -> Frame]
    /\ published \in 0..MAX_ETH_PACKETS
    /\ ethPc \in {"init", "read", "recover", "clear", "get_free", "put_ready",
                  "transmit", "write", "take", "taken"}
    /\ pktBuf \in Nat
    /\ ethBuf \in Buffers \cup {NoBuffer}
    /\ ipPc \in {"init", "receive", "process", "timers"}
    /\ packet \in Buffers \cup {NoBuffer}
    /\ calls \in Calls
    /\ timerOutputs \in 0..MaxTimerOutputs
    /\ running \in {"eth", "ip", "idle", "halted"}
    /\ ethWait \in {"none", "free", "notify"}
    /\ ipWait \in {"none", "ready"}
    /\ notified \in BOOLEAN /\ irq \in BOOLEAN
    /\ pending \in Seq(Nat) /\ rxErr \in BOOLEAN
    /\ txBusy \in BOOLEAN /\ txErr \in BOOLEAN
    /\ inStep \in BOOLEAN /\ lastRead \in Nat
    /\ rxLog \in Seq(FrameKinds)
    /\ delivered \in Nat /\ outputs \in Nat /\ lastSent \in Nat

Distinct(q)    == \A i, j \in 1..Len(q) : q[i] = q[j] => i = j
Disjoint(p, q) == \A i \in 1..Len(p), j \in 1..Len(q) : p[i] # q[j]
NotIn(b, q)    == \A i \in 1..Len(q) : q[i] # b

(* A buffer has one owner: it stands at most once in one of the three      *)
(* queues, and never in a queue while a task (or the start-up loop) holds  *)
(* it.  Otherwise two tasks would write to the same memory: the copies of  *)
(* eth_packet_task.c:79 and ip_stack_task.c:57 take no lock.               *)
OneOwner ==
    /\ Distinct(free) /\ Distinct(ready) /\ Distinct(transmit)
    /\ Disjoint(free, ready) /\ Disjoint(free, transmit) /\ Disjoint(ready, transmit)
    /\ \A b \in {ethBuf, packet} \cup {n \in Buffers : n > published} :
           NotIn(b, free) /\ NotIn(b, ready) /\ NotIn(b, transmit)
    /\ ethBuf = packet => ethBuf = NoBuffer
    /\ ethBuf <= published /\ packet <= published

Held(b) == IF b = NoBuffer THEN 0 ELSE 1

(* Buffers that are in a queue, in the hands of a task or not yet          *)
(* published.                                                              *)
Accounted == Len(free) + Len(ready) + Len(transmit) + Held(ethBuf) + Held(packet)
             + (MAX_ETH_PACKETS - published)

(* No queue is ever full when somebody sends to it.  So the sends with a   *)
(* timeout of 0 whose result is not looked at (eth_packet_task.c:99,       *)
(* ip_stack_task.c:58, 137, 146) lose nothing, and those with              *)
(* portMAX_DELAY (eth_packet_task.c:81, ip_stack_task.c:70) never block.   *)
SendsNeverFail ==
    /\ ethPc = "init" => Len(free) < MAX_ETH_PACKETS
    /\ ethPc = "put_ready" => Len(ready) < MAX_ETH_PACKETS
    /\ ethPc = "write" => Len(free) < MAX_ETH_PACKETS
    /\ free # <<>> => Len(transmit) < MAX_ETH_PACKETS
    /\ packet # NoBuffer => Len(free) < MAX_ETH_PACKETS

(* "packet buffer is returned to free queue in enc28_pbuf_free function"   *)
(* (ip_stack_task.c:157): no buffer is ever lost.                          *)
NoLeak == Accounted = MAX_ETH_PACKETS

InPktBuf == IF ethPc \in {"get_free", "put_ready"} THEN 1 ELSE 0

(* Where frame n is due, frame 0 is found once the driver has lost step.   *)
Due(n) == IF n <= lastRead THEN n ELSE 0

(* Every frame that enc28_read_packet read reaches the IP task once, in    *)
(* order and intact: behind the last delivered frame, the "ready" queue    *)
(* and pkt_buf hold the following ones without a gap.  As long as the      *)
(* driver is in step, what it read and what is still in the ring is every  *)
(* frame the chip accepted; after an error return (enc28j60.c:669, 690,    *)
(* 697) or a recovery with frames in the ring (enc28j60.c:743) only the    *)
(* frames read before that are spoken of.                                  *)
RxInOrder ==
    /\ \A i \in 1..Len(ready) : content[ready[i]] = Rx(Due(delivered + i))
    /\ InPktBuf = 1 => pktBuf = Due(delivered + Len(ready) + 1)
    /\ ethPc = "put_ready" => content[ethBuf] = Rx(pktBuf)
    /\ delivered <= lastRead /\ lastRead <= Len(rxLog)
    /\ lastRead <= delivered + Len(ready) + InPktBuf
    /\ inStep =>
          /\ lastRead = delivered + Len(ready) + InPktBuf
          /\ \A i \in 1..Len(pending) : pending[i] = lastRead + i
          /\ lastRead + Len(pending) = Len(rxLog)

InWrite == IF ethPc = "write" THEN 1 ELSE 0

(* Every frame that found a buffer in enc28_netif_output is given to the   *)
(* chip once, in order and intact.                                         *)
TxInOrder ==
    /\ ethPc = "write" => content[ethBuf] = Tx(lastSent + 1)
    /\ \A i \in 1..Len(transmit) : content[transmit[i]] = Tx(lastSent + InWrite + i)
    /\ lastSent + InWrite + Len(transmit) = outputs

(* The two tasks never wait for each other: the ethernet task for a buffer *)
(* that only it can release (by transmitting), the IP task for a packet    *)
(* that only the ethernet task can deliver.                                *)
NoMutualWait == ~(ethWait = "free" /\ ipWait = "ready")

(* configASSERT(send_stat == ENC28_OK), eth_packet_task.c:98.              *)
WriteNeverAsserts == running # "halted"

(* sys_check_timeouts "Must be called periodically from your main loop"    *)
(* (timeouts.c:349): ip_stack_task.c:165 is reached again and again, at    *)
(* least once the chip no longer loses frames.                             *)
TimersRun == <>[](~rxErr) => []<>(ipPc = "timers" \/ running = "halted")
=============================================================================
