---------------------------- MODULE NetworkStack ----------------------------
(***************************************************************************)
(* The receive side of the application as a whole: the tasks, queues and   *)
(* interrupt of PacketPipeline on top of the driver and the receive ring   *)
(* of Enc28Rx.  enc28_read_packet, one step of the pipeline, is here the   *)
(* sequence of SPI commands that it is, with frames, interrupts and ticks  *)
(* between any two of them.                                                *)
(*                                                                         *)
(* The pipeline sees of the chip what EPKTCNT and EIR say of it.           *)
(***************************************************************************)
EXTENDS Integers, Sequences

CONSTANTS
    MAX_ETH_PACKETS, USE_LWIP, FrameKinds, MaxTimerOutputs,     \* pipeline
    RX_START, RX_END, FrameLens, BufSize, MaxAfterBad,          \* driver
    GarbageNext, GarbageLens,
    MaxFrames                                                   \* both

ASSUME StackAssumption ==
    /\ MAX_ETH_PACKETS \in Nat \ {0} /\ USE_LWIP \in BOOLEAN
    /\ FrameKinds \subseteq {"echo", "arp", "other", "frag"} /\ MaxTimerOutputs \in Nat
    /\ RX_START \in Nat /\ RX_END \in Nat /\ RX_START < RX_END
    /\ RX_START % 2 = 0 /\ RX_END % 2 = 1
    /\ BufSize \in Nat /\ FrameLens \subseteq 1..BufSize
    /\ RX_END <= 8191 /\ GarbageNext \subseteq 0..8191 /\ GarbageLens \subseteq Nat
    /\ MaxAfterBad \in Nat /\ MaxFrames \in Nat \ {0}

VARIABLES
    (* PacketPipeline, without its view of the chip's receive side *)
    free, ready, transmit, content, published, ethPc, pktBuf, ethBuf,
    ipPc, packet, calls, timerOutputs, running, ethWait, ipWait, notified, irq,
    txBusy, txErr, rxLog, delivered, outputs, lastSent,
    (* Enc28Rx *)
    ring, frames, erxwrpt, erxrdpt, erdpt, epktcnt, rxerif, pc, hdr, dataId, got,
    astray

(* The numbers of the frames that EPKTCNT counts.                          *)
Unread == [i \in 1..epktcnt |-> Len(frames) - epktcnt + i]

P == INSTANCE PacketPipeline WITH
         pending <- Unread, rxErr <- rxerif, ChipCapacity <- MaxFrames,
         inStep <- (astray = "no"), lastRead <- got
R == INSTANCE Enc28Rx

queues   == <<free, ready, transmit>>
ethVars  == <<ethPc, pktBuf, ethBuf, published>>
ipVars   == <<ipPc, packet, calls, timerOutputs>>
rtos     == <<running, ethWait, ipWait, notified, irq>>
txChip   == <<txBusy, txErr>>
history  == <<rxLog, delivered, outputs, lastSent>>
ringVars == <<ring, frames, erxwrpt, erxrdpt, erdpt, epktcnt, rxerif, pc, hdr,
              dataId, got, astray>>
vars     == <<queues, content, ethVars, ipVars, rtos, txChip, history, ringVars>>

Init == R!Init /\ P!Init

-----------------------------------------------------------------------------
(* The ethernet task inside enc28_read_packet.                             *)

(* Mutant: the task goes back to waiting when there is nothing to read.    *)
AfterReadWait(step) ==
    CASE step = "idle" -> "take"
      [] step \in {"recover", "clear"} -> step
      [] OTHER -> "read"

(* Where the task is, given the step of the driver: behind the receive     *)
(* loop, since the call has returned something other than ENC28_OK, in the *)
(* RXERIF branch of the call, or in the call before it.                    *)
AfterRead(step) ==
    CASE step = "idle" -> "transmit"
      [] step \in {"recover", "clear"} -> step
      [] OTHER -> "read"

InRead == running = "eth" /\ ethPc \in {"read", "recover", "clear"}

DriverStep ==
    /\ InRead
    /\ pc # "decrement"
    /\ R!ReadPacket
    /\ ethPc' = AfterRead(pc')
    /\ UNCHANGED <<queues, content, pktBuf, ethBuf, published, ipVars,
                   rtos, txChip, history>>

(* ENC28_OK: pkt_buf holds the frame, or out of step some bytes.           *)
DriverReturnsPacket ==
    /\ InRead
    /\ R!Decrement
    /\ pktBuf' = IF R!InStep THEN dataId ELSE 0
    /\ ethPc' = "get_free"
    /\ UNCHANGED <<queues, content, ethBuf, published, ipVars,
                   rtos, txChip, history>>

-----------------------------------------------------------------------------
(* The chip.                                                               *)

FrameStored ==
    /\ \E len \in FrameLens, ok \in BOOLEAN : R!FrameStored(len, ok)
    /\ \E kind \in FrameKinds : rxLog' = Append(rxLog, kind)
    /\ irq' \in {irq, irq \/ P!IntMissesFrames}
    /\ UNCHANGED <<queues, content, ethVars, ipVars, running, ethWait,
                   ipWait, notified, txChip, delivered, outputs, lastSent>>

FrameRefused ==
    /\ \E len \in FrameLens : R!FrameRefused(len)
    /\ irq' \in {irq \/ P!IntHigh, irq \/ P!IntMissesFrames}
    /\ UNCHANGED <<queues, content, ethVars, ipVars, running, ethWait,
                   ipWait, notified, txChip, history>>

-----------------------------------------------------------------------------
(* The rest is the pipeline's.                                             *)

EthStep ==
    \/ DriverStep \/ DriverReturnsPacket
    \/ /\ UNCHANGED ringVars
       /\ \/ P!EthInit \/ P!EthGetFree \/ P!EthWaitFree \/ P!EthPutReady
          \/ P!EthTakeTransmit \/ P!EthNothingToSend \/ P!EthWrite
          \/ P!EthWriteAssert \/ P!EthTakeNotification
          \/ P!EthWaitNotification \/ P!EthTaken

IpStep        == UNCHANGED ringVars /\ P!IpStep
IdleYield     == UNCHANGED ringVars /\ P!IdleYield
Interrupt     == UNCHANGED ringVars /\ P!Interrupt
NotifyTimeout == UNCHANGED ringVars /\ P!NotifyTimeout
TransmissionEnds == UNCHANGED ringVars /\ P!TransmissionEnds

Next ==
    \/ EthStep \/ IpStep \/ IdleYield \/ Interrupt \/ NotifyTimeout
    \/ FrameStored \/ FrameRefused \/ TransmissionEnds

Spec == Init /\ [][Next]_vars

(* EIR is read with PKTIF set.                                             *)
SeesFrame == DriverStep /\ pc = "idle" /\ pc' = "header"

(* As in PacketPipeline: the program runs, interrupts are taken, ticks     *)
(* come.  PKTIF may miss a frame (errata item 4), but not every time EIR   *)
(* is read.  Nothing is assumed about frames, nor that a transmission ends *)
(* (it may not, errata item 13).                                           *)
FairSpec ==
    /\ Spec
    /\ WF_vars(EthStep) /\ WF_vars(IpStep) /\ WF_vars(IdleYield)
    /\ WF_vars(Interrupt) /\ WF_vars(NotifyTimeout)
    /\ SF_vars(SeesFrame)

-----------------------------------------------------------------------------
(* Properties.                                                             *)

(* The pipeline on the real driver does nothing that PacketPipeline does   *)
(* not do: in step, enc28_read_packet hands the frames over one by one in  *)
(* the order of their arrival; an error return (enc28j60.c:669, 690, 697)  *)
(* or a recovery that exposes a frame (enc28j60.c:743) is the loss of step *)
(* the pipeline knows, also when a frame arrives between any two SPI       *)
(* commands or PKTIF misses it.  So all invariants proved of               *)
(* PacketPipeline hold here.                                               *)
ImplementsPipeline == P!Spec

(* At some time the last frame has been refused for want of room.          *)
OverrunsEnd == <>[](~rxerif)

(* A frame in the chip is read, copied and delivered to the IP task,       *)
(* unless the assertion at eth_packet_task.c:98 stopped the system, or the *)
(* driver lost step (it returned an error for a frame, or exposed one in a *)
(* recovery: what follows then is not read as frames), or overruns never   *)
(* end: each one raises INT, and a notification at every ulTaskNotifyTake  *)
(* keeps the ethernet task from ever blocking, without which the IP task   *)
(* does not run.                                                           *)
FramesAreDelivered ==
    OverrunsEnd =>
        (delivered < Len(rxLog) ~>
             (delivered = Len(rxLog) \/ running = "halted" \/ ~R!InStep))

(* A frame queued by the IP task is given to the chip, or the assertion    *)
(* stopped the system (always, if the frame before it never ends).         *)
OutputsAreSent ==
    lastSent < outputs ~> (lastSent = outputs \/ running = "halted")
=============================================================================
