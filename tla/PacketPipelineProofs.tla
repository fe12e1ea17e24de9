------------------------ MODULE PacketPipelineProofs ------------------------
(***************************************************************************)
(* Proofs about PacketPipeline, for every number of buffers, every set of  *)
(* frame kinds and every bound.  The argument:                             *)
(*   TypeOK, then Control (which buffer a task holds at which step), then  *)
(*   Bounded (no buffer is counted twice), then OneOwner (no buffer has    *)
(*   two owners), and on top of it the order of the frames.                *)
(***************************************************************************)
EXTENDS PacketPipeline, TLAPS

(* What sending to a queue does.                                           *)
LEMMA AppendFacts ==
    ASSUME NEW S, NEW q \in Seq(S), NEW b \in S
    PROVE  /\ Append(q, b) \in Seq(S)
           /\ Len(Append(q, b)) = Len(q) + 1
           /\ \A i \in 1..Len(q) : Append(q, b)[i] = q[i]
           /\ Append(q, b)[Len(q) + 1] = b
  OBVIOUS

(* What receiving from a queue that is not empty does.                     *)
LEMMA TailFacts ==
    ASSUME NEW S, NEW q \in Seq(S), q # <<>>
    PROVE  /\ Len(q) \in Nat \ {0}
           /\ Head(q) = q[1] /\ Head(q) \in S
           /\ Tail(q) \in Seq(S)
           /\ Len(Tail(q)) = Len(q) - 1
           /\ \A i \in 1..Len(Tail(q)) : Tail(q)[i] = q[i + 1]
  OBVIOUS

(* A send keeps the type of the queue.                                     *)
LEMMA SendType ==
    ASSUME NEW q \in Seq(Buffers), NEW b \in Buffers
    PROVE  Send(q, b) \in Seq(Buffers)
  BY AppendFacts DEF Send

(* Whatever is done with a packet, it is a triple of callbacks.            *)
LEMMA ProcessType ==
    ASSUME NEW kind PROVE Process(kind) \subseteq Calls
  <1>1. \A A, B, C : A \subseteq Nat /\ B \subseteq BOOLEAN /\ C \subseteq Nat
                     => [before : A, free : B, after : C] \subseteq Calls
    BY DEF Calls
  <1>2. {0} \subseteq Nat /\ 0..2 \subseteq Nat
        /\ {IF kind = "echo" THEN 1 ELSE 0} \subseteq Nat
    OBVIOUS
  <1>3. {TRUE} \subseteq BOOLEAN /\ {FALSE} \subseteq BOOLEAN
    OBVIOUS
  <1> QED BY <1>1, <1>2, <1>3, Zenon DEF Process

(* An output made by lwIP leaves a triple of callbacks.                    *)
LEMMA OutputDoneType ==
    ASSUME calls \in Calls, OutputDue
    PROVE  OutputDone \in Calls
  BY DEF OutputDone, OutputDue, Calls

(* The scheduler picks one of the two tasks or the idle task.              *)
LEMMA NextTaskType ==
    ASSUME NEW e, NEW i PROVE NextTask(e, i) \in {"eth", "ip", "idle"}
  BY DEF NextTask

(* Before a buffer is sent somewhere a task must hold one: TypeOK alone    *)
(* does not say so.  Control relates the steps of the two tasks to what    *)
(* they hold and to what they wait for.                                    *)
Control ==
    /\ ethPc = "init" <=> published < MAX_ETH_PACKETS
    /\ ethPc \in {"put_ready", "write"} <=> ethBuf # NoBuffer
    /\ calls.free => ipPc = "process" /\ packet # NoBuffer
    /\ running = "eth" => ethWait = "none"

(* Type and control hold when the scheduler starts.                        *)
LEMMA InitType == Init => TypeOK /\ Control
  <1> SUFFICES ASSUME Init PROVE TypeOK /\ Control OBVIOUS
  <1>1. TypeOK
    <2>1. content \in [Buffers -> Frame] BY DEF Init, Blank, Frame
    <2>2. calls \in Calls BY DEF Init, Calls
    <2>3. 0 \in 0..MAX_ETH_PACKETS /\ 0 \in 0..MaxTimerOutputs
      BY PipelineAssumption
    <2>4. /\ notified \in BOOLEAN /\ irq \in BOOLEAN /\ rxErr \in BOOLEAN
          /\ txBusy \in BOOLEAN /\ txErr \in BOOLEAN /\ inStep \in BOOLEAN
      BY Zenon DEF Init
    <2>5. \A S : <<>> \in Seq(S) OBVIOUS
    <2>6. 0 \in Nat OBVIOUS
    <2> QED BY <2>1, <2>2, <2>3, <2>4, <2>5, <2>6, Zenon DEF Init, TypeOK, NoBuffer
  <1>2. Control
    BY PipelineAssumption DEF Init, Control, NoBuffer
  <1> QED BY <1>1, <1>2

(* Every step of the tasks, the interrupt and the chip keeps the types.    *)
LEMMA StepType == TypeOK /\ Control /\ [Next]_vars => TypeOK'
  <1> SUFFICES ASSUME TypeOK, Control, [Next]_vars PROVE TypeOK' OBVIOUS
  <1> USE PipelineAssumption DEF TypeOK, queues, ethVars, ipVars, rtos, chip,
          stepVars, history, EthAt, IpAt
  <1>1. CASE EthInit
    <2>1. published + 1 \in Buffers BY <1>1 DEF EthInit, Buffers
    <2>2. free' \in Seq(Buffers) BY <1>1, <2>1, SendType DEF EthInit
    <2>3. content' \in [Buffers -> Frame] BY <1>1, <2>1 DEF EthInit, Blank, Frame
    <2> QED BY <1>1, <2>1, <2>2, <2>3 DEF EthInit, Buffers
  <1>2. CASE EthReadPacket \/ EthReadGarbage
    <2>1. pending # <<>> /\ pending' = Tail(pending)
      BY <1>2 DEF EthReadPacket, EthReadGarbage
    <2>2. Head(pending) \in Nat /\ pending' \in Seq(Nat) BY <2>1, TailFacts
    <2>3. inStep' \in BOOLEAN BY <1>2, Zenon DEF EthReadPacket, EthReadGarbage
    <2>3a. \/ pktBuf' = Head(pending) /\ lastRead' = Head(pending)
           \/ pktBuf' = 0 /\ lastRead' = lastRead
      BY <1>2, Zenon DEF EthReadPacket, EthReadGarbage
    <2>4. lastRead' \in Nat /\ pktBuf' \in Nat BY <2>2, <2>3a
    <2>5. /\ ethPc' = "get_free"
          /\ UNCHANGED <<queues, content, ethBuf, published, ipVars, rtos, rxErr,
                         txBusy, txErr, history>>
      BY <1>2, Zenon DEF EthReadPacket, EthReadGarbage
    <2> QED BY <2>2, <2>3, <2>4, <2>5
  <1>3. CASE EthReadError \/ EthReadNothing \/ EthRecover \/ EthClearRxerif
    <2>1. CASE EthReadNothing
      <3>1. ethPc' \in {"recover", "transmit"} BY <2>1 DEF EthReadNothing
      <3> QED BY <2>1, <3>1 DEF EthReadNothing
    <2>2. CASE EthReadError \/ EthRecover
      <3>1. inStep' \in BOOLEAN BY <2>2, Zenon DEF EthReadError, EthRecover
      <3>2. /\ ethPc' \in {"transmit", "clear"}
            /\ UNCHANGED <<queues, content, pktBuf, ethBuf, published, ipVars, rtos,
                           chip, lastRead, history>>
        BY <2>2, Zenon DEF EthReadError, EthRecover
      <3> QED BY <3>1, <3>2
    <2>3. CASE EthClearRxerif
      <3>1. rxErr' \in BOOLEAN /\ ethPc' = "transmit" BY <2>3, Zenon DEF EthClearRxerif
      <3>2. UNCHANGED <<queues, content, pktBuf, ethBuf, published, ipVars, rtos,
                        pending, txBusy, txErr, stepVars, history>>
        BY <2>3, Zenon DEF EthClearRxerif
      <3> QED BY <3>1, <3>2
    <2> QED BY <1>3, <2>1, <2>2, <2>3
  <1>4. CASE EthGetFree
    <2>1. Head(free) \in Buffers /\ Tail(free) \in Seq(Buffers)
      BY <1>4, TailFacts DEF EthGetFree
    <2>2. content' \in [Buffers -> Frame] BY <1>4, <2>1 DEF EthGetFree, Rx, Frame
    <2> QED BY <1>4, <2>1, <2>2 DEF EthGetFree
  <1>5. CASE EthWaitFree
    BY <1>5, NextTaskType DEF EthWaitFree
  <1>6. CASE EthPutReady
    <2>1. ethBuf \in Buffers BY <1>6 DEF EthPutReady, Control
    <2> QED BY <1>6, <2>1, AppendFacts DEF EthPutReady
  <1>7. CASE EthTakeTransmit
    BY <1>7, TailFacts DEF EthTakeTransmit
  <1>8. CASE EthNothingToSend
    BY <1>8 DEF EthNothingToSend
  <1>9. CASE EthWrite
    <2>1. ethBuf \in Buffers BY <1>9 DEF EthWrite, Control
    <2>2. content[ethBuf].id \in Nat BY <2>1 DEF Frame
    <2> QED BY <1>9, <2>1, <2>2, SendType DEF EthWrite
  <1>10. CASE EthWriteAssert
    BY <1>10 DEF EthWriteAssert, Halt
  <1>11. CASE EthTakeNotification
    <2>1. notified' \in BOOLEAN /\ ethPc' = "read" BY <1>11, Zenon DEF EthTakeNotification
    <2>2. UNCHANGED <<queues, content, pktBuf, ethBuf, published, ipVars, running,
                      ethWait, ipWait, irq, chip, stepVars, history>>
      BY <1>11, Zenon DEF EthTakeNotification
    <2> QED BY <2>1, <2>2
  <1>12. CASE EthWaitNotification
    BY <1>12, NextTaskType DEF EthWaitNotification
  <1>13. CASE EthTaken
    <2>1. notified' \in BOOLEAN /\ ethPc' = "read" BY <1>13, Zenon DEF EthTaken
    <2>2. UNCHANGED <<queues, content, pktBuf, ethBuf, published, ipVars, running,
                      ethWait, ipWait, irq, chip, stepVars, history>>
      BY <1>13, Zenon DEF EthTaken
    <2> QED BY <2>1, <2>2
  <1>14. CASE IpReceive
    <2>1. Head(ready) \in Buffers /\ Tail(ready) \in Seq(Buffers)
      BY <1>14, TailFacts DEF IpReceive
    <2>2. content[Head(ready)].id \in Nat BY <2>1 DEF Frame
    <2>3. PICK kind : calls' \in Process(kind) BY <1>14 DEF IpReceive
    <2>4. calls' \in Calls BY <2>3, ProcessType
    <2>5. delivered' \in Nat BY <1>14, <2>2 DEF IpReceive
    <2> QED BY <1>14, <2>1, <2>4, <2>5 DEF IpReceive
  <1>15. CASE IpWaitReady
    BY <1>15, NextTaskType DEF IpWaitReady
  <1>16. CASE IpOutput
    <2>1. Head(free) \in Buffers /\ Tail(free) \in Seq(Buffers)
      BY <1>16, TailFacts DEF IpOutput
    <2>2. transmit' \in Seq(Buffers) BY <1>16, <2>1, SendType DEF IpOutput
    <2>3. content' \in [Buffers -> Frame] BY <1>16, <2>1 DEF IpOutput, Tx, Frame
    <2>4. calls' \in Calls BY <1>16, OutputDoneType DEF IpOutput
    <2> QED BY <1>16, <2>1, <2>2, <2>3, <2>4 DEF IpOutput
  <1>17. CASE IpOutputDropped
    BY <1>17, OutputDoneType DEF IpOutputDropped
  <1>18. CASE IpFree
    <2>1. packet \in Buffers BY <1>18 DEF IpFree, Control
    <2>2. free' \in Seq(Buffers) BY <1>18, <2>1, SendType DEF IpFree, GiveBack
    <2>3. calls' \in Calls BY <1>18 DEF IpFree, Calls
    <2> QED BY <1>18, <2>1, <2>2, <2>3 DEF IpFree, WakeOnFree
  <1>19. CASE IpCheckTimeouts
    <2>1. PICK n \in 0..(MaxTimerOutputs - timerOutputs) :
              /\ timerOutputs' = timerOutputs + n
              /\ calls' = [calls EXCEPT !.after = n]
      BY <1>19, Zenon DEF IpCheckTimeouts
    <2>2. timerOutputs' \in 0..MaxTimerOutputs
      <3>1. timerOutputs \in 0..MaxTimerOutputs /\ MaxTimerOutputs \in Nat OBVIOUS
      <3>2. timerOutputs' = timerOutputs + n BY <2>1
      <3> HIDE DEF TypeOK
      <3> QED BY <3>1, <3>2
    <2>3. calls' \in Calls
      <3>1. n \in Nat BY <2>1
      <3> QED BY <2>1, <3>1, Zenon DEF Calls
    <2> QED BY <1>19, <2>2, <2>3 DEF IpCheckTimeouts
  <1>20. CASE IpInit \/ IpLoop
    <2>1. /\ ipPc' = "receive"
          /\ UNCHANGED <<queues, content, ethVars, packet, calls, timerOutputs, rtos,
                         chip, stepVars, history>>
      BY <1>20, Zenon DEF IpInit, IpLoop
    <2> QED BY <2>1
  <1>21. CASE IdleYield
    BY <1>21, NextTaskType DEF IdleYield
  <1>22. CASE FrameArrives
    <2>1. rxLog' \in Seq(FrameKinds) BY <1>22, AppendFacts DEF FrameArrives
    <2>2. pending' \in Seq(Nat)
      <3>1. Len(rxLog) + 1 \in Nat OBVIOUS
      <3> QED BY <1>22, <3>1, AppendFacts DEF FrameArrives
    <2>3. irq' \in BOOLEAN BY <1>22, Zenon DEF FrameArrives
    <2> QED BY <1>22, <2>1, <2>2, <2>3 DEF FrameArrives
  <1>23. CASE FrameOverruns
    <2>1. irq' \in BOOLEAN BY <1>23, Zenon DEF FrameOverruns
    <2> QED BY <1>23, <2>1 DEF FrameOverruns
  <1>24. CASE TransmissionEnds
    <2>1. irq' \in BOOLEAN /\ txErr' \in BOOLEAN BY <1>24, Zenon DEF TransmissionEnds
    <2>2. txBusy' \in BOOLEAN BY <1>24, Zenon DEF TransmissionEnds
    <2> QED BY <1>24, <2>1, <2>2 DEF TransmissionEnds
  <1>25. CASE Interrupt
    <2>1. irq' \in BOOLEAN /\ notified' \in BOOLEAN BY <1>25, Zenon DEF Interrupt
    <2>2. ethWait' \in {"none", "free", "notify"} BY <1>25 DEF Interrupt
    <2> QED BY <1>25, <2>1, <2>2 DEF Interrupt
  <1>26. CASE NotifyTimeout
    BY <1>26 DEF NotifyTimeout
  <1>27. CASE UNCHANGED vars
    BY <1>27 DEF vars
  <1> QED
    BY <1>1, <1>2, <1>3, <1>4, <1>5, <1>6, <1>7, <1>8, <1>9, <1>10, <1>11, <1>12,
       <1>13, <1>14, <1>15, <1>16, <1>17, <1>18, <1>19, <1>20, <1>21, <1>22,
       <1>23, <1>24, <1>25, <1>26, <1>27
    DEF Next, EthStep, IpStep

(* Every step keeps the relation between a task's step and its buffer.     *)
LEMMA StepControl == TypeOK /\ Control /\ [Next]_vars => Control'
  <1> SUFFICES ASSUME TypeOK, Control, [Next]_vars PROVE Control' OBVIOUS
  <1> USE PipelineAssumption DEF TypeOK, Control, queues, ethVars, ipVars, rtos, chip,
          stepVars, history, EthAt, IpAt, NoBuffer
  <1>0. \A w : NextTask("free", w) # "eth" /\ NextTask("notify", w) # "eth"
    BY DEF NextTask
  <1>1. CASE EthInit
    BY <1>1 DEF EthInit
  <1>2. CASE EthReadPacket \/ EthReadGarbage \/ EthReadError
             \/ EthReadNothing \/ EthRecover \/ EthClearRxerif
    BY <1>2 DEF EthReadPacket,
     EthReadGarbage, EthReadError, EthReadNothing, EthRecover, EthClearRxerif
  <1>3. CASE EthGetFree
    <2>1. Head(free) \in Buffers BY <1>3, TailFacts DEF EthGetFree
    <2> QED BY <1>3, <2>1 DEF EthGetFree, Buffers
  <1>4. CASE EthWaitFree \/ EthPutReady
    BY <1>4, <1>0 DEF EthWaitFree, EthPutReady
  <1>5. CASE EthTakeTransmit
    <2>1. Head(transmit) \in Buffers BY <1>5, TailFacts DEF EthTakeTransmit
    <2> QED BY <1>5, <2>1 DEF EthTakeTransmit, Buffers
  <1>6. CASE EthNothingToSend \/ EthWrite \/ EthWriteAssert
    BY <1>6 DEF EthNothingToSend, EthWrite, EthWriteAssert, Halt
  <1>7. CASE EthTakeNotification \/ EthWaitNotification \/ EthTaken
    BY <1>7, <1>0 DEF EthTakeNotification, EthWaitNotification, EthTaken
  <1>8. CASE IpReceive
    <2>1. Head(ready) \in Buffers BY <1>8, TailFacts DEF IpReceive
    <2> QED BY <1>8, <2>1 DEF IpReceive, Buffers
  <1>9. CASE IpWaitReady
    BY <1>9 DEF IpWaitReady, NextTask
  <1>10. CASE IpOutput \/ IpOutputDropped
    <2>1. OutputDone.free = calls.free BY DEF OutputDone, Calls
    <2> QED BY <1>10, <2>1 DEF IpOutput, IpOutputDropped
  <1>11. CASE IpFree
    BY <1>11 DEF IpFree, Calls
  <1>12. CASE IpCheckTimeouts
    <2>1. ~calls'.free BY <1>12 DEF IpCheckTimeouts, Idle, Calls
    <2> QED BY <1>12, <2>1 DEF IpCheckTimeouts
  <1>13. CASE IpInit \/ IpLoop
    BY <1>13 DEF IpInit, IpLoop, Idle
  <1>14. CASE IdleYield
    BY <1>14 DEF IdleYield, NextTask
  <1>15. CASE FrameArrives \/ FrameOverruns \/ TransmissionEnds
    BY <1>15 DEF FrameArrives, FrameOverruns, TransmissionEnds
  <1>16. CASE Interrupt \/ NotifyTimeout
    BY <1>16 DEF Interrupt, NotifyTimeout
  <1>17. CASE UNCHANGED vars
    BY <1>17 DEF vars
  <1> QED
    BY <1>1, <1>2, <1>3, <1>4, <1>5, <1>6, <1>7, <1>8, <1>9, <1>10, <1>11, <1>12,
       <1>13, <1>14, <1>15, <1>16, <1>17
    DEF Next, EthStep, IpStep

(* Every variable of the packet path keeps its type, and the tasks hold a  *)
(* buffer exactly where their code has one in free_buf, to_send or         *)
(* ready_packet.                                                           *)
THEOREM TypeCorrect == Spec => [](TypeOK /\ Control)
  <1>1. TypeOK /\ Control /\ [Next]_vars => (TypeOK /\ Control)'
    BY StepType, StepControl
  <1> QED BY InitType, <1>1, PTL DEF Spec

-----------------------------------------------------------------------------
(* Counting buffers.                                                       *)

(* No step makes a buffer appear twice in the count.                       *)
Bounded == Accounted <= MAX_ETH_PACKETS

(* A send to a queue that is not full adds one element, and nobody can     *)
(* find a queue full while holding a buffer.                               *)
LEMMA SendLen ==
    ASSUME NEW q \in Seq(Buffers), NEW b \in Buffers
    PROVE  /\ Len(Send(q, b)) <= Len(q) + 1
           /\ Len(q) < MAX_ETH_PACKETS =>
                  Send(q, b) = Append(q, b) /\ Len(Send(q, b)) = Len(q) + 1
  BY AppendFacts, PipelineAssumption DEF Send

(* The eight actions that move a buffer.                                   *)
LEMMA OwnersOfStep ==
    [Next]_vars =>
      \/ EthInit \/ EthGetFree \/ EthPutReady \/ EthTakeTransmit \/ EthWrite
      \/ IpReceive \/ IpOutput \/ IpFree
      \/ UNCHANGED <<queues, published, ethBuf, packet>>
  BY Zenon DEF Next, EthStep, IpStep, vars, ethVars, ipVars, EthReadPacket,
     EthReadGarbage, EthReadError, EthReadNothing, EthRecover, EthClearRxerif, EthWaitFree, EthNothingToSend, EthWriteAssert, Halt,
     EthTakeNotification, EthWaitNotification, EthTaken, IpWaitReady,
     IpOutputDropped, IpCheckTimeouts, IpInit, IpLoop, IdleYield, FrameArrives,
     FrameOverruns, TransmissionEnds, Interrupt, NotifyTimeout

(* No step counts a buffer twice: what leaves a place enters at most one.  *)
LEMMA StepBounded == TypeOK /\ Control /\ Bounded /\ [Next]_vars => Bounded'
  <1> SUFFICES ASSUME TypeOK, Control, Bounded, [Next]_vars PROVE Bounded' OBVIOUS
  <1> USE PipelineAssumption DEF TypeOK, Control, Bounded, Accounted, Held, queues,
          ethVars, ipVars, rtos, chip, stepVars, history, EthAt, IpAt, NoBuffer
  <1>1. CASE EthInit
    <2>1. published + 1 \in Buffers BY <1>1 DEF EthInit, Buffers
    <2> QED BY <1>1, <2>1, SendLen DEF EthInit
  <1>2. CASE EthGetFree
    <2>1. Head(free) \in Buffers /\ Len(Tail(free)) = Len(free) - 1
      BY <1>2, TailFacts DEF EthGetFree
    <2> QED BY <1>2, <2>1 DEF EthGetFree, Buffers
  <1>3. CASE EthPutReady
    BY <1>3, AppendFacts DEF EthPutReady
  <1>4. CASE EthTakeTransmit
    <2>1. Head(transmit) \in Buffers /\ Len(Tail(transmit)) = Len(transmit) - 1
      BY <1>4, TailFacts DEF EthTakeTransmit
    <2> QED BY <1>4, <2>1 DEF EthTakeTransmit, Buffers
  <1>5. CASE EthWrite
    <2>1. ethBuf \in Buffers BY <1>5 DEF EthWrite
    <2> QED BY <1>5, <2>1, SendLen DEF EthWrite
  <1>6. CASE IpReceive
    <2>1. Head(ready) \in Buffers /\ Len(Tail(ready)) = Len(ready) - 1
      BY <1>6, TailFacts DEF IpReceive
    <2> QED BY <1>6, <2>1 DEF IpReceive, Buffers
  <1>7. CASE IpOutput
    <2>1. Head(free) \in Buffers /\ Len(Tail(free)) = Len(free) - 1
      BY <1>7, TailFacts DEF IpOutput
    <2>2. Len(transmit') <= Len(transmit) + 1 BY <1>7, <2>1, SendLen DEF IpOutput
    <2> QED BY <1>7, <2>1, <2>2 DEF IpOutput
  <1>8. CASE IpFree
    <2>1. packet \in Buffers BY <1>8 DEF IpFree
    <2>2. Len(free') <= Len(free) + 1 BY <1>8, <2>1, SendLen DEF IpFree, GiveBack
    <2>3. free' \in Seq(Buffers) BY <1>8, <2>1, SendType DEF IpFree, GiveBack
    <2>4. /\ packet # 0 /\ packet' = 0
          /\ UNCHANGED <<ready, transmit, ethBuf, published>>
      BY <1>8, <2>1 DEF IpFree
    <2> QED BY <2>2, <2>3, <2>4
  <1>9. CASE UNCHANGED <<queues, published, ethBuf, packet>>
    BY <1>9
  <1>10. \/ EthInit \/ EthGetFree \/ EthPutReady \/ EthTakeTransmit \/ EthWrite
         \/ IpReceive \/ IpOutput \/ IpFree
         \/ UNCHANGED <<queues, published, ethBuf, packet>>
    BY OwnersOfStep
  <1> QED BY <1>1, <1>2, <1>3, <1>4, <1>5, <1>6, <1>7, <1>8, <1>9, <1>10

(* Counting is enough to know that no send ever finds its queue full.      *)
LEMMA BoundedSends == TypeOK /\ Control /\ Bounded => SendsNeverFail
  <1> SUFFICES ASSUME TypeOK, Control, Bounded PROVE SendsNeverFail OBVIOUS
  <1>1. /\ Len(free) \in Nat /\ Len(ready) \in Nat /\ Len(transmit) \in Nat
        /\ free # <<>> => Len(free) > 0
    BY DEF TypeOK
  <1> QED BY <1>1, PipelineAssumption
          DEF TypeOK, Control, Bounded, SendsNeverFail, Accounted, Held, NoBuffer

(* The sends whose result the code ignores never fail and those with       *)
(* portMAX_DELAY never block, for any number of buffers.                   *)
THEOREM NoSendFails == Spec => []SendsNeverFail
  <1>1. Init => Bounded
    BY PipelineAssumption DEF Init, Bounded, Accounted, Held, NoBuffer
  <1>2. TypeOK /\ Control /\ Bounded /\ [Next]_vars => Bounded'
    BY StepBounded
  <1> QED BY TypeCorrect, <1>1, <1>2, BoundedSends, PTL DEF Spec

-----------------------------------------------------------------------------
(* Ownership.                                                              *)

(* Sending b to a queue that does not hold it, and receiving from a queue, *)
(* in the terms of OneOwner.                                               *)
LEMMA OwnAppend ==
    ASSUME NEW q \in Seq(Buffers), NEW b \in Buffers, NotIn(b, q)
    PROVE  /\ Distinct(q) => Distinct(Append(q, b))
           /\ \A r \in Seq(Buffers) : NotIn(b, r) /\ Disjoint(q, r) =>
                  Disjoint(Append(q, b), r)
           /\ \A r \in Seq(Buffers) : NotIn(b, r) /\ Disjoint(r, q) =>
                  Disjoint(r, Append(q, b))
           /\ \A c : c # b /\ NotIn(c, q) => NotIn(c, Append(q, b))
  <1>1. \A i \in 1..Len(Append(q, b)) :
            \/ i \in 1..Len(q) /\ Append(q, b)[i] = q[i]
            \/ i \notin 1..Len(q) /\ i = Len(q) + 1 /\ Append(q, b)[i] = b
    <2>1. Len(q) \in Nat OBVIOUS
    <2>2. \A i \in 1..(Len(q) + 1) : i \in 1..Len(q) \/ (i = Len(q) + 1 /\ i \notin 1..Len(q))
      BY <2>1
    <2> QED BY <2>2, AppendFacts
  <1> QED BY <1>1 DEF Distinct, Disjoint, NotIn

(* Receiving from a queue takes the buffer out of it for good.             *)
LEMMA OwnTail ==
    ASSUME NEW q \in Seq(Buffers), q # <<>>
    PROVE  /\ Distinct(q) => Distinct(Tail(q)) /\ NotIn(Head(q), Tail(q))
           /\ \A r \in Seq(Buffers) : Disjoint(q, r) =>
                  Disjoint(Tail(q), r) /\ NotIn(Head(q), r)
           /\ \A r \in Seq(Buffers) : Disjoint(r, q) =>
                  Disjoint(r, Tail(q)) /\ NotIn(Head(q), r)
           /\ \A c : NotIn(c, q) => NotIn(c, Tail(q)) /\ c # Head(q)
  <1>1. /\ Head(q) = q[1] /\ 1 \in 1..Len(q)
        /\ \A i \in 1..Len(Tail(q)) :
               Tail(q)[i] = q[i + 1] /\ i + 1 \in 1..Len(q) /\ i + 1 # 1
    BY TailFacts
  <1>2. \A i, j \in 1..Len(Tail(q)) : i + 1 = j + 1 => i = j
    BY TailFacts
  <1> QED BY <1>1, <1>2 DEF Distinct, Disjoint, NotIn

(* Only published buffers are in the queues.                               *)
LEMMA HeadPublished ==
    ASSUME NEW q \in Seq(Buffers), q # <<>>, published \in 0..MAX_ETH_PACKETS,
           \A n \in Buffers : n > published => NotIn(n, q)
    PROVE  Head(q) <= published
  <1>1. Head(q) \in Buffers /\ ~NotIn(Head(q), q)
    <2>1. 1 \in 1..Len(q) /\ Head(q) = q[1] BY TailFacts
    <2> QED BY <2>1, TailFacts DEF NotIn
  <1> QED BY <1>1, PipelineAssumption DEF Buffers

(* OneOwner restated by queue, the form in which the steps use it.         *)
LEMMA OneOwnerParts ==
    OneOwner <=>
      /\ Distinct(free) /\ Distinct(ready) /\ Distinct(transmit)
      /\ Disjoint(free, ready) /\ Disjoint(free, transmit) /\ Disjoint(ready, transmit)
      /\ NotIn(ethBuf, free) /\ NotIn(ethBuf, ready) /\ NotIn(ethBuf, transmit)
      /\ NotIn(packet, free) /\ NotIn(packet, ready) /\ NotIn(packet, transmit)
      /\ \A n \in Buffers : n > published =>
             NotIn(n, free) /\ NotIn(n, ready) /\ NotIn(n, transmit)
      /\ ethBuf = packet => ethBuf = NoBuffer
      /\ ethBuf <= published /\ packet <= published
  BY DEF OneOwner

(* Every step keeps one owner per buffer: sends give up what is sent.      *)
LEMMA StepOneOwner ==
    TypeOK /\ Control /\ Bounded /\ OneOwner /\ [Next]_vars => OneOwner'
  <1> SUFFICES ASSUME TypeOK, Control, Bounded, OneOwner, [Next]_vars
               PROVE  OneOwner'
    OBVIOUS
  <1>0. SendsNeverFail BY BoundedSends
  <1>t. /\ free \in Seq(Buffers) /\ ready \in Seq(Buffers) /\ transmit \in Seq(Buffers)
        /\ published \in 0..MAX_ETH_PACKETS
        /\ ethBuf \in Buffers \cup {NoBuffer} /\ packet \in Buffers \cup {NoBuffer}
        /\ \A q \in Seq(Buffers) : NotIn(NoBuffer, q)
        /\ Buffers \subseteq Nat \ {0} /\ NoBuffer = 0
    BY PipelineAssumption DEF TypeOK, NotIn, NoBuffer, Buffers
  <1>1. CASE EthInit
    <2>1. published + 1 \in Buffers /\ published' = published + 1
      BY <1>1, <1>t, PipelineAssumption DEF EthInit, Buffers
    <2>2. free' = Append(free, published + 1)
      BY <1>1, <1>0, <1>t, <2>1, SendLen DEF EthInit, EthAt, SendsNeverFail
    <2>3. NotIn(published + 1, free) /\ NotIn(published + 1, ready)
          /\ NotIn(published + 1, transmit)
      BY <1>t, <2>1, OneOwnerParts
    <2>4. UNCHANGED <<ready, transmit, ethBuf, packet>>
      BY <1>1 DEF EthInit, ipVars
    <2>5. ethBuf # published + 1 /\ packet # published + 1
      BY <1>t, OneOwnerParts
    <2> QED BY <1>t, <2>1, <2>2, <2>3, <2>4, <2>5, OwnAppend, OneOwnerParts DEF OneOwner
  <1>2. CASE EthGetFree
    <2>1. /\ free # <<>> /\ ethBuf' = Head(free) /\ free' = Tail(free)
          /\ UNCHANGED <<ready, transmit, packet, published>>
      BY <1>2 DEF EthGetFree, ipVars
    <2>2. Head(free) \in Buffers BY <1>t, <2>1, TailFacts
    <2>3. Head(free) <= published /\ Head(free) # packet
      BY <1>t, <2>1, HeadPublished, OwnTail, OneOwnerParts
    <2>4. /\ Distinct(free') /\ Distinct(ready') /\ Distinct(transmit')
          /\ Disjoint(free', ready') /\ Disjoint(free', transmit')
          /\ Disjoint(ready', transmit')
      BY <1>t, <2>1, OwnTail, OneOwnerParts
    <2>5. NotIn(ethBuf', free') /\ NotIn(ethBuf', ready') /\ NotIn(ethBuf', transmit')
      BY <1>t, <2>1, OwnTail, OneOwnerParts
    <2>6. \A c : NotIn(c, free) /\ NotIn(c, ready) /\ NotIn(c, transmit) =>
                NotIn(c, free') /\ NotIn(c, ready') /\ NotIn(c, transmit')
      BY <1>t, <2>1, OwnTail
    <2> QED BY <2>1, <2>2, <2>3, <2>4, <2>5, <2>6, OneOwnerParts DEF OneOwner
  <1>3. CASE EthPutReady
    <2>1. /\ ethBuf \in Buffers /\ ready' = Append(ready, ethBuf) /\ ethBuf' = NoBuffer
          /\ UNCHANGED <<free, transmit, packet, published>>
      BY <1>3, <1>t DEF EthPutReady, EthAt, Control, ipVars
    <2>2. ready' \in Seq(Buffers) BY <1>t, <2>1, AppendFacts
    <2> QED BY <1>t, <2>1, <2>2, OwnAppend, OneOwnerParts DEF OneOwner
  <1>4. CASE EthTakeTransmit
    <2>1. /\ transmit # <<>> /\ ethBuf' = Head(transmit) /\ transmit' = Tail(transmit)
          /\ UNCHANGED <<free, ready, packet, published>>
      BY <1>4 DEF EthTakeTransmit, ipVars
    <2>2. Head(transmit) \in Buffers BY <1>t, <2>1, TailFacts
    <2>3. Head(transmit) <= published /\ Head(transmit) # packet
      BY <1>t, <2>1, HeadPublished, OwnTail, OneOwnerParts
    <2>4. /\ Distinct(free') /\ Distinct(ready') /\ Distinct(transmit')
          /\ Disjoint(free', ready') /\ Disjoint(free', transmit')
          /\ Disjoint(ready', transmit')
      BY <1>t, <2>1, OwnTail, OneOwnerParts
    <2>5. NotIn(ethBuf', free') /\ NotIn(ethBuf', ready') /\ NotIn(ethBuf', transmit')
      BY <1>t, <2>1, OwnTail, OneOwnerParts
    <2>6. \A c : NotIn(c, free) /\ NotIn(c, ready) /\ NotIn(c, transmit) =>
                NotIn(c, free') /\ NotIn(c, ready') /\ NotIn(c, transmit')
      BY <1>t, <2>1, OwnTail
    <2> QED BY <2>1, <2>2, <2>3, <2>4, <2>5, <2>6, OneOwnerParts DEF OneOwner
  <1>5. CASE EthWrite
    <2>1. /\ ethBuf \in Buffers /\ free' = Send(free, ethBuf) /\ ethBuf' = NoBuffer
          /\ UNCHANGED <<ready, transmit, packet, published>>
      BY <1>5, <1>t DEF EthWrite, EthAt, Control, ipVars
    <2>2. free' = Append(free, ethBuf)
      BY <1>5, <1>0, <1>t, <2>1, SendLen DEF EthWrite, EthAt, SendsNeverFail
    <2>3. free' \in Seq(Buffers) BY <1>t, <2>1, <2>2, AppendFacts
    <2> QED BY <1>t, <2>1, <2>2, <2>3, OwnAppend, OneOwnerParts DEF OneOwner
  <1>6. CASE IpReceive
    <2>1. /\ ready # <<>> /\ packet' = Head(ready) /\ ready' = Tail(ready)
          /\ UNCHANGED <<free, transmit, ethBuf, published>>
      BY <1>6 DEF IpReceive, ethVars
    <2>2. Head(ready) \in Buffers BY <1>t, <2>1, TailFacts
    <2>3. Head(ready) <= published /\ Head(ready) # ethBuf
      BY <1>t, <2>1, HeadPublished, OwnTail, OneOwnerParts
    <2> QED BY <1>t, <2>1, <2>2, <2>3, OwnTail, OneOwnerParts DEF OneOwner
  <1>7. CASE IpOutput
    <2> DEFINE b == Head(free)
    <2>1. /\ free # <<>> /\ free' = Tail(free) /\ transmit' = Send(transmit, b)
          /\ UNCHANGED <<ready, ethBuf, packet, published>>
      BY <1>7 DEF IpOutput, ethVars
    <2>2. b \in Buffers /\ Tail(free) \in Seq(Buffers) BY <1>t, <2>1, TailFacts
    <2>3. transmit' = Append(transmit, b)
      BY <1>0, <1>t, <2>1, <2>2, SendLen DEF SendsNeverFail
    <2>4. /\ NotIn(b, Tail(free)) /\ NotIn(b, ready) /\ NotIn(b, transmit)
          /\ b # ethBuf /\ b # packet /\ b <= published
      <3>1. b <= published BY <1>t, <2>1, HeadPublished, OneOwnerParts
      <3> QED BY <1>t, <2>1, <3>1, OwnTail, OneOwnerParts
    <2>5. /\ Distinct(free') /\ Disjoint(free', ready) /\ Disjoint(free', transmit)
          /\ \A c : NotIn(c, free) => NotIn(c, free')
      BY <1>t, <2>1, OwnTail, OneOwnerParts
    <2>6. /\ Distinct(transmit') /\ Disjoint(free', transmit') /\ Disjoint(ready, transmit')
          /\ \A c : c # b /\ NotIn(c, transmit) => NotIn(c, transmit')
      <3>1. free' \in Seq(Buffers) /\ NotIn(b, free') BY <2>1, <2>2, <2>4
      <3>2. Disjoint(ready, transmit) /\ Distinct(transmit) BY OneOwnerParts
      <3>. HIDE DEF b
      <3> QED BY <1>t, <2>2, <2>3, <2>4, <2>5, <3>1, <3>2, OwnAppend
    <2>. HIDE DEF b
    <2> QED BY <1>t, <2>1, <2>4, <2>5, <2>6, OneOwnerParts DEF OneOwner
  <1>8. CASE IpFree
    <2>1. /\ packet \in Buffers /\ free' = Send(free, packet) /\ packet' = NoBuffer
          /\ UNCHANGED <<ready, transmit, ethBuf, published>>
      BY <1>8, <1>t DEF IpFree, GiveBack, Control, ethVars
    <2>2. free' = Append(free, packet)
      BY <1>0, <1>t, <2>1, SendLen DEF SendsNeverFail
    <2>3. free' \in Seq(Buffers) BY <1>t, <2>1, <2>2, AppendFacts
    <2> QED BY <1>t, <2>1, <2>2, <2>3, OwnAppend, OneOwnerParts DEF OneOwner
  <1>9. CASE UNCHANGED <<queues, published, ethBuf, packet>>
    BY <1>9 DEF OneOwner, queues, Distinct, Disjoint, NotIn
  <1>10. \/ EthInit \/ EthGetFree \/ EthPutReady \/ EthTakeTransmit \/ EthWrite
         \/ IpReceive \/ IpOutput \/ IpFree
         \/ UNCHANGED <<queues, published, ethBuf, packet>>
    BY OwnersOfStep
  <1> QED BY <1>1, <1>2, <1>3, <1>4, <1>5, <1>6, <1>7, <1>8, <1>9, <1>10

(* At the start no buffer is published, so none has two owners.            *)
LEMMA InitOwners == Init => Bounded /\ OneOwner
  <1> SUFFICES ASSUME Init PROVE Bounded /\ OneOwner OBVIOUS
  <1>1. Bounded
    BY PipelineAssumption DEF Init, Bounded, Accounted, Held, NoBuffer
  <1>2. OneOwner
    BY PipelineAssumption DEF Init, OneOwner, Distinct, Disjoint, NotIn, NoBuffer
  <1> QED BY <1>1, <1>2

(* No buffer is ever owned twice: the tasks may copy into and out of the   *)
(* buffers without a lock, for any number of buffers and any traffic.      *)
THEOREM UniqueOwner == Spec => []OneOwner
  <1>1. TypeOK /\ Control /\ Bounded /\ OneOwner /\ [Next]_vars => (Bounded /\ OneOwner)'
    BY StepBounded, StepOneOwner
  <1> QED BY TypeCorrect, InitOwners, <1>1, PTL DEF Spec

-----------------------------------------------------------------------------
(* The order of the frames.                                                *)

(* The elements of a queue are not the buffer written outside of it.       *)
LEMMA Elements ==
    ASSUME NEW q \in Seq(Buffers), NEW b, NotIn(b, q)
    PROVE  \A i \in 1..Len(q) : q[i] \in Buffers /\ q[i] # b
  BY DEF NotIn

(* Every step keeps received frames in line, from ring to IP task.         *)
LEMMA StepRxInOrder ==
    TypeOK /\ Control /\ Bounded /\ OneOwner /\ RxInOrder /\ [Next]_vars => RxInOrder'
  <1> SUFFICES ASSUME TypeOK, Control, Bounded, OneOwner, RxInOrder, [Next]_vars
               PROVE  RxInOrder'
    OBVIOUS
  <1>t. /\ free \in Seq(Buffers) /\ ready \in Seq(Buffers) /\ transmit \in Seq(Buffers)
        /\ pending \in Seq(Nat) /\ rxLog \in Seq(FrameKinds)
        /\ content \in [Buffers -> Frame] /\ pktBuf \in Nat /\ delivered \in Nat
        /\ ethBuf \in Buffers \cup {NoBuffer} /\ packet \in Buffers \cup {NoBuffer}
        /\ Len(ready) \in Nat /\ Len(pending) \in Nat /\ Len(rxLog) \in Nat
        /\ lastRead \in Nat /\ inStep \in BOOLEAN
    BY DEF TypeOK
  <1>r. /\ \A i \in 1..Len(ready) : content[ready[i]] = Rx(Due(delivered + i))
        /\ InPktBuf = 1 => pktBuf = Due(delivered + Len(ready) + 1)
        /\ ethPc = "put_ready" => content[ethBuf] = Rx(pktBuf)
        /\ delivered <= lastRead /\ lastRead <= Len(rxLog)
        /\ lastRead <= delivered + Len(ready) + InPktBuf
    BY DEF RxInOrder
  <1>s. inStep => /\ lastRead = delivered + Len(ready) + InPktBuf
                  /\ \A i \in 1..Len(pending) : pending[i] = lastRead + i
                  /\ lastRead + Len(pending) = Len(rxLog)
    BY DEF RxInOrder
  <1>d. lastRead' = lastRead => \A n : Due(n)' = Due(n)
    BY DEF Due
  <1>1. CASE EthInit
    <2>1. /\ ethPc = "init" /\ ethPc' \in {"init", "read"}
          /\ content' = [content EXCEPT ![published + 1] = Blank]
          /\ UNCHANGED <<ready, pktBuf, pending, delivered, rxLog, inStep, lastRead>>
      BY <1>1 DEF EthInit, EthAt, chip, stepVars, history
    <2>2. published + 1 \in Buffers /\ NotIn(published + 1, ready)
      BY <1>1, PipelineAssumption, OneOwnerParts DEF EthInit, TypeOK, Buffers
    <2>3. \A i \in 1..Len(ready) : content'[ready[i]] = content[ready[i]]
      BY <1>t, <2>1, <2>2, Elements
    <2> QED BY <2>1, <2>3 DEF RxInOrder, InPktBuf, Due
  <1>2. CASE EthReadPacket
    <2>1. /\ inStep /\ pending # <<>> /\ ethPc = "read" /\ ethPc' = "get_free"
          /\ pktBuf' = Head(pending) /\ lastRead' = Head(pending)
          /\ pending' = Tail(pending)
          /\ UNCHANGED <<ready, content, delivered, rxLog, inStep>>
      BY <1>2 DEF EthReadPacket, EthAt, queues, history
    <2>2. /\ Head(pending) = pending[1] /\ Len(pending) > 0
          /\ Len(pending') = Len(pending) - 1
          /\ \A i \in 1..Len(pending') : pending'[i] = pending[i + 1]
      BY <1>t, <2>1, TailFacts
    <2>3. InPktBuf = 0 /\ InPktBuf' = 1 BY <2>1 DEF InPktBuf
    <2>4. lastRead' = lastRead + 1 /\ lastRead = delivered + Len(ready)
      BY <1>t, <1>s, <2>1, <2>2, <2>3
    <2>5. \A i \in 1..Len(pending') : pending'[i] = lastRead' + i
      <3> SUFFICES ASSUME NEW i \in 1..Len(pending')
                   PROVE  pending'[i] = lastRead' + i
        OBVIOUS
      <3>1. i \in Nat /\ i + 1 \in 1..Len(pending) BY <1>t, <2>2
      <3>2. pending'[i] = lastRead + (i + 1) BY <1>s, <2>1, <2>2, <3>1
      <3> QED BY <1>t, <2>4, <3>1, <3>2
    <2>6. \A i \in 1..Len(ready) : content'[ready'[i]] = Rx(Due(delivered + i)')
      <3> SUFFICES ASSUME NEW i \in 1..Len(ready)
                   PROVE  content'[ready'[i]] = Rx(Due(delivered + i)')
        OBVIOUS
      <3>1. delivered + i <= lastRead /\ delivered' + i <= lastRead' BY <1>t, <2>1, <2>4
      <3>2. Due(delivered + i) = delivered + i /\ Due(delivered + i)' = delivered + i
        BY <2>1, <3>1 DEF Due
      <3> QED BY <1>r, <2>1, <3>2
    <2>7. pktBuf' = Due(delivered + Len(ready) + 1)'
      BY <1>t, <2>1, <2>4 DEF Due
    <2>8. delivered' <= lastRead' /\ lastRead' <= Len(rxLog')
          /\ lastRead' = delivered' + Len(ready') + InPktBuf'
          /\ lastRead' + Len(pending') = Len(rxLog')
      BY <1>t, <1>s, <2>1, <2>2, <2>3, <2>4
    <2>9. ethPc' # "put_ready" /\ lastRead' <= delivered' + Len(ready') + InPktBuf'
      BY <1>t, <2>1, <2>3, <2>4
    <2> QED BY <2>1, <2>5, <2>6, <2>7, <2>8, <2>9 DEF RxInOrder
  <1>3. CASE EthReadGarbage
    <2>1. /\ ~inStep /\ ethPc = "read" /\ ethPc' = "get_free" /\ pktBuf' = 0
          /\ UNCHANGED <<ready, content, delivered, rxLog, inStep, lastRead>>
      BY <1>3 DEF EthReadGarbage, EthAt, queues, stepVars, history
    <2>2. InPktBuf = 0 /\ InPktBuf' = 1 BY <2>1 DEF InPktBuf
    <2>3. Due(delivered + Len(ready) + 1)' = 0
      BY <1>t, <1>r, <2>1, <2>2 DEF Due
    <2>4. lastRead' <= delivered' + Len(ready') + InPktBuf'
      BY <1>t, <1>r, <2>1, <2>2
    <2>5. \A i \in 1..Len(ready') : content'[ready'[i]] = Rx(Due(delivered + i)')
      BY <1>r, <1>d, <2>1 DEF Due
    <2> QED BY <1>r, <2>1, <2>3, <2>4, <2>5 DEF RxInOrder
  <1>4. CASE EthReadError \/ EthRecover \/ EthClearRxerif
    <2>1. /\ ethPc \notin {"get_free", "put_ready"} /\ ethPc' \notin {"get_free", "put_ready"}
          /\ UNCHANGED <<ready, content, pktBuf, pending, delivered, rxLog, lastRead>>
      BY <1>4 DEF EthReadError, EthRecover, EthClearRxerif, EthAt, queues, chip,
         stepVars, history
    <2>s. inStep' => inStep
      BY <1>4, Zenon DEF EthReadError, EthRecover, EthClearRxerif, stepVars
    <2>2. InPktBuf = 0 /\ InPktBuf' = 0 BY <2>1 DEF InPktBuf
    <2> QED BY <1>r, <1>s, <2>1, <2>2, <2>s DEF RxInOrder, Due
  <1>5. CASE EthGetFree
    <2>1. /\ free # <<>> /\ ethPc = "get_free" /\ ethPc' = "put_ready"
          /\ ethBuf' = Head(free)
          /\ content' = [content EXCEPT ![Head(free)] = Rx(pktBuf)]
          /\ UNCHANGED <<ready, pktBuf, pending, delivered, rxLog, inStep, lastRead>>
      BY <1>5 DEF EthGetFree, EthAt, chip, stepVars, history
    <2>2. Head(free) \in Buffers /\ NotIn(Head(free), ready)
      BY <1>t, <2>1, TailFacts, OwnTail, OneOwnerParts
    <2>3. \A i \in 1..Len(ready) : content'[ready[i]] = content[ready[i]]
      BY <1>t, <2>1, <2>2, Elements
    <2>4. content'[ethBuf'] = Rx(pktBuf) BY <1>t, <2>1, <2>2
    <2> QED BY <2>1, <2>3, <2>4 DEF RxInOrder, InPktBuf, Due
  <1>6. CASE EthPutReady
    <2>1. /\ ethPc = "put_ready" /\ ethPc' = "read" /\ ready' = Append(ready, ethBuf)
          /\ UNCHANGED <<content, pktBuf, pending, delivered, rxLog, inStep, lastRead>>
      BY <1>6 DEF EthPutReady, EthAt, chip, stepVars, history
    <2>2. ethBuf \in Buffers BY <1>t, <2>1 DEF Control
    <2>3. /\ Len(ready') = Len(ready) + 1
          /\ \A i \in 1..Len(ready') :
                 \/ i \in 1..Len(ready) /\ ready'[i] = ready[i]
                 \/ i = Len(ready) + 1 /\ ready'[i] = ethBuf
      <3>1. Len(ready') = Len(ready) + 1 BY <1>t, <2>1, <2>2, AppendFacts
      <3>2. \A i \in 1..(Len(ready) + 1) : i \in 1..Len(ready) \/ i = Len(ready) + 1
        BY <1>t
      <3> QED BY <1>t, <2>1, <2>2, <3>1, <3>2, AppendFacts
    <2>i. InPktBuf = 1 /\ InPktBuf' = 0 BY <2>1 DEF InPktBuf
    <2>4. content[ethBuf] = Rx(Due(delivered + Len(ready) + 1))
      BY <1>r, <2>1, <2>i
    <2>5. \A i \in 1..Len(ready') : content'[ready'[i]] = Rx(Due(delivered + i)')
      <3> SUFFICES ASSUME NEW i \in 1..Len(ready')
                   PROVE  content'[ready'[i]] = Rx(Due(delivered + i)')
        OBVIOUS
      <3>0. Due(delivered + i)' = Due(delivered + i) BY <2>1 DEF Due
      <3>1. CASE i \in 1..Len(ready) /\ ready'[i] = ready[i]
        BY <1>r, <2>1, <3>0, <3>1
      <3>2. CASE i = Len(ready) + 1 /\ ready'[i] = ethBuf
        <4>1. delivered + i = delivered + Len(ready) + 1 BY <1>t, <3>2
        <4> QED BY <2>1, <2>4, <3>0, <3>2, <4>1
      <3> QED BY <2>3, <3>1, <3>2
    <2>6. delivered' + Len(ready') + InPktBuf' = delivered + Len(ready) + InPktBuf
      BY <1>t, <2>1, <2>3, <2>i
    <2>7. lastRead' <= delivered' + Len(ready') + InPktBuf' BY <1>r, <2>1, <2>6
    <2>8. inStep' => lastRead' = delivered' + Len(ready') + InPktBuf' BY <1>s, <2>1, <2>6
    <2> QED BY <1>r, <1>s, <2>1, <2>5, <2>7, <2>8, <2>i DEF RxInOrder
  <1>7. CASE IpReceive
    <2>0. DEFINE n == content[Head(ready)].id
    <2>1. /\ ready # <<>> /\ ready' = Tail(ready)
          /\ delivered' = IF n = 0 THEN delivered ELSE n
          /\ UNCHANGED <<content, ethPc, ethBuf, pktBuf, pending, rxLog, inStep, lastRead>>
      BY <1>7 DEF IpReceive, ethVars, chip, stepVars
    <2>2. /\ Head(ready) = ready[1] /\ Len(ready) > 0 /\ Len(ready') = Len(ready) - 1
          /\ \A i \in 1..Len(ready') : ready'[i] = ready[i + 1]
      BY <1>t, <2>1, TailFacts
    <2>3. n = Due(delivered + 1)
      <3>1. 1 \in 1..Len(ready) BY <1>t, <2>2
      <3>2. content[Head(ready)] = Rx(Due(delivered + 1)) BY <1>r, <2>2, <3>1, Zenon
      <3> QED BY <3>2 DEF Rx
    <2>i. InPktBuf' = InPktBuf /\ InPktBuf \in {0, 1} BY <2>1 DEF InPktBuf
    <2>4. CASE delivered + 1 <= lastRead
      <3>1. delivered' = delivered + 1 BY <1>t, <2>1, <2>3, <2>4 DEF Due
      <3>2. delivered' + Len(ready') = delivered + Len(ready) BY <1>t, <2>2, <3>1
      <3>3. \A i \in 1..Len(ready') : content'[ready'[i]] = Rx(Due(delivered + i)')
        <4> SUFFICES ASSUME NEW i \in 1..Len(ready')
                     PROVE  content'[ready'[i]] = Rx(Due(delivered + i)')
          OBVIOUS
        <4>1. i + 1 \in 1..Len(ready) /\ delivered + (i + 1) = delivered' + i
          BY <1>t, <2>2, <3>1
        <4>2. content[ready[i + 1]] = Rx(Due(delivered + (i + 1))) BY <1>r, <4>1
        <4>3. Due(delivered + i)' = Due(delivered + (i + 1)) BY <2>1, <4>1 DEF Due
        <4> QED BY <2>1, <2>2, <4>2, <4>3
      <3>4. Due(delivered + Len(ready) + 1)' = Due(delivered + Len(ready) + 1)
        BY <2>1, <3>2 DEF Due
      <3>5. delivered' + Len(ready') + InPktBuf' = delivered + Len(ready) + InPktBuf
        BY <2>i, <3>2
      <3>6. delivered' <= lastRead' BY <2>1, <2>4, <3>1
      <3> QED BY <1>r, <1>s, <2>1, <2>i, <3>3, <3>4, <3>5, <3>6 DEF RxInOrder
    <2>5. CASE ~(delivered + 1 <= lastRead)
      <3>1. delivered' = delivered /\ lastRead = delivered
        BY <1>t, <1>r, <2>1, <2>3, <2>5 DEF Due
      <3>2. ~inStep' BY <1>t, <1>s, <2>1, <2>2, <2>i, <3>1
      <3>3. \A k \in Nat \ {0} : Due(delivered + k)' = 0 /\ Due(delivered + k) = 0
        BY <1>t, <2>1, <3>1 DEF Due
      <3>4. \A i \in 1..Len(ready') : content'[ready'[i]] = Rx(Due(delivered + i)')
        <4> SUFFICES ASSUME NEW i \in 1..Len(ready')
                     PROVE  content'[ready'[i]] = Rx(Due(delivered + i)')
          OBVIOUS
        <4>1. i + 1 \in 1..Len(ready) /\ i \in Nat \ {0} /\ i + 1 \in Nat \ {0}
          BY <1>t, <2>2
        <4>2. Due(delivered + (i + 1)) = 0 /\ Due(delivered + i)' = 0 BY <3>3, <4>1
        <4>3. content[ready[i + 1]] = Rx(Due(delivered + (i + 1))) BY <1>r, <4>1
        <4> QED BY <2>1, <2>2, <4>2, <4>3
      <3>5. Due(delivered + Len(ready) + 1)' = Due(delivered + Len(ready) + 1)
        <4>1. /\ delivered + Len(ready) + 1 = delivered + (Len(ready) + 1)
              /\ delivered' + Len(ready') + 1 = delivered + Len(ready)
              /\ Len(ready) + 1 \in Nat \ {0} /\ Len(ready) \in Nat \ {0}
          BY <1>t, <2>2, <3>1
        <4>2. Due(delivered + Len(ready) + 1) = 0 BY <3>3, <4>1
        <4>3. Due(delivered + Len(ready) + 1)' = 0
          BY <1>t, <2>1, <2>2, <3>1, <4>1 DEF Due
        <4> QED BY <4>2, <4>3
      <3>6. delivered' <= lastRead' /\ lastRead' <= delivered' + Len(ready') + InPktBuf'
        <4>1. Len(ready') \in Nat BY <1>t, <2>2
        <4> QED BY <1>t, <2>1, <2>i, <3>1, <4>1
      <3> QED BY <1>r, <2>1, <2>i, <3>2, <3>4, <3>5, <3>6 DEF RxInOrder
    <2> QED BY <2>4, <2>5
  <1>8. CASE IpOutput
    <2>1. /\ free # <<>>
          /\ content' = [content EXCEPT ![Head(free)] = Tx(outputs + 1)]
          /\ UNCHANGED <<ready, ethPc, ethBuf, pktBuf, pending, delivered, rxLog,
                         inStep, lastRead>>
      BY <1>8 DEF IpOutput, ethVars, chip, stepVars
    <2>2. Head(free) \in Buffers /\ NotIn(Head(free), ready) /\ Head(free) # ethBuf
      BY <1>t, <2>1, TailFacts, OwnTail, OneOwnerParts
    <2>3. \A i \in 1..Len(ready) : content'[ready[i]] = content[ready[i]]
      BY <1>t, <2>1, <2>2, Elements
    <2>4. ethPc = "put_ready" => content'[ethBuf] = content[ethBuf]
      BY <1>t, <2>1, <2>2 DEF Control
    <2> QED BY <2>1, <2>3, <2>4 DEF RxInOrder, InPktBuf, Due
  <1>9. CASE FrameArrives
    <2>1. PICK kind \in FrameKinds : rxLog' = Append(rxLog, kind)
      BY <1>9 DEF FrameArrives
    <2>2. /\ pending' = Append(pending, Len(rxLog) + 1)
          /\ UNCHANGED <<ready, content, ethPc, ethBuf, pktBuf, delivered, inStep, lastRead>>
      BY <1>9 DEF FrameArrives, queues, ethVars, stepVars
    <2>3. Len(rxLog') = Len(rxLog) + 1 BY <1>t, <2>1, AppendFacts
    <2>4. /\ Len(pending') = Len(pending) + 1
          /\ \A i \in 1..Len(pending) : pending'[i] = pending[i]
          /\ pending'[Len(pending) + 1] = Len(rxLog) + 1
      <3>1. Len(rxLog) + 1 \in Nat BY <1>t
      <3> QED BY <1>t, <2>2, <3>1, AppendFacts
    <2>5. inStep => /\ \A i \in 1..Len(pending') : pending'[i] = lastRead + i
                    /\ lastRead + Len(pending') = Len(rxLog')
      <3> SUFFICES ASSUME inStep
                   PROVE  /\ \A i \in 1..Len(pending') : pending'[i] = lastRead + i
                          /\ lastRead + Len(pending') = Len(rxLog')
        OBVIOUS
      <3>1. \A i \in 1..(Len(pending) + 1) : i \in 1..Len(pending) \/ i = Len(pending) + 1
        BY <1>t
      <3>2. Len(rxLog) + 1 = lastRead + (Len(pending) + 1)
        <4>1. lastRead + Len(pending) = Len(rxLog) BY <1>s
        <4>2. Len(rxLog) \in Nat /\ lastRead \in Nat /\ Len(pending) \in Nat BY <1>t
        <4> QED BY <4>1, <4>2
      <3> QED BY <1>t, <1>s, <2>3, <2>4, <3>1, <3>2
    <2>6. InPktBuf' = InPktBuf /\ lastRead' <= Len(rxLog')
      BY <1>t, <1>r, <2>2, <2>3 DEF InPktBuf
    <2> QED BY <1>r, <1>s, <2>2, <2>5, <2>6 DEF RxInOrder, Due
  <1>10. CASE /\ UNCHANGED <<ready, content, pktBuf, pending, delivered, rxLog, inStep,
                             lastRead>>
              /\ \/ ethPc' = ethPc /\ ethBuf' = ethBuf
                 \/ /\ ethPc \notin {"get_free", "put_ready"}
                    /\ ethPc' \notin {"get_free", "put_ready"}
    <2>1. InPktBuf' = InPktBuf /\ (ethPc' = "put_ready" => ethBuf' = ethBuf /\ ethPc = ethPc')
      BY <1>10 DEF InPktBuf
    <2> QED BY <1>10, <2>1 DEF RxInOrder, Due
  <1>11. \/ EthInit \/ EthReadPacket \/ EthReadGarbage
         \/ EthReadError \/ EthRecover \/ EthClearRxerif
         \/ EthGetFree \/ EthPutReady \/ IpReceive \/ IpOutput \/ FrameArrives
         \/ /\ UNCHANGED <<ready, content, pktBuf, pending, delivered, rxLog, inStep,
                           lastRead>>
            /\ \/ ethPc' = ethPc /\ ethBuf' = ethBuf
               \/ /\ ethPc \notin {"get_free", "put_ready"}
                  /\ ethPc' \notin {"get_free", "put_ready"}
    BY DEF Next, EthStep, IpStep, vars, queues, ethVars, ipVars, chip, stepVars, history,
       EthAt, EthReadNothing, EthWaitFree, EthTakeTransmit, EthNothingToSend,
       EthWrite, EthWriteAssert, Halt, EthTakeNotification, EthWaitNotification,
       EthTaken, IpWaitReady, IpOutputDropped, IpFree, IpCheckTimeouts, IpInit, IpLoop,
       IdleYield, FrameOverruns, TransmissionEnds, Interrupt, NotifyTimeout
  <1> QED BY <1>1, <1>2, <1>3, <1>4, <1>5, <1>6, <1>7, <1>8, <1>9, <1>10, <1>11

(* Every frame enc28_read_packet reads reaches the IP task once, in order  *)
(* and intact; and while the driver is in step with the ring, the frames   *)
(* read and those in the ring are all the chip accepted.  Losing step is   *)
(* not excluded: the actions EthReadError and EthRecover end the second    *)
(* part of the claim (its premise is inStep), not the first.               *)
THEOREM ReceiveOrder == Spec => []RxInOrder
  <1>1. Init => RxInOrder
    BY DEF Init, RxInOrder, InPktBuf
  <1>2. TypeOK /\ Control /\ Bounded /\ OneOwner /\ [Next]_vars => (Bounded /\ OneOwner)'
    BY StepBounded, StepOneOwner
  <1> QED BY TypeCorrect, InitOwners, <1>1, <1>2, StepRxInOrder, PTL DEF Spec

(* Every step keeps output frames in line, from IP task to chip.           *)
LEMMA StepTxInOrder ==
    TypeOK /\ Control /\ Bounded /\ OneOwner /\ TxInOrder /\ [Next]_vars => TxInOrder'
  <1> SUFFICES ASSUME TypeOK, Control, Bounded, OneOwner, TxInOrder, [Next]_vars
               PROVE  TxInOrder'
    OBVIOUS
  <1>t. /\ free \in Seq(Buffers) /\ transmit \in Seq(Buffers)
        /\ content \in [Buffers -> Frame]
        /\ ethBuf \in Buffers \cup {NoBuffer}
    BY DEF TypeOK
  <1>n. Len(transmit) \in Nat /\ lastSent \in Nat /\ outputs \in Nat /\ InWrite \in {0, 1}
    BY DEF TypeOK, InWrite
  <1>c. lastSent + InWrite + Len(transmit) = outputs
    BY DEF TxInOrder
  <1>1. CASE EthInit
    <2>1. /\ ethPc = "init" /\ ethPc' \in {"init", "read"}
          /\ content' = [content EXCEPT ![published + 1] = Blank]
          /\ UNCHANGED <<transmit, lastSent, outputs>>
      BY <1>1 DEF EthInit, EthAt, history
    <2>2. published + 1 \in Buffers /\ NotIn(published + 1, transmit)
      BY <1>1, PipelineAssumption, OneOwnerParts DEF EthInit, TypeOK, Buffers
    <2>3. \A i \in 1..Len(transmit) : content'[transmit[i]] = content[transmit[i]]
      BY <1>t, <2>1, <2>2, Elements
    <2> QED BY <2>1, <2>3 DEF TxInOrder, InWrite
  <1>2. CASE EthGetFree
    <2>1. /\ free # <<>> /\ ethPc = "get_free" /\ ethPc' = "put_ready"
          /\ content' = [content EXCEPT ![Head(free)] = Rx(pktBuf)]
          /\ UNCHANGED <<transmit, lastSent, outputs>>
      BY <1>2 DEF EthGetFree, EthAt, history
    <2>2. Head(free) \in Buffers /\ NotIn(Head(free), transmit)
      BY <1>t, <2>1, TailFacts, OwnTail, OneOwnerParts
    <2>3. \A i \in 1..Len(transmit) : content'[transmit[i]] = content[transmit[i]]
      BY <1>t, <2>1, <2>2, Elements
    <2> QED BY <2>1, <2>3 DEF TxInOrder, InWrite
  <1>3. CASE EthTakeTransmit
    <2>1. /\ transmit # <<>> /\ ethPc = "transmit" /\ ethPc' = "write"
          /\ ethBuf' = Head(transmit) /\ transmit' = Tail(transmit)
          /\ UNCHANGED <<content, lastSent, outputs>>
      BY <1>3 DEF EthTakeTransmit, EthAt, history
    <2>2. /\ Head(transmit) = transmit[1] /\ Len(transmit) > 0
          /\ Len(transmit') = Len(transmit) - 1
          /\ \A i \in 1..Len(transmit') : transmit'[i] = transmit[i + 1]
      BY <1>t, <2>1, TailFacts
    <2>3. InWrite = 0 /\ InWrite' = 1 BY <2>1 DEF InWrite
    <2>4. \A i \in 1..Len(transmit) : content[transmit[i]] = Tx(lastSent + i)
      <3>1. \A i \in 1..Len(transmit) : lastSent + InWrite + i = lastSent + i
        BY <1>n, <2>3
      <3> QED BY <3>1 DEF TxInOrder
    <2>5. content'[ethBuf'] = Tx(lastSent' + 1)
      <3>1. 1 \in 1..Len(transmit) BY <1>n, <2>2
      <3> QED BY <2>1, <2>2, <2>4, <3>1
    <2>6. \A i \in 1..Len(transmit') :
              content'[transmit'[i]] = Tx(lastSent' + InWrite' + i)
      <3> SUFFICES ASSUME NEW i \in 1..Len(transmit')
                   PROVE  content'[transmit'[i]] = Tx(lastSent' + InWrite' + i)
        OBVIOUS
      <3>1. /\ i + 1 \in 1..Len(transmit)
            /\ lastSent + (i + 1) = lastSent' + InWrite' + i
        BY <1>n, <2>1, <2>2, <2>3
      <3> QED BY <2>1, <2>2, <2>4, <3>1
    <2>7. lastSent' + InWrite' + Len(transmit') = outputs'
      BY <1>n, <1>c, <2>1, <2>2, <2>3
    <2> QED BY <2>5, <2>6, <2>7 DEF TxInOrder
  <1>4. CASE EthWrite
    <2>1. /\ ethPc = "write" /\ ethPc' = "take" /\ lastSent' = content[ethBuf].id
          /\ UNCHANGED <<transmit, content, outputs>>
      BY <1>4 DEF EthWrite, EthAt
    <2>2. lastSent' = lastSent + 1
      <3>1. content[ethBuf] = Tx(lastSent + 1) BY <2>1 DEF TxInOrder
      <3> QED BY <2>1, <3>1 DEF Tx
    <2>3. InWrite = 1 /\ InWrite' = 0 BY <2>1 DEF InWrite
    <2>4. \A n \in Nat : lastSent' + InWrite' + n = lastSent + InWrite + n
      BY <1>n, <2>2, <2>3
    <2>5. \A i \in 1..Len(transmit') :
              content'[transmit'[i]] = Tx(lastSent' + InWrite' + i)
      BY <2>1, <2>4 DEF TxInOrder
    <2>6. lastSent' + InWrite' + Len(transmit') = outputs'
      BY <1>n, <1>c, <2>1, <2>2, <2>3
    <2> QED BY <2>1, <2>5, <2>6 DEF TxInOrder
  <1>5. CASE IpOutput
    <2>1. /\ free # <<>> /\ outputs' = outputs + 1
          /\ content' = [content EXCEPT ![Head(free)] = Tx(outputs + 1)]
          /\ transmit' = Send(transmit, Head(free))
          /\ UNCHANGED <<ethPc, ethBuf, lastSent>>
      BY <1>5 DEF IpOutput, ethVars
    <2>2. /\ Head(free) \in Buffers /\ NotIn(Head(free), transmit)
          /\ Head(free) # ethBuf
      BY <1>t, <2>1, TailFacts, OwnTail, OneOwnerParts
    <2>3. transmit' = Append(transmit, Head(free))
      BY <1>t, <2>1, <2>2, BoundedSends, SendLen DEF SendsNeverFail
    <2>4. \A i \in 1..Len(transmit) : content'[transmit[i]] = content[transmit[i]]
      BY <1>t, <2>1, <2>2, Elements
    <2>5. ethPc = "write" => content'[ethBuf] = content[ethBuf]
      BY <1>t, <2>1, <2>2 DEF Control
    <2>6. content'[Head(free)] = Tx(outputs + 1) BY <1>t, <2>1, <2>2
    <2>7. /\ Len(transmit') = Len(transmit) + 1
          /\ \A i \in 1..Len(transmit) : transmit'[i] = transmit[i]
          /\ transmit'[Len(transmit) + 1] = Head(free)
      BY <1>t, <2>2, <2>3, AppendFacts
    <2>8. InWrite' = InWrite BY <2>1 DEF InWrite
    <2>9. \A i \in 1..Len(transmit') :
              content'[transmit'[i]] = Tx(lastSent' + InWrite' + i)
      <3> SUFFICES ASSUME NEW i \in 1..Len(transmit')
                   PROVE  content'[transmit'[i]] = Tx(lastSent' + InWrite' + i)
        OBVIOUS
      <3>1. CASE i \in 1..Len(transmit)
        BY <2>1, <2>4, <2>7, <2>8, <3>1 DEF TxInOrder
      <3>2. CASE i = Len(transmit) + 1
        <4>1. lastSent' + InWrite' + i = outputs + 1
          BY <1>n, <1>c, <2>1, <2>8, <3>2
        <4> QED BY <2>6, <2>7, <3>2, <4>1
      <3>3. i \in 1..Len(transmit) \/ i = Len(transmit) + 1 BY <1>n, <2>7
      <3> QED BY <3>1, <3>2, <3>3
    <2>10. lastSent' + InWrite' + Len(transmit') = outputs'
      BY <1>n, <1>c, <2>1, <2>7, <2>8
    <2> QED BY <2>1, <2>5, <2>9, <2>10 DEF TxInOrder
  <1>6. CASE /\ UNCHANGED <<transmit, content, lastSent, outputs>>
             /\ \/ ethPc' = ethPc /\ ethBuf' = ethBuf
                \/ ethPc # "write" /\ ethPc' # "write"
    <2>1. InWrite' = InWrite /\ (ethPc' = "write" => ethBuf' = ethBuf /\ ethPc = ethPc')
      BY <1>6 DEF InWrite
    <2> QED BY <1>6, <2>1 DEF TxInOrder
  <1>7. \/ EthInit \/ EthGetFree \/ EthTakeTransmit \/ EthWrite \/ IpOutput
        \/ /\ UNCHANGED <<transmit, content, lastSent, outputs>>
           /\ \/ ethPc' = ethPc /\ ethBuf' = ethBuf
              \/ ethPc # "write" /\ ethPc' # "write"
    BY DEF Next, EthStep, IpStep, vars, queues, ethVars, ipVars, chip, stepVars, history,
       EthAt, EthReadPacket,
     EthReadGarbage, EthReadError, EthReadNothing, EthRecover, EthClearRxerif, EthWaitFree, EthPutReady,
       EthNothingToSend, EthWriteAssert, Halt, EthTakeNotification,
       EthWaitNotification, EthTaken, IpReceive, IpWaitReady, IpOutputDropped,
       IpFree, IpCheckTimeouts, IpInit, IpLoop, IdleYield, FrameArrives, FrameOverruns,
       TransmissionEnds, Interrupt, NotifyTimeout
  <1> QED BY <1>1, <1>2, <1>3, <1>4, <1>5, <1>6, <1>7

(* Every frame that found a buffer in enc28_netif_output is given to the   *)
(* chip once, in order and intact.                                         *)
THEOREM TransmitOrder == Spec => []TxInOrder
  <1>1. Init => TxInOrder
    BY DEF Init, TxInOrder, InWrite
  <1>2. TypeOK /\ Control /\ Bounded /\ OneOwner /\ [Next]_vars => (Bounded /\ OneOwner)'
    BY StepBounded, StepOneOwner
  <1> QED BY TypeCorrect, InitOwners, <1>1, <1>2, StepTxInOrder, PTL DEF Spec

-----------------------------------------------------------------------------
(* Waiting.                                                                *)

(* A step of the argument against a deadlock: the tasks block on queues    *)
(* only while these are empty.                                             *)
WaitsAreReal ==
    /\ ethWait = "free" => free = <<>>
    /\ ipWait = "ready" => ready = <<>>

(* Every step keeps it so: what is sent to a queue wakes who waits there.  *)
LEMMA StepWaits ==
    TypeOK /\ Control /\ WaitsAreReal /\ [Next]_vars => WaitsAreReal'
  <1> SUFFICES ASSUME TypeOK, Control, WaitsAreReal, [Next]_vars
               PROVE  WaitsAreReal'
    OBVIOUS
  <1> USE DEF WaitsAreReal, Control, TypeOK, queues, ethVars, ipVars, rtos, chip,
          stepVars, history, EthAt, IpAt
  <1>1. CASE EthInit \/ EthGetFree \/ EthWrite
    BY <1>1 DEF EthInit, EthGetFree, EthWrite
  <1>2. CASE EthWaitFree \/ EthPutReady \/ EthWaitNotification
    BY <1>2 DEF EthWaitFree, EthPutReady, EthWaitNotification
  <1>3. CASE EthTakeNotification \/ EthTaken
    BY <1>3 DEF EthTakeNotification, EthTaken
  <1>4. CASE EthReadPacket \/ EthReadGarbage \/ EthReadError
             \/ EthReadNothing \/ EthRecover \/ EthClearRxerif \/ EthTakeTransmit
             \/ EthNothingToSend \/ EthWriteAssert
    BY <1>4 DEF EthReadPacket,
     EthReadGarbage, EthReadError, EthReadNothing, EthRecover, EthClearRxerif, EthTakeTransmit,
       EthNothingToSend, EthWriteAssert, Halt
  <1>5. CASE IpReceive
    <2>1. ipWait = "ready" => FALSE BY <1>5 DEF IpReceive
    <2> QED BY <1>5, <2>1 DEF IpReceive
  <1>6. CASE IpWaitReady
    BY <1>6 DEF IpWaitReady
  <1>7. CASE IpOutput \/ IpOutputDropped
    <2>1. free # <<>> => ethWait # "free" OBVIOUS
    <2> QED BY <1>7, <2>1 DEF IpOutput, IpOutputDropped
  <1>8. CASE IpFree
    BY <1>8 DEF IpFree, WakeOnFree
  <1>9. CASE IpCheckTimeouts \/ IpInit \/ IpLoop \/ IdleYield
    BY <1>9 DEF IpCheckTimeouts, IpInit, IpLoop, IdleYield
  <1>10. CASE FrameArrives \/ FrameOverruns \/ TransmissionEnds
    BY <1>10 DEF FrameArrives, FrameOverruns, TransmissionEnds
  <1>11. CASE Interrupt \/ NotifyTimeout
    BY <1>11 DEF Interrupt, NotifyTimeout
  <1>12. CASE UNCHANGED vars
    BY <1>12 DEF vars
  <1> QED
    BY <1>1, <1>2, <1>3, <1>4, <1>5, <1>6, <1>7, <1>8, <1>9, <1>10, <1>11, <1>12
    DEF Next, EthStep, IpStep

(* So it holds in every behaviour.                                         *)
LEMMA AlwaysWaitsAreReal == Spec => []WaitsAreReal
  <1>1. Init => WaitsAreReal
    BY DEF Init, WaitsAreReal
  <1> QED BY TypeCorrect, <1>1, StepWaits, PTL DEF Spec

-----------------------------------------------------------------------------
(* Leaks and deadlock, where lwIP keeps no packet.                         *)

(* The builds and the traffic for which a packet is always given back:     *)
(* without lwIP, or with it as long as no datagram arrives in fragments.   *)
NeverKept == ~USE_LWIP \/ "frag" \notin FrameKinds

(* The IP task holds a packet only as long as it still has to free it.     *)
Returned == packet # NoBuffer => calls.free

(* When nothing is kept for reassembly, every packet is to be freed.       *)
LEMMA ProcessFrees ==
    ASSUME NeverKept, NEW kind \in FrameKinds, NEW c \in Process(kind)
    PROVE  c.free
  <1>1. \A A, B, C : c \in [before : A, free : B, after : C] => c.free \in B
    OBVIOUS
  <1>2. c.free \in {TRUE}
    BY <1>1, Zenon DEF Process, NeverKept
  <1> QED BY <1>2

(* Then no step loses a buffer.                                            *)
LEMMA StepNoLeak ==
    /\ NeverKept
    /\ TypeOK /\ Control /\ RxInOrder /\ Returned /\ NoLeak /\ [Next]_vars
    => Returned' /\ NoLeak'
  <1> SUFFICES ASSUME NeverKept, TypeOK, Control, RxInOrder, Returned, NoLeak, [Next]_vars
               PROVE  Returned' /\ NoLeak'
    OBVIOUS
  <1>0. SendsNeverFail
    BY BoundedSends, PipelineAssumption DEF NoLeak, Bounded
  <1>t. /\ free \in Seq(Buffers) /\ ready \in Seq(Buffers) /\ transmit \in Seq(Buffers)
        /\ ethBuf \in Buffers \cup {0} /\ packet \in Buffers \cup {0}
        /\ published \in 0..MAX_ETH_PACKETS /\ Buffers \subseteq Nat \ {0}
    BY PipelineAssumption DEF TypeOK, NoBuffer, Buffers
  <1>n. /\ Len(free) \in Nat /\ Len(ready) \in Nat /\ Len(transmit) \in Nat
        /\ published \in Nat /\ MAX_ETH_PACKETS \in Nat
        /\ Len(free) + Len(ready) + Len(transmit) + Held(ethBuf) + Held(packet)
             + (MAX_ETH_PACKETS - published) = MAX_ETH_PACKETS
        /\ Held(0) = 0 /\ \A b \in Buffers : Held(b) = 1
        /\ Held(ethBuf) \in Nat /\ Held(packet) \in Nat
    BY <1>t, PipelineAssumption DEF NoLeak, Accounted, Held, NoBuffer
  <1>1. CASE EthInit
    <2>1. published + 1 \in Buffers
      BY <1>1, <1>n DEF EthInit, Buffers
    <2>2. Len(free') = Len(free) + 1
      BY <1>1, <1>0, <1>t, <2>1, SendLen DEF EthInit, EthAt, SendsNeverFail
    <2>3. published' = published + 1 /\ UNCHANGED <<ready, transmit, ethBuf, packet, calls>>
      BY <1>1 DEF EthInit, ipVars
    <2> QED BY <1>n, <2>2, <2>3 DEF NoLeak, Accounted, Held, Returned
  <1>2. CASE EthGetFree
    <2>1. Head(free) \in Buffers /\ Len(free') = Len(free) - 1
      BY <1>2, <1>t, TailFacts DEF EthGetFree
    <2>2. /\ ethBuf = 0 /\ ethBuf' = Head(free)
          /\ UNCHANGED <<ready, transmit, published, packet, calls>>
      BY <1>2 DEF EthGetFree, EthAt, Control, NoBuffer, ipVars
    <2>3. Held(ethBuf) = 0 /\ Held(ethBuf') = 1 BY <1>n, <2>1, <2>2
    <2> QED BY <1>n, <2>1, <2>2, <2>3 DEF NoLeak, Accounted, Returned
  <1>3. CASE EthPutReady
    <2>1. /\ ethBuf \in Buffers /\ ethBuf' = 0
          /\ UNCHANGED <<free, transmit, published, packet, calls>>
      BY <1>3, <1>t DEF EthPutReady, EthAt, Control, NoBuffer, ipVars
    <2>2. Len(ready') = Len(ready) + 1 BY <1>3, <1>t, <2>1, AppendFacts DEF EthPutReady
    <2>3. Held(ethBuf) = 1 /\ Held(ethBuf') = 0 BY <1>n, <2>1
    <2> QED BY <1>n, <2>1, <2>2, <2>3 DEF NoLeak, Accounted, Returned
  <1>4. CASE EthTakeTransmit
    <2>1. Head(transmit) \in Buffers /\ Len(transmit') = Len(transmit) - 1
      BY <1>4, <1>t, TailFacts DEF EthTakeTransmit
    <2>2. /\ ethBuf = 0 /\ ethBuf' = Head(transmit)
          /\ UNCHANGED <<free, ready, published, packet, calls>>
      BY <1>4 DEF EthTakeTransmit, EthAt, Control, NoBuffer, ipVars
    <2>3. Held(ethBuf) = 0 /\ Held(ethBuf') = 1 BY <1>n, <2>1, <2>2
    <2> QED BY <1>n, <2>1, <2>2, <2>3 DEF NoLeak, Accounted, Returned
  <1>5. CASE EthWrite
    <2>1. /\ ethBuf \in Buffers /\ ethBuf' = 0
          /\ UNCHANGED <<ready, transmit, published, packet, calls>>
      BY <1>5, <1>t DEF EthWrite, EthAt, Control, NoBuffer, ipVars
    <2>2. Len(free') = Len(free) + 1
      BY <1>5, <1>0, <1>t, <2>1, SendLen DEF EthWrite, EthAt, SendsNeverFail
    <2>3. Held(ethBuf) = 1 /\ Held(ethBuf') = 0 BY <1>n, <2>1
    <2> QED BY <1>n, <2>1, <2>2, <2>3 DEF NoLeak, Accounted, Returned
  <1>6. CASE IpReceive
    <2>1. /\ ready # <<>> /\ packet' = Head(ready) /\ ready' = Tail(ready)
          /\ UNCHANGED <<free, transmit, ethBuf, published>>
      BY <1>6 DEF IpReceive, ethVars
    <2>2. /\ Head(ready) = ready[1] /\ Head(ready) \in Buffers
          /\ Len(ready) > 0 /\ Len(ready') = Len(ready) - 1
      BY <1>t, <2>1, TailFacts
    <2>3. packet = 0
      BY <1>6 DEF IpReceive, IpAt, Control, Returned, NoBuffer
    <2>4. \E kind \in FrameKinds : calls' \in Process(kind)
      <3>1. content[Head(ready)].id \in 0..Len(rxLog)
        <4>1. 1 \in 1..Len(ready) BY <1>n, <2>2
        <4>2. content[Head(ready)] = Rx(Due(delivered + 1))
          BY <2>2, <4>1, Zenon DEF RxInOrder
        <4>3. /\ delivered \in Nat /\ lastRead \in Nat /\ Len(rxLog) \in Nat
              /\ lastRead <= Len(rxLog)
          BY DEF TypeOK, RxInOrder
        <4>4. Due(delivered + 1) \in 0..Len(rxLog) BY <4>3 DEF Due
        <4> QED BY <4>2, <4>4 DEF Rx
      <3>2. PICK kind \in (IF content[Head(ready)].id = 0 THEN FrameKinds
                           ELSE {rxLog[content[Head(ready)].id]}) :
                calls' \in Process(kind)
        BY <1>6 DEF IpReceive
      <3>3. kind \in FrameKinds
        <4>1. CASE content[Head(ready)].id = 0 BY <3>2, <4>1
        <4>2. CASE content[Head(ready)].id # 0
          <5>1. content[Head(ready)].id \in 1..Len(rxLog) BY <3>1, <4>2 DEF TypeOK
          <5> QED BY <3>2, <4>2, <5>1 DEF TypeOK
        <4> QED BY <4>1, <4>2
      <3> QED BY <3>2, <3>3
    <2>5. calls'.free BY <2>4, ProcessFrees
    <2>6. Held(packet) = 0 /\ Held(packet') = 1 BY <1>n, <2>1, <2>2, <2>3
    <2> QED BY <1>n, <2>1, <2>2, <2>5, <2>6 DEF NoLeak, Accounted, Returned
  <1>7. CASE IpOutput
    <2>1. /\ free # <<>> /\ free' = Tail(free) /\ transmit' = Send(transmit, Head(free))
          /\ calls' = OutputDone
          /\ UNCHANGED <<ready, ethBuf, packet, published>>
      BY <1>7 DEF IpOutput, ethVars
    <2>2. Head(free) \in Buffers /\ Len(free') = Len(free) - 1
      BY <1>t, <2>1, TailFacts
    <2>3. Len(transmit') = Len(transmit) + 1
      BY <1>0, <1>t, <2>1, <2>2, SendLen DEF SendsNeverFail
    <2>4. calls'.free = calls.free BY <2>1 DEF OutputDone, TypeOK, Calls
    <2>5. Returned' BY <2>1, <2>4 DEF Returned
    <2>6. Held(ethBuf') = Held(ethBuf) /\ Held(packet') = Held(packet) BY <2>1
    <2>7. NoLeak' BY <1>n, <2>1, <2>2, <2>3, <2>6 DEF NoLeak, Accounted
    <2> QED BY <2>5, <2>7
  <1>8. CASE IpFree
    <2>1. /\ packet \in Buffers /\ free' = Send(free, packet) /\ packet' = 0
          /\ UNCHANGED <<ready, transmit, ethBuf, published>>
      BY <1>8, <1>t DEF IpFree, GiveBack, Control, NoBuffer, ethVars
    <2>2. Len(free') = Len(free) + 1
      <3>1. Len(free) < MAX_ETH_PACKETS BY <1>0, <1>t, <2>1 DEF SendsNeverFail, NoBuffer
      <3> QED BY <1>t, <2>1, <3>1, SendLen
    <2>3. Held(packet) = 1 /\ Held(packet') = 0 BY <1>n, <2>1
    <2> QED BY <1>n, <2>1, <2>2, <2>3 DEF NoLeak, Accounted, Returned, NoBuffer
  <1>9. CASE UNCHANGED <<queues, published, ethBuf, packet>>
    <2>1. NoLeak' BY <1>9 DEF NoLeak, Accounted, Held, queues
    <2>2. Returned'
      <3>1. CASE IpOutputDropped
        <4>1. calls'.free = calls.free
          BY <3>1 DEF IpOutputDropped, OutputDone, TypeOK, Calls
        <4> QED BY <1>9, <4>1 DEF Returned
      <3>2. CASE IpCheckTimeouts
        BY <3>2, <1>9 DEF IpCheckTimeouts, Idle, Returned
      <3>3. CASE UNCHANGED calls
        BY <1>9, <3>3 DEF Returned
      <3>4. CASE IpReceive \/ IpOutput \/ IpFree
        BY <3>4, <1>6, <1>7, <1>8
      <3> QED BY <3>1, <3>2, <3>3, <3>4 DEF Next, EthStep, IpStep, vars, ipVars,
        EthInit, EthReadPacket,
     EthReadGarbage, EthReadError, EthReadNothing, EthRecover, EthClearRxerif, EthGetFree, EthWaitFree,
        EthPutReady, EthTakeTransmit, EthNothingToSend, EthWrite,
        EthWriteAssert, Halt, EthTakeNotification, EthWaitNotification, EthTaken,
        IpWaitReady, IpInit, IpLoop, IdleYield, FrameArrives, FrameOverruns,
        TransmissionEnds, Interrupt, NotifyTimeout
    <2> QED BY <2>1, <2>2
  <1> QED
    BY <1>1, <1>2, <1>3, <1>4, <1>5, <1>6, <1>7, <1>8, <1>9, OwnersOfStep

(* Without lwIP, or with it as long as nothing arrives in fragments, every *)
(* buffer stays accounted for: enc28_pbuf_free (or the send of             *)
(* ip_stack_task.c:146) returns each of them.                              *)
THEOREM BuffersAreReturned == ASSUME NeverKept PROVE Spec => []NoLeak
  <1>1. Init => Returned /\ NoLeak
    BY PipelineAssumption DEF Init, Returned, NoLeak, Accounted, Held, NoBuffer
  <1>2. TypeOK /\ Control /\ RxInOrder /\ Returned /\ NoLeak /\ [Next]_vars
        => (Returned /\ NoLeak)'
    BY StepNoLeak
  <1> QED BY TypeCorrect, ReceiveOrder, <1>1, <1>2, PTL DEF Spec

(* What keeps the ping responder of the build without lwIP from a          *)
(* deadlock: it answers while it still holds the request, so a buffer that *)
(* is not in the transmit queue is always left.                            *)
Answering ==
    /\ ethWait = "free" => ethPc = "get_free"
    /\ ipWait = "ready" => ipPc = "receive"
    /\ running = "ip" => ipWait = "none"
    /\ calls.before > 0 => calls.free
    /\ calls.after = 0
    /\ Len(transmit) < MAX_ETH_PACKETS

(* Without lwIP every answer precedes the release of the request.          *)
LEMMA ProcessAnswers ==
    ASSUME ~USE_LWIP, NEW kind, NEW c \in Process(kind)
    PROVE  c.free /\ c.after = 0
  BY DEF Process

(* So the transmit queue never holds every buffer.                         *)
LEMMA StepAnswering ==
    ASSUME ~USE_LWIP, TypeOK, Control, Bounded, Answering, [Next]_vars
    PROVE  Answering'
  <1>t. /\ Len(free) \in Nat /\ Len(ready) \in Nat /\ Len(transmit) \in Nat
        /\ calls \in Calls /\ published \in 0..MAX_ETH_PACKETS
        /\ MAX_ETH_PACKETS \in Nat \ {0}
    BY PipelineAssumption DEF TypeOK
  <1>p. \A e, i : /\ NextTask(e, i) = "ip" => i = "none"
                  /\ NextTask(e, i) = "eth" => e = "none"
    BY DEF NextTask
  <1>1. CASE EthTakeTransmit
    <2>1. Len(transmit') < MAX_ETH_PACKETS
      BY <1>1, <1>t, TailFacts DEF EthTakeTransmit, TypeOK, Answering
    <2> QED BY <1>1, <2>1 DEF EthTakeTransmit, EthAt, Answering, Control, ipVars, rtos
  <1>2. CASE EthInit \/ EthReadPacket \/ EthReadGarbage \/ EthReadError
             \/ EthReadNothing \/ EthRecover \/ EthClearRxerif \/ EthGetFree
             \/ EthWaitFree \/ EthPutReady
    BY <1>2, <1>p DEF Answering, Control, EthAt, queues, ethVars, ipVars, rtos,
       EthInit, EthReadPacket,
     EthReadGarbage, EthReadError, EthReadNothing, EthRecover, EthClearRxerif, EthGetFree, EthWaitFree, EthPutReady
  <1>3. CASE EthNothingToSend \/ EthWrite \/ EthWriteAssert \/ EthTakeNotification
             \/ EthWaitNotification \/ EthTaken
    BY <1>3, <1>p DEF Answering, Control, EthAt, queues, ethVars, ipVars, rtos,
       EthNothingToSend, EthWrite, EthWriteAssert, Halt, EthTakeNotification,
       EthWaitNotification, EthTaken
  <1>4. CASE IpReceive
    <2>0. PICK kind : calls' \in Process(kind) BY <1>4 DEF IpReceive
    <2>1. calls'.free /\ calls'.after = 0 BY <2>0, ProcessAnswers
    <2> QED BY <1>4, <2>1 DEF IpReceive, IpAt, Answering, ethVars, rtos
  <1>5. CASE IpOutput
    <2>1. calls.before > 0 /\ calls.free
      BY <1>5, <1>t DEF IpOutput, OutputDue, Answering, Calls
    <2>2. packet # NoBuffer /\ ipPc = "process" BY <2>1 DEF Control
    <2>3. Len(free) > 0 BY <1>5 DEF IpOutput, TypeOK
    <2>4. Held(packet) = 1 /\ Held(ethBuf) \in Nat BY <2>2 DEF Held
    <2>5. Len(transmit) + 2 <= MAX_ETH_PACKETS
      BY <1>t, <2>3, <2>4 DEF Bounded, Accounted
    <2>6. Len(transmit') <= Len(transmit) + 1
      BY <1>5, SendLen, TailFacts DEF IpOutput, TypeOK
    <2>7. Len(transmit') \in Nat
      BY <1>5, SendType, TailFacts DEF IpOutput, TypeOK
    <2>8. Len(transmit') < MAX_ETH_PACKETS BY <1>t, <2>5, <2>6, <2>7
    <2>9. calls'.free /\ calls'.after = 0
      BY <1>5, <1>t, <2>1 DEF IpOutput, OutputDone, Answering, Calls
    <2> QED BY <1>5, <2>8, <2>9 DEF IpOutput, Answering, ethVars, rtos
  <1>6. CASE IpOutputDropped
    <2>1. calls.before > 0 /\ calls.free
      BY <1>6, <1>t DEF IpOutputDropped, OutputDue, Answering, Calls
    <2>2. calls'.free /\ calls'.after = 0
      BY <1>6, <1>t, <2>1 DEF IpOutputDropped, OutputDone, Answering, Calls
    <2> QED BY <1>6, <2>2 DEF IpOutputDropped, Answering, queues, ethVars, rtos
  <1>7. CASE IpFree
    <2>1. calls'.before = 0 /\ calls'.after = 0
      BY <1>7, <1>t DEF IpFree, Answering, Calls
    <2> QED BY <1>7, <2>1 DEF IpFree, IpAt, WakeOnFree, Answering, ethVars
  <1>8. CASE IpCheckTimeouts
    <2>1. PICK n \in 0..(MaxTimerOutputs - timerOutputs) :
              (n > 0 => USE_LWIP) /\ calls' = [calls EXCEPT !.after = n]
      BY <1>8, Zenon DEF IpCheckTimeouts
    <2>2. n = 0 BY <2>1, PipelineAssumption DEF TypeOK
    <2>3. calls'.after = 0 /\ calls'.before = 0
      BY <1>8, <1>t, <2>1, <2>2 DEF IpCheckTimeouts, Idle, Calls
    <2> QED BY <1>8, <2>3 DEF IpCheckTimeouts, IpAt, Answering, queues, ethVars, rtos
  <1>9. CASE IpInit \/ IpLoop \/ IpWaitReady \/ IdleYield
    BY <1>9, <1>p DEF IpInit, IpLoop, IpWaitReady, IdleYield, IpAt, Answering, Control,
       queues, ethVars, ipVars, rtos
  <1>10. CASE FrameArrives \/ FrameOverruns \/ TransmissionEnds
    BY <1>10 DEF FrameArrives, FrameOverruns, TransmissionEnds, Answering, queues,
       ethVars, ipVars, rtos
  <1>11. CASE Interrupt \/ NotifyTimeout
    BY <1>11 DEF Interrupt, NotifyTimeout, Answering, queues, ethVars, ipVars
  <1>12. CASE UNCHANGED vars
    BY <1>12 DEF vars, Answering, queues, ethVars, ipVars, rtos
  <1> QED
    BY <1>1, <1>2, <1>3, <1>4, <1>5, <1>6, <1>7, <1>8, <1>9, <1>10, <1>11, <1>12
    DEF Next, EthStep, IpStep

(* In a deadlock every buffer would be in the transmit queue.              *)
LEMMA AnsweringIsEnough ==
    TypeOK /\ Control /\ NoLeak /\ Returned /\ WaitsAreReal /\ Answering => NoMutualWait
  <1> SUFFICES ASSUME TypeOK, Control, NoLeak, Returned, WaitsAreReal, Answering,
                      ethWait = "free", ipWait = "ready"
               PROVE  FALSE
    BY DEF NoMutualWait
  <1>1. free = <<>> /\ ready = <<>> BY DEF WaitsAreReal
  <1>2. ethPc = "get_free" /\ ipPc = "receive" BY DEF Answering
  <1>3. ethBuf = NoBuffer /\ packet = NoBuffer /\ published = MAX_ETH_PACKETS
    BY <1>2, PipelineAssumption DEF Control, Returned, TypeOK
  <1>4. Len(free) = 0 /\ Len(ready) = 0 /\ Len(transmit) \in Nat
    BY <1>1 DEF TypeOK
  <1>5. Len(transmit) = MAX_ETH_PACKETS
    BY <1>3, <1>4, PipelineAssumption DEF NoLeak, Accounted, Held
  <1> QED BY <1>4, <1>5, PipelineAssumption DEF Answering

(* Without lwIP the two tasks never wait for each other, for any number of *)
(* buffers and any traffic.  (With lwIP they can: run pipeline_deadlock.)  *)
THEOREM NoDeadlockWithoutLwip == ASSUME ~USE_LWIP PROVE Spec => []NoMutualWait
  <1>1. NeverKept BY DEF NeverKept
  <1>2. Init => Answering /\ Returned /\ NoLeak
    BY PipelineAssumption DEF Init, Answering, Returned, NoLeak, Accounted, Held, NoBuffer
  <1>3. TypeOK /\ Control /\ Bounded /\ Answering /\ [Next]_vars => Answering'
    BY StepAnswering
  <1>4. TypeOK /\ Control /\ RxInOrder /\ Returned /\ NoLeak /\ [Next]_vars
        => (Returned /\ NoLeak)'
    BY <1>1, StepNoLeak
  <1> QED
    BY TypeCorrect, InitOwners, StepBounded, ReceiveOrder, AlwaysWaitsAreReal,
       <1>2, <1>3, <1>4, AnsweringIsEnough, PTL DEF Spec
=============================================================================
