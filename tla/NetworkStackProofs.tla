------------------------- MODULE NetworkStackProofs -------------------------
(***************************************************************************)
(* Proof that NetworkStack implements PacketPipeline.  The driver and the  *)
(* ring take steps of Enc28Rx only, so the invariant of Enc28RxProofs      *)
(* holds; Coupled says which step of the driver goes with which step of    *)
(* the ethernet task.  With both, every step of the stack is one of the    *)
(* pipeline or leaves everything that the pipeline sees alone.             *)
(***************************************************************************)
EXTENDS NetworkStack, SequenceTheorems, TLAPS

RP == INSTANCE Enc28RxProofs

-----------------------------------------------------------------------------
(* The frames the pipeline sees.                                           *)

(* The k numbers up to n.                                                  *)
UpTo(n, k) == [i \in 1..k |-> n - k + i]

(* Taking the first number away, and putting the next one at the end.      *)
LEMMA UpToFacts ==
    ASSUME NEW n \in Int, NEW k \in Nat
    PROVE  /\ UpTo(n, k) \in Seq(Int) /\ Len(UpTo(n, k)) = k
           /\ UpTo(n, k) = <<>> <=> k = 0
           /\ k > 0 => Head(UpTo(n, k)) = n - k + 1
           /\ k > 0 => Tail(UpTo(n, k)) = UpTo(n, k - 1)
           /\ Append(UpTo(n, k), n + 1) = UpTo(n + 1, k + 1)
  <1>1. UpTo(n, k) \in Seq(Int) /\ Len(UpTo(n, k)) = k BY DEF UpTo
  <1>2. UpTo(n, k) = <<>> <=> k = 0 BY <1>1 DEF UpTo
  <1>3. k > 0 => Head(UpTo(n, k)) = n - k + 1 BY <1>1 DEF UpTo
  <1>4. k > 0 => Tail(UpTo(n, k)) = UpTo(n, k - 1) BY <1>1 DEF UpTo
  <1>5. Append(UpTo(n, k), n + 1) = UpTo(n + 1, k + 1)
    <2> DEFINE s == Append(UpTo(n, k), n + 1)
               t == UpTo(n + 1, k + 1)
    <2>1. s \in Seq(Int) /\ Len(s) = k + 1 BY <1>1
    <2>2. t \in Seq(Int) /\ Len(t) = k + 1 BY DEF UpTo
    <2>3. \A i \in 1..(k + 1) : t[i] = n - k + i BY DEF UpTo
    <2>4. \A i \in 1..k : s[i] = n - k + i
      <3>1. \A i \in 1..k : s[i] = UpTo(n, k)[i] BY <1>1
      <3> QED BY <3>1 DEF UpTo
    <2>5. s[k + 1] = n + 1 BY <1>1
    <2> HIDE DEF s, t
    <2>6. \A i \in 1..(k + 1) : s[i] = t[i] BY <2>3, <2>4, <2>5
    <2>7. s = t BY <2>1, <2>2, <2>6, SeqEqual
    <2> QED BY <2>7 DEF s, t
  <1> QED BY <1>1, <1>2, <1>3, <1>4, <1>5

-----------------------------------------------------------------------------
(* The driver and the ring inside the stack.                               *)

(* The constants of the stack are constants for the ring.                  *)
LEMMA RingAssumption == RP!RxAssumption
  <1>1. RP!MaxAddress = 8191 BY DEF RP!MaxAddress
  <1>2. MaxFrames \in Nat BY StackAssumption
  <1>3. /\ RX_END <= RP!MaxAddress /\ GarbageNext \subseteq 0..RP!MaxAddress
        /\ GarbageLens \subseteq Nat
    BY <1>1, StackAssumption, SMTT(60)
  <1>4. /\ RX_START \in Nat /\ RX_END \in Nat /\ RX_START < RX_END
        /\ RX_START % 2 = 0 /\ RX_END % 2 = 1 /\ BufSize \in Nat
        /\ FrameLens \subseteq 1..BufSize /\ MaxAfterBad \in Nat
    BY StackAssumption
  <1> QED BY <1>2, <1>3, <1>4 DEF RP!RxAssumption

(* The names of the two instances of Enc28Rx mean the same.                *)
LEMMA SameRing ==
    /\ R!Init <=> RP!Init
    /\ R!Decrement <=> RP!Decrement
    /\ R!ReadPacket <=> RP!ReadPacket
    /\ \A len, ok : R!FrameStored(len, ok) <=> RP!FrameStored(len, ok)
    /\ \A len : R!FrameRefused(len) <=> RP!FrameRefused(len)
  <1> USE DEF R!chipVars, RP!chipVars, R!InStep, RP!InStep, R!Footprint,
              RP!Footprint, R!FreeSpace, RP!FreeSpace, R!Wrap, RP!Wrap, R!Region,
              RP!Region, R!Addresses, RP!Addresses, R!RingSize, RP!RingSize,
              R!HeaderLen, RP!HeaderLen
  <1>1. R!Init <=> RP!Init BY DEF R!Init, RP!Init, R!NoHeader, RP!NoHeader
  <1>2. R!Decrement <=> RP!Decrement BY DEF R!Decrement, RP!Decrement
  <1>3. R!ReadEir <=> RP!ReadEir BY DEF R!ReadEir, RP!ReadEir, R!Pktif, RP!Pktif
  <1>4. R!ReadPtrOutOfRange <=> RP!ReadPtrOutOfRange
    BY DEF R!ReadPtrOutOfRange, RP!ReadPtrOutOfRange
  <1>5. R!ReadHeader <=> RP!ReadHeader
    BY DEF R!ReadHeader, RP!ReadHeader, R!HeadersAt, RP!HeadersAt
  <1>6. R!ReadData <=> RP!ReadData BY DEF R!ReadData, RP!ReadData
  <1>7. R!Skip <=> RP!Skip BY DEF R!Skip, RP!Skip
  <1>8. R!Release <=> RP!Release
    BY DEF R!Release, RP!Release, R!OneBefore, RP!OneBefore
  <1>9. R!Recover <=> RP!Recover
    BY DEF R!Recover, RP!Recover, R!Exposed, RP!Exposed, R!Oldest, RP!Oldest
  <1>10. R!ClearRxerif <=> RP!ClearRxerif BY DEF R!ClearRxerif, RP!ClearRxerif
  <1>11. ASSUME NEW len, NEW ok PROVE R!FrameStored(len, ok) <=> RP!FrameStored(len, ok)
    BY DEF R!FrameStored, RP!FrameStored
  <1>12. ASSUME NEW len PROVE R!FrameRefused(len) <=> RP!FrameRefused(len)
    BY DEF R!FrameRefused, RP!FrameRefused
  <1>13. R!ReadPacket <=> RP!ReadPacket
    BY <1>2, <1>3, <1>4, <1>5, <1>6, <1>7, <1>8, <1>9, <1>10, Zenon
    DEF R!ReadPacket, RP!ReadPacket
  <1> QED BY <1>1, <1>2, <1>11, <1>12, <1>13, Zenon

(* The steps of the stack, apart from the ones it shares with the          *)
(* pipeline.                                                               *)
SharedEth ==
    \/ P!EthInit \/ P!EthGetFree \/ P!EthWaitFree \/ P!EthPutReady
    \/ P!EthTakeTransmit \/ P!EthNothingToSend \/ P!EthWrite
    \/ P!EthWriteAssert \/ P!EthTakeNotification
    \/ P!EthWaitNotification \/ P!EthTaken
SharedRest ==
    P!IpStep \/ P!IdleYield \/ P!Interrupt \/ P!NotifyTimeout \/ P!TransmissionEnds

(* Every step is one of these.                                             *)
LEMMA StackCases ==
    ASSUME [Next]_vars
    PROVE  \/ DriverStep \/ DriverReturnsPacket \/ FrameStored \/ FrameRefused
           \/ UNCHANGED ringVars /\ (SharedEth \/ SharedRest)
           \/ UNCHANGED vars
  BY Zenon DEF Next, EthStep, SharedEth, SharedRest, IpStep, IdleYield, Interrupt,
               NotifyTimeout, TransmissionEnds

(* The ring sees steps of Enc28Rx.                                         *)
LEMMA RingStep == [Next]_vars => [RP!Next]_(RP!vars)
  <1> SUFFICES ASSUME [Next]_vars PROVE [RP!Next]_(RP!vars) OBVIOUS
  <1>1. CASE DriverStep
    <2>1. RP!ReadPacket BY <1>1, SameRing, Zenon DEF DriverStep
    <2> QED BY <2>1, Zenon DEF RP!Next
  <1>2. CASE DriverReturnsPacket
    <2>1. RP!Decrement BY <1>2, SameRing, Zenon DEF DriverReturnsPacket
    <2> QED BY <2>1, Zenon DEF RP!Next, RP!ReadPacket
  <1>3. CASE FrameStored
    <2>1. \E len \in FrameLens, ok \in BOOLEAN : RP!FrameStored(len, ok)
      BY <1>3, SameRing, Zenon DEF FrameStored
    <2> QED BY <2>1, Zenon DEF RP!Next
  <1>4. CASE FrameRefused
    <2>1. \E len \in FrameLens : RP!FrameRefused(len)
      BY <1>4, SameRing, Zenon DEF FrameRefused
    <2> QED BY <2>1, Zenon DEF RP!Next
  <1>5. ASSUME UNCHANGED ringVars PROVE UNCHANGED RP!vars
    BY <1>5 DEF ringVars, RP!vars
  <1>6. CASE UNCHANGED vars
    <2>1. UNCHANGED ringVars BY <1>6 DEF vars
    <2> QED BY <1>5, <2>1
  <1> QED BY <1>1, <1>2, <1>3, <1>4, <1>5, <1>6, StackCases

(* So the invariant of Enc28RxProofs holds.                                *)
LEMMA RingInvariant == Spec => []RP!RxInv
  <1>1. RP!RxAssumption BY RingAssumption
  <1>2. Init => RP!RxInv
    <2>1. RP!Init => RP!RxInv BY <1>1, RP!InitInv
    <2> QED BY <2>1, SameRing, Zenon DEF Init
  <1>3. RP!RxInv /\ [RP!Next]_(RP!vars) => RP!RxInv' BY <1>1, RP!StepInv
  <1>4. RP!RxInv /\ [Next]_vars => RP!RxInv' BY <1>3, RingStep
  <1> QED BY <1>2, <1>4, PTL DEF Spec

-----------------------------------------------------------------------------
(* The ethernet task and the driver.                                       *)

Coupled ==
    /\ rxLog \in Seq(FrameKinds) /\ Len(rxLog) = Len(frames)
    /\ pc = "recover" <=> ethPc = "recover"
    /\ pc = "clear" <=> ethPc = "clear"
    /\ pc \notin {"idle", "recover", "clear"} => ethPc = "read"

(* What the invariant of the ring says to the pipeline.                    *)
LEMMA RingFactsHere ==
    ASSUME RP!RxInv
    PROVE  /\ Len(frames) \in Nat /\ epktcnt \in 0..Len(frames)
           /\ RP!RxType /\ RP!Chain /\ (astray = "no" => RP!Good)
           /\ Unread = UpTo(Len(frames), epktcnt)
           /\ Unread = <<>> <=> epktcnt = 0
  <1>1. RP!RxType /\ RP!Chain /\ (astray = "no" => RP!Good)
    BY DEF RP!RxInv, RP!InStep
  <1>2. Len(frames) \in Nat /\ epktcnt \in 0..Len(frames)
    BY <1>1 DEF RP!RxType
  <1>3. Unread = UpTo(Len(frames), epktcnt) BY DEF Unread, UpTo
  <1>4. Len(frames) \in Int /\ epktcnt \in Nat BY <1>2
  <1>5. Unread = <<>> <=> epktcnt = 0 BY <1>3, <1>4, UpToFacts, Zenon
  <1> QED BY <1>1, <1>2, <1>3, <1>5

(* The coupling holds before the first step.                               *)
LEMMA InitCoupled == Init => Coupled
  <1> SUFFICES ASSUME Init PROVE Coupled OBVIOUS
  <1>1. frames = <<>> /\ pc = "idle" BY DEF Init, R!Init
  <1>2. rxLog = <<>> /\ ethPc = "init" BY DEF Init, P!Init
  <1> QED BY <1>1, <1>2 DEF Coupled

(* What a stored frame is for the stack.                                   *)
LEMMA StoredHere ==
    ASSUME RP!RxInv, FrameStored
    PROVE  /\ Len(frames') = Len(frames) + 1 /\ Len(frames) < MaxFrames
           /\ epktcnt' = epktcnt + 1
           /\ UNCHANGED <<pc, rxerif, got, astray>>
  <1>1. PICK len \in FrameLens, ok \in BOOLEAN : RP!FrameStored(len, ok)
    BY SameRing, Zenon DEF FrameStored
  <1>2. RP!RxType BY DEF RP!RxInv
  <1>3. Len(frames') = Len(frames) + 1 /\ epktcnt' = epktcnt + 1
    BY <1>1, <1>2, RingAssumption, RP!StoredFacts
  <1>4. Len(frames) < MaxFrames /\ UNCHANGED <<pc, rxerif, got, astray>>
    BY <1>1 DEF RP!FrameStored
  <1> QED BY <1>3, <1>4

(* Every step of the stack keeps it.                                       *)
LEMMA StepCoupled == RP!RxInv /\ Coupled /\ [Next]_vars => Coupled'
  <1> SUFFICES ASSUME RP!RxInv, Coupled, [Next]_vars PROVE Coupled' OBVIOUS
  <1>0. Len(frames) \in Nat BY DEF RP!RxInv, RP!RxType
  <1>1. ASSUME UNCHANGED <<rxLog, frames, pc, ethPc>> PROVE Coupled'
    BY <1>1 DEF Coupled
  <1>2. CASE DriverStep
    <2>1. ethPc' = AfterRead(pc') /\ rxLog' = rxLog
      BY <1>2 DEF DriverStep, history
    <2>2. frames' = frames
      <3>1. R!ReadPacket BY <1>2 DEF DriverStep
      <3> QED BY <3>1 DEF R!ReadPacket, R!ReadEir, R!ReadPtrOutOfRange, R!ReadHeader,
                          R!ReadData, R!Skip, R!Release, R!Decrement, R!Recover,
                          R!ClearRxerif, R!chipVars
    <2> QED BY <2>1, <2>2 DEF Coupled, AfterRead
  <1>3. CASE DriverReturnsPacket
    <2>1. pc' = "idle" /\ ethPc' = "get_free" /\ rxLog' = rxLog /\ frames' = frames
      BY <1>3 DEF DriverReturnsPacket, R!Decrement, history
    <2> QED BY <2>1 DEF Coupled
  <1>4. CASE FrameStored
    <2>1. /\ Len(frames') = Len(frames) + 1 /\ pc' = pc
      BY <1>4, StoredHere
    <2>2. ethPc' = ethPc /\ \E kind \in FrameKinds : rxLog' = Append(rxLog, kind)
      BY <1>4 DEF FrameStored, ethVars
    <2>3. rxLog' \in Seq(FrameKinds) /\ Len(rxLog') = Len(rxLog) + 1
      BY <2>2 DEF Coupled
    <2> QED BY <2>1, <2>2, <2>3 DEF Coupled
  <1>5. CASE FrameRefused
    <2>1. UNCHANGED <<rxLog, ethPc>> BY <1>5 DEF FrameRefused, history, ethVars
    <2>2. UNCHANGED <<frames, pc>> BY <1>5 DEF FrameRefused, R!FrameRefused, R!chipVars
    <2> QED BY <1>1, <2>1, <2>2
  <1>6. CASE UNCHANGED ringVars /\ SharedEth
    <2>1. UNCHANGED <<frames, pc>> BY <1>6 DEF ringVars
    <2>2. /\ rxLog' = rxLog /\ ethPc \notin {"read", "recover", "clear"}
          /\ ethPc' \notin {"recover", "clear"}
      BY <1>6 DEF SharedEth, P!EthInit, P!EthGetFree, P!EthWaitFree, P!EthPutReady,
                  P!EthTakeTransmit, P!EthNothingToSend, P!EthWrite, P!EthWriteAssert,
                  P!EthTakeNotification, P!EthWaitNotification, P!EthTaken, P!EthAt,
                  P!history, P!ethVars
    <2> QED BY <2>1, <2>2 DEF Coupled
  <1>7. CASE UNCHANGED ringVars /\ SharedRest
    <2>1. UNCHANGED <<frames, pc>> BY <1>7 DEF ringVars
    <2>2. UNCHANGED <<rxLog, ethPc>>
      BY <1>7 DEF SharedRest, P!IpStep, P!IpInit, P!IpReceive, P!IpWaitReady,
                  P!IpOutput, P!IpOutputDropped, P!IpFree, P!IpCheckTimeouts, P!IpLoop,
                  P!IdleYield, P!Interrupt, P!NotifyTimeout, P!TransmissionEnds,
                  P!history, P!ethVars
    <2> QED BY <1>1, <2>1, <2>2
  <1>8. CASE UNCHANGED vars BY <1>1, <1>8 DEF vars, ringVars, history, ethVars
  <1> QED BY <1>2, <1>3, <1>4, <1>5, <1>6, <1>7, <1>8, StackCases

-----------------------------------------------------------------------------
(* The simulation.                                                         *)

(* A step of enc28_read_packet before it returns ENC28_OK: the pipeline    *)
(* sees the call end without a packet or with an error, a part of the      *)
(* recovery, or nothing at all.                                            *)
LEMMA DriverSimulates ==
    ASSUME RP!RxInv, Coupled, DriverStep
    PROVE  \/ P!EthReadError \/ P!EthReadNothing \/ P!EthRecover \/ P!EthClearRxerif
           \/ UNCHANGED P!vars
  <1>0. /\ Len(frames) \in Nat /\ epktcnt \in 0..Len(frames)
        /\ RP!RxType /\ RP!Chain /\ (astray = "no" => RP!Good)
        /\ Unread = <<>> <=> epktcnt = 0
    BY RingFactsHere
  <1>1. /\ running = "eth" /\ pc # "decrement"
        /\ ethPc' = AfterRead(pc') /\ R!ReadPacket
        /\ UNCHANGED <<queues, content, pktBuf, ethBuf, published, ipVars, rtos, txChip,
                       history>>
    BY DEF DriverStep, InRead
  <1>c. ASSUME pc = "idle" PROVE ethPc = "read"
    BY <1>c DEF DriverStep, InRead, Coupled
  <1>2. ASSUME UNCHANGED <<frames, epktcnt, rxerif, ethPc, got, astray>>
        PROVE  UNCHANGED P!vars
    <2>1. UNCHANGED Unread BY <1>2 DEF Unread
    <2> QED BY <1>1, <1>2, <2>1
            DEF P!vars, P!queues, P!ethVars, P!ipVars, P!rtos, P!chip, P!stepVars,
                P!history, queues, ipVars, rtos, txChip, history
  <1>3. CASE R!ReadEir
    <2>1. /\ pc = "idle" /\ UNCHANGED <<frames, epktcnt, rxerif, got, astray>>
          /\ \/ pc' = "header"
             \/ pc' = IF rxerif THEN "recover" ELSE "idle"
      BY <1>3 DEF R!ReadEir, R!chipVars
    <2>2. ethPc = "read" BY <1>c, <2>1
    <2>3. CASE pc' = "header"
      <3>1. ethPc' = "read" BY <1>1, <2>3 DEF AfterRead
      <3> QED BY <1>2, <2>1, <2>2, <3>1
    <2>4. CASE pc' = IF rxerif THEN "recover" ELSE "idle"
      <3>1. ethPc' = IF rxerif THEN "recover" ELSE "transmit"
        BY <1>1, <2>4 DEF AfterRead
      <3>2. UNCHANGED Unread BY <2>1 DEF Unread
      <3>3. P!EthReadNothing
        BY <1>1, <2>1, <2>2, <3>1, <3>2
        DEF P!EthReadNothing, P!EthAt, P!queues, P!ipVars, P!rtos, P!chip, P!stepVars,
            P!history, queues, ipVars, rtos, txChip, history
      <3> QED BY <3>3
    <2> QED BY <2>1, <2>3, <2>4
  <1>4. CASE R!ReadPtrOutOfRange \/ R!ReadHeader
    <2>1. /\ pc = "header" /\ pc' \in {"data", "idle"}
          /\ UNCHANGED <<frames, epktcnt, rxerif, got>>
      BY <1>4 DEF R!ReadPtrOutOfRange, R!ReadHeader, R!chipVars
    <2>2. ethPc = "read" /\ epktcnt > 0 BY <1>0, <2>1 DEF Coupled, RP!RxType
    <2>3. CASE pc' = "data"
      <3>1. ethPc' = "read" BY <1>1, <2>3 DEF AfterRead
      <3>2. astray' = astray BY <1>4, <2>3 DEF R!ReadPtrOutOfRange, R!ReadHeader
      <3> QED BY <1>2, <2>1, <2>2, <3>1, <3>2
    <2>4. CASE pc' = "idle"
      <3>1. astray' # "no"
        <4>1. CASE R!ReadHeader
          BY <2>4, <4>1 DEF R!ReadHeader, R!InStep
        <4>2. CASE R!ReadPtrOutOfRange
          <5>1. erdpt \notin RP!Addresses /\ astray' = astray
            BY <4>2 DEF R!ReadPtrOutOfRange, R!Addresses, RP!Addresses
          <5>2. astray = "no" => erdpt \in RP!Addresses
            BY <1>0, <2>1, <2>2, RingAssumption, RP!OldestHeader
          <5> QED BY <5>1, <5>2
        <4> QED BY <1>4, <4>1, <4>2
      <3>2. ethPc' = "transmit" BY <1>1, <2>4 DEF AfterRead
      <3>3. UNCHANGED Unread BY <2>1 DEF Unread
      <3>4. Unread # <<>> BY <1>0, <2>2
      <3>5. (astray = "no")' = FALSE BY <3>1
      <3>6. P!EthReadError
        BY <1>1, <2>1, <2>2, <3>2, <3>3, <3>4, <3>5
        DEF P!EthReadError, P!EthAt, P!queues, P!ipVars, P!rtos, P!chip, P!history,
            queues, ipVars, rtos, txChip, history
      <3> QED BY <3>6
    <2> QED BY <2>1, <2>3, <2>4
  <1>5. CASE R!ReadData \/ R!Skip \/ R!Release
    <2>1. /\ pc \in {"data", "skip", "release"} /\ pc' \in {"skip", "release", "decrement"}
          /\ UNCHANGED <<frames, epktcnt, rxerif, got, astray>>
      BY <1>5 DEF R!ReadData, R!Skip, R!Release, R!chipVars
    <2>2. ethPc = "read" /\ ethPc' = "read" BY <1>1, <2>1 DEF Coupled, AfterRead
    <2> QED BY <1>2, <2>1, <2>2
  <1>6. CASE R!Recover
    <2>1. /\ pc = "recover" /\ pc' = "clear" /\ UNCHANGED <<frames, epktcnt, rxerif, got>>
          /\ astray' = IF R!InStep /\ R!Exposed THEN "exposed" ELSE astray
      BY <1>6 DEF R!Recover, R!chipVars
    <2>2. ethPc = "recover" /\ ethPc' = "clear" BY <1>1, <2>1 DEF Coupled, AfterRead
    <2>3. UNCHANGED Unread BY <2>1 DEF Unread
    <2>4. (astray = "no")' \in {astray = "no", astray = "no" /\ Unread = <<>>}
      <3>1. CASE R!InStep /\ R!Exposed
        <4>1. Unread # <<>> BY <1>0, <3>1 DEF R!Exposed
        <4>2. ~(astray' = "no") BY <2>1, <3>1
        <4> QED BY <4>1, <4>2
      <3>2. CASE ~(R!InStep /\ R!Exposed)
        <4>1. astray' = astray BY <2>1, <3>2
        <4> QED BY <4>1
      <3> QED BY <3>1, <3>2
    <2>5. P!EthRecover
      BY <1>1, <2>1, <2>2, <2>3, <2>4
      DEF P!EthRecover, P!EthAt, P!queues, P!ipVars, P!rtos, P!chip, P!history,
          queues, ipVars, rtos, txChip, history
    <2> QED BY <2>5
  <1>7. CASE R!ClearRxerif
    <2>1. /\ pc = "clear" /\ pc' = "idle" /\ rxerif' = FALSE
          /\ UNCHANGED <<frames, epktcnt, got, astray>>
      BY <1>7 DEF R!ClearRxerif, R!chipVars
    <2>2. ethPc = "clear" /\ ethPc' = "transmit" BY <1>1, <2>1 DEF Coupled, AfterRead
    <2>3. UNCHANGED Unread BY <2>1 DEF Unread
    <2>4. P!EthClearRxerif
      BY <1>1, <2>1, <2>2, <2>3
      DEF P!EthClearRxerif, P!EthAt, P!queues, P!ipVars, P!rtos, P!stepVars, P!history,
          queues, ipVars, rtos, txChip, history
    <2> QED BY <2>4
  <1>8. ~R!Decrement BY <1>1 DEF R!Decrement
  <1> QED BY <1>1, <1>3, <1>4, <1>5, <1>6, <1>7, <1>8 DEF R!ReadPacket

(* When it returns ENC28_OK the pipeline reads the packet it expects, or,  *)
(* out of step, one of which it expects nothing.                           *)
LEMMA ReturnSimulates ==
    ASSUME RP!RxInv, Coupled, DriverReturnsPacket
    PROVE  P!EthReadPacket \/ P!EthReadGarbage
  <1>0. /\ Len(frames) \in Nat /\ epktcnt \in 0..Len(frames)
        /\ RP!RxType /\ (astray = "no" => RP!Good)
        /\ Unread = UpTo(Len(frames), epktcnt)
    BY RingFactsHere
  <1>1. /\ running = "eth" /\ ethPc' = "get_free"
        /\ pktBuf' = IF astray = "no" THEN dataId ELSE 0
        /\ UNCHANGED <<queues, content, ethBuf, published, ipVars, rtos, txChip, history>>
    BY DEF DriverReturnsPacket, InRead, R!InStep
  <1>2. /\ pc = "decrement" /\ got' = IF astray = "no" THEN dataId ELSE got
        /\ epktcnt' = IF epktcnt > 0 THEN epktcnt - 1 ELSE 0
        /\ UNCHANGED <<frames, rxerif, astray>>
    BY DEF DriverReturnsPacket, R!Decrement, R!InStep
  <1>3. ethPc = "read" /\ epktcnt > 0 BY <1>0, <1>2 DEF Coupled, RP!RxType
  <1>4. Unread' = UpTo(Len(frames), epktcnt - 1)
    BY <1>0, <1>2, <1>3 DEF Unread, UpTo
  <1>5. /\ Unread # <<>> /\ Head(Unread) = Len(frames) - epktcnt + 1
        /\ Unread' = Tail(Unread)
    <2>1. Len(frames) \in Int /\ epktcnt \in Nat /\ epktcnt # 0 BY <1>0, <1>3
    <2> QED BY <1>0, <1>3, <1>4, <2>1, UpToFacts, Zenon
  <1>6. CASE astray = "no"
    <2>1. dataId = Len(frames) - epktcnt + 1
      BY <1>0, <1>2, <1>6 DEF RP!Good, RP!InCall, RP!Oldest
    <2>2. pktBuf' = Head(Unread) /\ got' = Head(Unread) BY <1>1, <1>2, <1>5, <1>6, <2>1
    <2>3. (astray = "no")' = (astray = "no") BY <1>2
    <2>4. P!EthReadPacket
      BY <1>1, <1>2, <1>3, <1>5, <1>6, <2>2, <2>3
      DEF P!EthReadPacket, P!EthAt, P!queues, P!ipVars, P!rtos, P!history,
          queues, ipVars, rtos, txChip, history
    <2> QED BY <2>4
  <1>7. CASE astray # "no"
    <2>1. pktBuf' = 0 /\ got' = got BY <1>1, <1>2, <1>7
    <2>2. P!EthReadGarbage
      BY <1>1, <1>2, <1>3, <1>5, <1>7, <2>1
      DEF P!EthReadGarbage, P!EthAt, P!queues, P!ipVars, P!rtos, P!stepVars, P!history,
          queues, ipVars, rtos, txChip, history
    <2> QED BY <2>2
  <1> QED BY <1>6, <1>7

(* A frame that arrives is one that arrives for the pipeline.              *)
LEMMA StoredSimulates ==
    ASSUME RP!RxInv, Coupled, FrameStored
    PROVE  P!FrameArrives
  <1>0. /\ Len(frames) \in Nat /\ epktcnt \in 0..Len(frames)
        /\ Unread = UpTo(Len(frames), epktcnt)
    BY RingFactsHere
  <1>1. /\ Len(frames') = Len(frames) + 1 /\ Len(frames) < MaxFrames
        /\ epktcnt' = epktcnt + 1 /\ UNCHANGED <<rxerif, got, astray>>
    BY StoredHere
  <1>2. /\ \E kind \in FrameKinds : rxLog' = Append(rxLog, kind)
        /\ UNCHANGED <<queues, content, ethVars, ipVars, running, ethWait,
                       ipWait, notified, txChip, delivered, outputs, lastSent>>
    BY DEF FrameStored
  <1>i. irq' \in {irq, irq \/ P!IntMissesFrames} BY Zenon DEF FrameStored
  <1>3. Unread' = UpTo(Len(frames) + 1, epktcnt + 1) BY <1>1 DEF Unread, UpTo
  <1>4. Unread' = Append(Unread, Len(frames) + 1) /\ Len(Unread) = epktcnt
    <2>1. Len(frames) \in Int /\ epktcnt \in Nat BY <1>0
    <2> QED BY <1>0, <1>3, <2>1, UpToFacts, Zenon
  <1>5. Len(rxLog) = Len(frames) BY DEF Coupled
  <1>6. Len(rxLog) < MaxFrames /\ Len(Unread) < MaxFrames
    <2>1. MaxFrames \in Nat BY StackAssumption
    <2> QED BY <1>0, <1>1, <1>4, <1>5, <2>1
  <1>7. Unread' = Append(Unread, Len(rxLog) + 1) BY <1>4, <1>5
  <1>8. /\ UNCHANGED P!stepVars /\ UNCHANGED rxerif
        /\ UNCHANGED <<P!queues, content, P!ethVars, P!ipVars, running, ethWait,
                       ipWait, notified, txBusy, txErr, delivered, outputs, lastSent>>
    BY <1>1, <1>2 DEF P!stepVars, P!queues, P!ethVars, P!ipVars, queues, ethVars, ipVars,
                      txChip
  <1> QED BY <1>2, <1>6, <1>7, <1>8, <1>i, Zenon DEF P!FrameArrives

(* A frame that is refused is an overrun for the pipeline.                 *)
LEMMA RefusedSimulates == FrameRefused => P!FrameOverruns
  <1> SUFFICES ASSUME FrameRefused PROVE P!FrameOverruns OBVIOUS
  <1>1. UNCHANGED <<queues, content, ethVars, ipVars, running, ethWait,
                    ipWait, notified, txChip, history>>
    BY DEF FrameRefused
  <1>i. irq' \in {irq \/ P!IntHigh, irq \/ P!IntMissesFrames} BY Zenon DEF FrameRefused
  <1>2. ~rxerif /\ rxerif' = TRUE /\ UNCHANGED <<frames, epktcnt, got, astray>>
    BY DEF FrameRefused, R!FrameRefused, R!chipVars
  <1>3. UNCHANGED Unread BY <1>2 DEF Unread
  <1>4. /\ UNCHANGED P!stepVars
        /\ UNCHANGED <<P!queues, content, P!ethVars, P!ipVars, running, ethWait,
                       ipWait, notified, txBusy, txErr, P!history>>
    BY <1>1, <1>2 DEF P!stepVars, P!queues, P!ethVars, P!ipVars, P!history,
                      queues, ethVars, ipVars, txChip, history
  <1> QED BY <1>2, <1>3, <1>4, <1>i, Zenon DEF P!FrameOverruns

(* The stack implements the pipeline: with enc28_read_packet as the SPI    *)
(* commands it is made of, frames (with or without an error), interrupts   *)
(* and ticks between any two of them and a PKTIF that may miss frames, the *)
(* tasks behave as PacketPipeline says.                                    *)
THEOREM StackRefinement == Spec => ImplementsPipeline
  <1>1. Init => P!Init
    BY Zenon DEF Init
  <1>2. RP!RxInv /\ Coupled /\ [Next]_vars => [P!Next]_(P!vars)
    <2> SUFFICES ASSUME RP!RxInv, Coupled, [Next]_vars PROVE [P!Next]_(P!vars) OBVIOUS
    <2>1. CASE DriverStep BY <2>1, DriverSimulates, Zenon DEF P!Next, P!EthStep
    <2>2. CASE DriverReturnsPacket
      BY <2>2, ReturnSimulates, Zenon DEF P!Next, P!EthStep
    <2>3. CASE FrameStored BY <2>3, StoredSimulates, Zenon DEF P!Next
    <2>4. CASE FrameRefused BY <2>4, RefusedSimulates, Zenon DEF P!Next
    <2>5. CASE UNCHANGED ringVars /\ (SharedEth \/ SharedRest)
      BY <2>5, Zenon DEF SharedEth, SharedRest, P!Next, P!EthStep
    <2>6. CASE UNCHANGED vars
      <3>1. UNCHANGED Unread BY <2>6 DEF vars, ringVars, Unread
      <3> QED BY <2>6, <3>1
              DEF vars, queues, ethVars, ipVars, rtos, txChip, history, ringVars, P!vars,
                  P!queues, P!ethVars, P!ipVars, P!rtos, P!chip, P!stepVars, P!history
    <2> QED BY <2>1, <2>2, <2>3, <2>4, <2>5, <2>6, StackCases
  <1>3. Spec => []Coupled BY InitCoupled, StepCoupled, RingInvariant, PTL DEF Spec
  <1> QED BY <1>1, <1>2, <1>3, RingInvariant, PTL DEF Spec, ImplementsPipeline, P!Spec

-----------------------------------------------------------------------------
(* What the refinement is for.                                             *)

PP == INSTANCE PacketPipelineProofs WITH
          pending <- Unread, rxErr <- rxerif, ChipCapacity <- MaxFrames,
          inStep <- (astray = "no"), lastRead <- got

(* The names of the two instances of PacketPipeline mean the same.         *)
LEMMA SamePipeline ==
    (P!Init <=> PP!Init) /\ (P!Next <=> PP!Next) /\ P!vars = PP!vars
  <1> USE DEF P!queues, PP!queues, P!ethVars, PP!ethVars, P!ipVars,
              PP!ipVars, P!rtos, PP!rtos, P!chip, PP!chip, P!stepVars, PP!stepVars,
              P!history, PP!history, P!Send, PP!Send, P!NoBuffer, PP!NoBuffer, P!EthAt,
              PP!EthAt, P!IpAt, PP!IpAt, P!Blank, PP!Blank, P!Rx, PP!Rx,
              P!Tx, PP!Tx, P!NextTask, PP!NextTask, P!Buffers, PP!Buffers
  <1>1. P!EthInit <=> PP!EthInit
    BY DEF P!EthInit, PP!EthInit
  <1>2. P!EthReadPacket <=> PP!EthReadPacket
    BY DEF P!EthReadPacket, PP!EthReadPacket
  <1>g. P!EthReadGarbage <=> PP!EthReadGarbage
    BY DEF P!EthReadGarbage, PP!EthReadGarbage
  <1>e. P!EthReadError <=> PP!EthReadError
    BY DEF P!EthReadError, PP!EthReadError
  <1>c. P!EthClearRxerif <=> PP!EthClearRxerif
    BY DEF P!EthClearRxerif, PP!EthClearRxerif
  <1>3. P!EthReadNothing <=> PP!EthReadNothing
    BY DEF P!EthReadNothing, PP!EthReadNothing
  <1>4. P!EthRecover <=> PP!EthRecover
    BY DEF P!EthRecover, PP!EthRecover
  <1>5. P!EthGetFree <=> PP!EthGetFree
    BY DEF P!EthGetFree, PP!EthGetFree
  <1>6. P!EthWaitFree <=> PP!EthWaitFree
    BY DEF P!EthWaitFree, PP!EthWaitFree
  <1>7. P!EthPutReady <=> PP!EthPutReady
    BY DEF P!EthPutReady, PP!EthPutReady
  <1>8. P!EthTakeTransmit <=> PP!EthTakeTransmit
    BY DEF P!EthTakeTransmit, PP!EthTakeTransmit
  <1>9. P!EthNothingToSend <=> PP!EthNothingToSend
    BY DEF P!EthNothingToSend, PP!EthNothingToSend
  <1>10. P!EthWrite <=> PP!EthWrite
    BY DEF P!EthWrite, PP!EthWrite
  <1>11. P!EthWriteAssert <=> PP!EthWriteAssert
    BY DEF P!EthWriteAssert, PP!EthWriteAssert, P!Halt, PP!Halt
  <1>12. P!EthTakeNotification <=> PP!EthTakeNotification
    BY DEF P!EthTakeNotification, PP!EthTakeNotification
  <1>13. P!EthWaitNotification <=> PP!EthWaitNotification
    BY DEF P!EthWaitNotification, PP!EthWaitNotification
  <1>14. P!EthTaken <=> PP!EthTaken
    BY DEF P!EthTaken, PP!EthTaken
  <1>15. P!EthStep <=> PP!EthStep
    BY <1>1, <1>2, <1>3, <1>4, <1>5, <1>6, <1>7, <1>8, <1>9, <1>10,
       <1>11, <1>12, <1>13, <1>14, <1>g, <1>e, <1>c, Zenon
    DEF P!EthStep, PP!EthStep
  <1>16. P!IpInit <=> PP!IpInit
    BY DEF P!IpInit, PP!IpInit
  <1>17. P!IpReceive <=> PP!IpReceive
    BY DEF P!IpReceive, PP!IpReceive, P!Process, PP!Process
  <1>18. P!IpWaitReady <=> PP!IpWaitReady
    BY DEF P!IpWaitReady, PP!IpWaitReady
  <1>19. P!IpOutput <=> PP!IpOutput
    BY DEF P!IpOutput, PP!IpOutput, P!OutputDue, PP!OutputDue, P!OutputDone,
        PP!OutputDone
  <1>20. P!IpOutputDropped <=> PP!IpOutputDropped
    BY DEF P!IpOutputDropped, PP!IpOutputDropped, P!OutputDue, PP!OutputDue,
        P!OutputDone, PP!OutputDone
  <1>21. P!IpFree <=> PP!IpFree
    BY DEF P!IpFree, PP!IpFree, P!GiveBack, PP!GiveBack, P!WakeOnFree,
        PP!WakeOnFree
  <1>22. P!IpCheckTimeouts <=> PP!IpCheckTimeouts
    BY DEF P!IpCheckTimeouts, PP!IpCheckTimeouts, P!Idle, PP!Idle
  <1>23. P!IpLoop <=> PP!IpLoop
    BY DEF P!IpLoop, PP!IpLoop, P!Idle, PP!Idle
  <1>24. P!IpStep <=> PP!IpStep
    BY <1>16, <1>17, <1>18, <1>19, <1>20, <1>21, <1>22, <1>23, Zenon
    DEF P!IpStep, PP!IpStep
  <1>25. P!IdleYield <=> PP!IdleYield
    BY DEF P!IdleYield, PP!IdleYield
  <1>26. P!FrameArrives <=> PP!FrameArrives
    BY DEF P!FrameArrives, PP!FrameArrives, P!IntHigh, PP!IntHigh,
           P!IntMissesFrames, PP!IntMissesFrames
  <1>27. P!FrameOverruns <=> PP!FrameOverruns
    BY DEF P!FrameOverruns, PP!FrameOverruns, P!IntHigh, PP!IntHigh,
           P!IntMissesFrames, PP!IntMissesFrames
  <1>28. P!TransmissionEnds <=> PP!TransmissionEnds
    BY DEF P!TransmissionEnds, PP!TransmissionEnds, P!IntHigh, PP!IntHigh,
           P!IntMissesFrames, PP!IntMissesFrames
  <1>29. P!Interrupt <=> PP!Interrupt
    BY DEF P!Interrupt, PP!Interrupt
  <1>30. P!NotifyTimeout <=> PP!NotifyTimeout
    BY DEF P!NotifyTimeout, PP!NotifyTimeout
  <1>31. P!Next <=> PP!Next
    BY <1>15, <1>24, <1>25, <1>26, <1>27, <1>28, <1>29, <1>30, Zenon
    DEF P!Next, PP!Next
  <1>32. P!Init <=> PP!Init BY DEF P!Init, PP!Init
  <1>33. P!vars = PP!vars BY DEF P!vars, PP!vars
  <1> QED BY <1>31, <1>32, <1>33, Zenon

(* So the stack is a pipeline of which those theorems speak.               *)
LEMMA StackIsPipeline == Spec => PP!Spec
  <1>1. Spec => P!Spec BY StackRefinement DEF ImplementsPipeline
  <1>2. P!Init => PP!Init BY SamePipeline
  <1>3. [P!Next]_(P!vars) => [PP!Next]_(PP!vars)
    <2>1. P!vars = PP!vars /\ (P!vars)' = (PP!vars)'
      <3>1. P!vars = PP!vars BY SamePipeline
      <3>2. (P!vars = PP!vars)' BY SamePipeline, PTL
      <3> QED BY <3>1, <3>2
    <2> QED BY <2>1, SamePipeline
  <1>4. P!Spec => PP!Spec BY <1>2, <1>3, PTL DEF P!Spec, PP!Spec
  <1> QED BY <1>1, <1>4

(* The invariants proved of the pipeline hold on the driver and the ring:  *)
(* with enc28_read_packet interrupted between its SPI commands, whether    *)
(* the driver is in step or not, no buffer has two owners and no send      *)
(* fails; frames go out in order and whole; and every frame read in step   *)
(* reaches the IP task in order and whole (RxInOrder, whose premise for    *)
(* the frames still in the ring is that the driver is in step).            *)
THEOREM StackInvariants ==
    Spec => [](PP!OneOwner /\ PP!SendsNeverFail /\ PP!RxInOrder /\ PP!TxInOrder)
  <1>0. PP!PipelineAssumption BY StackAssumption DEF PP!PipelineAssumption
  <1>1. Spec => PP!Spec BY StackIsPipeline
  <1>2. /\ PP!Spec => []PP!OneOwner
        /\ PP!Spec => []PP!SendsNeverFail
        /\ PP!Spec => []PP!RxInOrder
        /\ PP!Spec => []PP!TxInOrder
    BY <1>0, PP!UniqueOwner, PP!NoSendFails, PP!ReceiveOrder, PP!TransmitOrder
  <1> QED BY <1>1, <1>2, PTL

(* In the build without lwIP, no buffer is lost either, and the two tasks  *)
(* never wait for each other: not while the driver recovers from an        *)
(* overrun, not while frames arrive between two of its commands, not after *)
(* it has lost step.                                                       *)
THEOREM StackWithoutLwip ==
    ASSUME ~USE_LWIP
    PROVE  Spec => [](PP!NoLeak /\ PP!NoMutualWait)
  <1>0. PP!PipelineAssumption BY StackAssumption DEF PP!PipelineAssumption
  <1>1. Spec => PP!Spec BY StackIsPipeline
  <1>2. PP!NeverKept BY DEF PP!NeverKept
  <1>3. PP!Spec => []PP!NoLeak BY <1>0, <1>2, PP!BuffersAreReturned
  <1>4. PP!Spec => []PP!NoMutualWait BY <1>0, PP!NoDeadlockWithoutLwip
  <1> QED BY <1>1, <1>3, <1>4, PTL
=============================================================================
