---------------------------- MODULE Enc28RxProofs ---------------------------
(***************************************************************************)
(* Proofs about Enc28Rx, for every even-sized ring, all frame lengths that *)
(* fit the buffer and every number of frames.  The argument:               *)
(*   Chain    the frames lie one behind the other in the ring, up to the   *)
(*            write pointer;                                               *)
(*   Layout   seen from the byte behind ERXRDPT, the frames that are still *)
(*            protected lie in their order below the write pointer;        *)
(*   Intact   so a frame that is stored overwrites none of them;           *)
(*   InCall   and each step of enc28_read_packet is at the oldest one.     *)
(* The last three hold as long as the driver is in step (InStep).  There   *)
(* is no assumption on the chip: frames with an error, frames that arrive  *)
(* between any two SPI commands and a PKTIF that misses frames are steps   *)
(* of the specification; some of them end InStep.                          *)
(***************************************************************************)
EXTENDS Enc28Rx, TLAPS

-----------------------------------------------------------------------------
(* Arithmetic in the ring.                                                 *)

(* The bytes from a to b, in the direction of the ring.                    *)
Dist(a, b) == IF b >= a THEN b - a ELSE b - a + RingSize

(* The addresses are an interval of even length.                           *)
LEMMA RingFacts ==
    /\ RingSize \in Nat /\ RingSize >= 2 /\ RingSize % 2 = 0
    /\ \A a : a \in Addresses <=> a \in Int /\ RX_START <= a /\ a <= RX_END
    /\ RX_START \in Addresses /\ RX_END \in Addresses
    /\ Addresses \subseteq 0..MaxAddress /\ MaxAddress \in Nat
  BY RxAssumption DEF RingSize, Addresses, MaxAddress

(* Wrap stays in the ring.                                                 *)
LEMMA WrapType ==
    ASSUME NEW a \in Addresses, NEW n \in Nat PROVE Wrap(a, n) \in Addresses
  <1>1. a - RX_START + n \in Nat BY RxAssumption, RingFacts
  <1>2. (a - RX_START + n) % RingSize \in 0..(RingSize - 1) BY <1>1, RingFacts
  <1> QED BY <1>2, RxAssumption DEF Wrap, Addresses, RingSize

(* Up to one round, Wrap needs no remainder.                               *)
LEMMA WrapValue ==
    ASSUME NEW a \in Addresses, NEW n \in 0..RingSize
    PROVE  Wrap(a, n) = IF a + n <= RX_END THEN a + n ELSE a + n - RingSize
  <1>1. \A N \in Nat \ {0} : \A x \in 0..(N - 1) : x % N = x OBVIOUS
  <1>2. \A N \in Nat \ {0} : \A x \in Nat : N <= x /\ x < N + N => x % N = x - N OBVIOUS
  <1>3. CASE a + n <= RX_END
    <2>1. a - RX_START + n \in 0..(RingSize - 1) /\ RingSize \in Nat \ {0}
      BY <1>3, RxAssumption, RingFacts DEF RingSize
    <2>2. (a - RX_START + n) % RingSize = a - RX_START + n BY <2>1, <1>1
    <2> QED BY <1>3, <2>2, RxAssumption, RingFacts DEF Wrap
  <1>4. CASE ~(a + n <= RX_END)
    <2>1. /\ RingSize \in Nat \ {0} /\ a - RX_START + n \in Nat
          /\ RingSize <= a - RX_START + n /\ a - RX_START + n < RingSize + RingSize
      BY <1>4, RxAssumption, RingFacts DEF RingSize
    <2>2. (a - RX_START + n) % RingSize = (a - RX_START + n) - RingSize
      BY <2>1, <1>2, Zenon
    <2> QED BY <1>4, <2>2, RxAssumption, RingFacts DEF Wrap
  <1> QED BY <1>3, <1>4

(* Distances in the ring.                                                  *)
LEMMA DistFacts ==
    ASSUME NEW a \in Addresses, NEW b \in Addresses
    PROVE  Dist(a, b) \in 0..(RingSize - 1)
  BY RxAssumption, RingFacts DEF Dist, RingSize

(* A region is the addresses that are not too far away.                    *)
LEMMA RegionFacts ==
    ASSUME NEW a \in Addresses, NEW n \in 0..RingSize, NEW b
    PROVE  b \in Region(a, n) <=> b \in Addresses /\ Dist(a, b) < n
  <1>1. ASSUME b \in Region(a, n) PROVE b \in Addresses /\ Dist(a, b) < n
    <2>1. PICK k \in 0..(n - 1) : b = Wrap(a, k) BY <1>1 DEF Region
    <2>2. k \in 0..RingSize /\ k \in Nat BY RingFacts
    <2>3. b = IF a + k <= RX_END THEN a + k ELSE a + k - RingSize
      BY <2>1, <2>2, WrapValue
    <2>4. b \in Addresses BY <2>1, <2>2, WrapType
    <2>5. k < RingSize BY RingFacts
    <2> QED BY <2>3, <2>4, <2>5, RxAssumption, RingFacts DEF Dist, RingSize
  <1>2. ASSUME b \in Addresses, Dist(a, b) < n PROVE b \in Region(a, n)
    <2>1. Dist(a, b) \in 0..(n - 1) /\ Dist(a, b) \in 0..RingSize
      BY <1>2, DistFacts, RingFacts
    <2>2. Wrap(a, Dist(a, b)) = IF a + Dist(a, b) <= RX_END THEN a + Dist(a, b)
                                ELSE a + Dist(a, b) - RingSize
      BY <2>1, WrapValue
    <2>3. Wrap(a, Dist(a, b)) = b
      BY <1>2, <2>2, RxAssumption, RingFacts DEF Dist, RingSize
    <2> QED BY <2>1, <2>3 DEF Region
  <1> QED BY <1>1, <1>2

(* Going on from an address adds to the distance, up to one round.         *)
LEMMA DistWrap ==
    ASSUME NEW c \in Addresses, NEW a \in Addresses, NEW n \in Nat,
           Dist(c, a) + n < RingSize
    PROVE  Dist(c, Wrap(a, n)) = Dist(c, a) + n
  <1>1. n \in 0..RingSize BY DistFacts, RingFacts
  <1>2. Wrap(a, n) = IF a + n <= RX_END THEN a + n ELSE a + n - RingSize
    BY <1>1, WrapValue
  <1> QED BY <1>2, RxAssumption, RingFacts DEF Dist, RingSize

(* A byte of a region that does not reach round to c.                      *)
LEMMA DistAdd ==
    ASSUME NEW c \in Addresses, NEW a \in Addresses, NEW b \in Addresses,
           Dist(c, a) + Dist(a, b) < RingSize
    PROVE  Dist(c, b) = Dist(c, a) + Dist(a, b)
  BY RxAssumption, RingFacts DEF Dist, RingSize

(* Distances from another byte on the way.                                 *)
LEMMA DistRebase ==
    ASSUME NEW c \in Addresses, NEW d \in Addresses, NEW a \in Addresses,
           Dist(c, d) <= Dist(c, a)
    PROVE  Dist(d, a) = Dist(c, a) - Dist(c, d)
  BY RxAssumption, RingFacts DEF Dist, RingSize

(* Without a wrap between c and w, distances are differences.              *)
LEMMA DistStraight ==
    ASSUME NEW c \in Addresses, NEW a \in Addresses, NEW w \in Addresses,
           c <= w, Dist(c, a) <= Dist(c, w)
    PROVE  Dist(RX_START, a) = Dist(c, a) + (c - RX_START)
  BY RxAssumption, RingFacts DEF Dist, RingSize

(* The value for ERXRDPT is in the ring, whatever the header says.         *)
LEMMA OneBeforeType ==
    ASSUME NEW a \in 0..MaxAddress PROVE OneBefore(a) \in Addresses
  <1>1. a \in Int /\ RX_END \in Int /\ RX_START \in Int BY RxAssumption, RingFacts
  <1> QED BY <1>1, RxAssumption, RingFacts DEF OneBefore

(* Frames take an even number of bytes, and at least their header.         *)
LEMMA FootprintFacts ==
    ASSUME NEW len \in FrameLens
    PROVE  /\ Footprint(len) \in Nat /\ Footprint(len) % 2 = 0
           /\ len \in Nat /\ len >= 1 /\ len <= BufSize
           /\ Footprint(len) >= HeaderLen + len
  <1>1. len \in Nat /\ len >= 1 /\ len <= BufSize BY RxAssumption
  <1> QED BY <1>1 DEF Footprint, HeaderLen

-----------------------------------------------------------------------------
(* The inductive invariant.                                                *)

FrameHeader == [start : Addresses, next : Addresses, len : FrameLens, ok : BOOLEAN]

RxType ==
    /\ frames \in Seq(FrameHeader) /\ Len(frames) <= MaxFrames
    /\ ring \in [Addresses -> 0..Len(frames)]
    /\ erxwrpt \in Addresses /\ erxrdpt \in Addresses /\ erdpt \in 0..MaxAddress
    /\ epktcnt \in 0..Len(frames)
    /\ hdr.next \in 0..MaxAddress /\ hdr.len \in Nat
    /\ dataId \in 0..Len(frames) /\ got \in 0..Len(frames)
    /\ pc \in {"idle", "header", "data", "skip", "release", "decrement",
               "recover", "clear"}
    /\ pc = "data" => erdpt \in Addresses
    /\ pc \in {"header", "data", "skip", "release", "decrement"} => epktcnt > 0
    /\ astray \in {"no", "error", "exposed"}

(* Where frame n starts, or will start if it is the next one.              *)
StartOf(n) == IF n <= Len(frames) THEN frames[n].start ELSE erxwrpt
Extent(n)  == Footprint(frames[n].len)

(* Each frame starts where the one before it ends, at an even address.     *)
Chain ==
    /\ erxwrpt % 2 = 0
    /\ \A n \in 1..Len(frames) :
          /\ frames[n].start % 2 = 0
          /\ Extent(n) < RingSize
          /\ frames[n].next = Wrap(frames[n].start, Extent(n))
          /\ frames[n].next = StartOf(n + 1)

(* Positions behind ERXRDPT, where the chip may not go.                    *)
Base   == IF erxrdpt = RX_END THEN RX_START ELSE erxrdpt + 1
Pos(a) == Dist(Base, a)

(* The frames that ERXRDPT still protects: it is moved one step before     *)
(* EPKTCNT is decremented.                                                 *)
Protected == (IF pc = "decrement" THEN Oldest + 1 ELSE Oldest)..Len(frames)

Layout ==
    /\ erxrdpt % 2 = 1
    /\ \A n \in Protected : Pos(frames[n].start) + Extent(n) <= Pos(erxwrpt)
    /\ \A m, n \in Protected :
          m < n => Pos(frames[m].start) + Extent(m) <= Pos(frames[n].start)

Intact ==
    \A n \in Protected : \A a \in Addresses :
        Dist(frames[n].start, a) < Extent(n) => ring[a] = n

(* The steps of enc28_read_packet with the oldest frame.                   *)
InCall ==
    /\ pc \in {"header", "data", "skip", "release", "decrement"} => epktcnt > 0
    /\ pc \in {"idle", "header", "recover", "clear"} => erdpt = StartOf(Oldest)
    /\ pc \in {"data", "skip", "release", "decrement"} => hdr = frames[Oldest]
    /\ pc = "data" => erdpt = Wrap(frames[Oldest].start, HeaderLen)
    /\ pc \in {"skip", "release", "decrement"} => dataId = Oldest
    /\ pc \in {"release", "decrement"} => erdpt = StartOf(Oldest + 1)
    /\ got = Oldest - 1

(* What holds while the driver is in step with the ring.                   *)
Good == Layout /\ Intact /\ InCall

RxInv == RxType /\ Chain /\ (InStep => Good)

-----------------------------------------------------------------------------
(* Types.                                                                  *)

(* What the chip has when it has stored a frame.                           *)
LEMMA StoredFacts ==
    ASSUME RxType, NEW len \in FrameLens, NEW ok \in BOOLEAN, FrameStored(len, ok)
    PROVE  LET next == Wrap(erxwrpt, Footprint(len))
               new  == [start |-> erxwrpt, next |-> next, len |-> len, ok |-> ok]
           IN  /\ frames' = Append(frames, new)
               /\ frames' \in Seq(FrameHeader)
               /\ Len(frames') = Len(frames) + 1 /\ Len(frames') <= MaxFrames
               /\ \A n \in 1..Len(frames) : frames'[n] = frames[n]
               /\ frames'[Len(frames) + 1] = new
               /\ erxwrpt' = next /\ next \in Addresses
               /\ epktcnt' = epktcnt + 1
               /\ Footprint(len) <= FreeSpace
               /\ UNCHANGED <<erxrdpt, erdpt, rxerif, pc, hdr, dataId, got, astray>>
  <1> DEFINE next == Wrap(erxwrpt, Footprint(len))
             new  == [start |-> erxwrpt, next |-> next, len |-> len, ok |-> ok]
  <1>1. /\ frames' = Append(frames, new) /\ erxwrpt' = next /\ epktcnt' = epktcnt + 1
        /\ Len(frames) < MaxFrames /\ Footprint(len) <= FreeSpace
        /\ UNCHANGED <<erxrdpt, erdpt, rxerif, pc, hdr, dataId, got, astray>>
    BY DEF FrameStored
  <1>2. erxwrpt \in Addresses /\ frames \in Seq(FrameHeader) BY DEF RxType
  <1>3. next \in Addresses BY <1>2, WrapType, FootprintFacts
  <1>4. new \in FrameHeader BY <1>2, <1>3 DEF FrameHeader
  <1> HIDE DEF next, new
  <1>5. \A q, x : q \in Seq(FrameHeader) /\ x \in FrameHeader =>
            /\ Append(q, x) \in Seq(FrameHeader) /\ Len(Append(q, x)) = Len(q) + 1
            /\ \A n \in 1..Len(q) : Append(q, x)[n] = q[n]
            /\ Append(q, x)[Len(q) + 1] = x
    OBVIOUS
  <1>6. /\ frames' \in Seq(FrameHeader) /\ Len(frames') = Len(frames) + 1
        /\ \A n \in 1..Len(frames) : frames'[n] = frames[n]
        /\ frames'[Len(frames) + 1] = new
    BY <1>1, <1>2, <1>4, <1>5
  <1>7. Len(frames') <= MaxFrames BY <1>1, <1>2, <1>6, RxAssumption
  <1> QED BY <1>1, <1>3, <1>6, <1>7 DEF next, new

(* Whatever is read at an address has the fields of a header.              *)
LEMMA HeadersType ==
    ASSUME RxType, NEW a \in Addresses, NEW h \in HeadersAt(a)
    PROVE  h.next \in 0..MaxAddress /\ h.len \in Nat
  <1>1. CASE HeadersAt(a) = {frames[ring[a]]} /\ ring[a] > 0
    <2>1. ring[a] \in 1..Len(frames) BY <1>1 DEF RxType
    <2>2. frames[ring[a]] \in FrameHeader BY <2>1 DEF RxType
    <2>3. h = frames[ring[a]] BY <1>1
    <2> QED BY <2>2, <2>3, FootprintFacts, RingFacts DEF FrameHeader
  <1>2. CASE HeadersAt(a) = [start : {a}, next : GarbageNext, len : GarbageLens,
                             ok : BOOLEAN]
    <2>1. h.next \in GarbageNext /\ h.len \in GarbageLens BY <1>2
    <2> QED BY <2>1, RxAssumption
  <1> QED BY <1>1, <1>2 DEF HeadersAt

(* The initial state has the types.                                        *)
LEMMA InitType == Init => RxType
  <1> SUFFICES ASSUME Init PROVE RxType OBVIOUS
  <1>1. frames = <<>> /\ Len(frames) = 0 /\ frames \in Seq(FrameHeader) BY DEF Init
  <1>2. ring \in [Addresses -> 0..Len(frames)] BY <1>1 DEF Init
  <1>3. hdr.next = 0 /\ hdr.len = 0 BY DEF Init, NoHeader
  <1> QED BY <1>1, <1>2, <1>3, RingFacts, RxAssumption DEF Init, RxType

(* Every step of the driver and the chip keeps the types, bad frames and   *)
(* garbage included.                                                       *)
LEMMA StepType == RxType /\ [Next]_vars => RxType'
  <1> SUFFICES ASSUME RxType, [Next]_vars PROVE RxType' OBVIOUS
  <1>0. Len(frames) \in Nat BY DEF RxType
  <1>1. ASSUME NEW len \in FrameLens, NEW ok \in BOOLEAN, FrameStored(len, ok)
        PROVE  RxType'
    <2>1. ring' \in [Addresses -> 0..Len(frames')]
      <3>1. ring' = [a \in Addresses |->
                       IF a \in Region(erxwrpt, Footprint(len)) THEN Len(frames) + 1
                       ELSE ring[a]]
        BY <1>1 DEF FrameStored
      <3>2. \A a \in Addresses : ring[a] \in 0..Len(frames) BY DEF RxType
      <3>3. Len(frames') = Len(frames) + 1 BY <1>1, StoredFacts
      <3> QED BY <3>1, <3>2, <3>3, <1>0
    <2>2. /\ frames' \in Seq(FrameHeader) /\ Len(frames') <= MaxFrames
          /\ Len(frames') = Len(frames) + 1
          /\ erxwrpt' \in Addresses /\ epktcnt' = epktcnt + 1
          /\ UNCHANGED <<erxrdpt, erdpt, rxerif, pc, hdr, dataId, got, astray>>
      BY <1>1, StoredFacts
    <2>3. /\ epktcnt' \in 0..Len(frames') /\ dataId' \in 0..Len(frames')
          /\ got' \in 0..Len(frames')
      BY <1>0, <2>2 DEF RxType
    <2>p. pc' \in {"header", "data", "skip", "release", "decrement"} => epktcnt' > 0
      BY <2>2 DEF RxType
    <2>4. /\ erxrdpt' \in Addresses /\ erdpt' \in 0..MaxAddress
          /\ hdr'.next \in 0..MaxAddress /\ hdr'.len \in Nat
          /\ pc' \in {"idle", "header", "data", "skip", "release", "decrement",
                     "recover", "clear"}
          /\ pc' = "data" => erdpt' \in Addresses
          /\ astray' \in {"no", "error", "exposed"}
      BY <2>2 DEF RxType
    <2> QED BY <2>1, <2>2, <2>3, <2>4, <2>p, Zenon DEF RxType
  <1>2. ASSUME NEW len \in FrameLens, FrameRefused(len) PROVE RxType'
    BY <1>2 DEF FrameRefused, RxType, chipVars
  <1> USE DEF RxType, chipVars
  <1>3. CASE ReadEir
    <2>1. pc' \in {"header", "recover", "idle"} BY <1>3 DEF ReadEir
    <2>2. pc' = "header" => epktcnt > 0
      <3>1. ASSUME NEW b \in Pktif, b PROVE epktcnt > 0 BY <3>1 DEF Pktif
      <3> QED BY <1>3, <3>1 DEF ReadEir
    <2> QED BY <1>3, <2>1, <2>2 DEF ReadEir
  <1>4. CASE ReadPtrOutOfRange BY <1>4 DEF ReadPtrOutOfRange
  <1>5. CASE ReadHeader
    <2>1. erdpt' \in Addresses BY <1>5, WrapType DEF ReadHeader, HeaderLen
    <2>2. hdr'.next \in 0..MaxAddress /\ hdr'.len \in Nat
      BY <1>5, HeadersType DEF ReadHeader
    <2>3. /\ pc = "header" /\ pc' \in {"data", "idle"}
          /\ astray' \in {"no", "error", "exposed"}
          /\ UNCHANGED <<ring, frames, erxwrpt, epktcnt, erxrdpt, dataId, got>>
      BY <1>5 DEF ReadHeader
    <2>4. erdpt' \in 0..MaxAddress BY <2>1, RingFacts
    <2> QED BY <2>1, <2>2, <2>3, <2>4
  <1>6. CASE ReadData
    <2>1. erdpt' \in Addresses BY <1>6, WrapType DEF ReadData
    <2>2. dataId' \in 0..Len(frames)
      <3> DEFINE owners == {ring[b] : b \in Region(erdpt, hdr.len)}
      <3>1. owners \subseteq 0..Len(frames)
        <4>1. \A b \in Region(erdpt, hdr.len) : b \in Addresses
          BY <1>6, WrapType DEF Region, ReadData
        <4> QED BY <4>1
      <3>2. dataId' = IF \E n \in owners : owners = {n}
                      THEN CHOOSE n \in owners : TRUE ELSE 0
        BY <1>6 DEF ReadData
      <3> HIDE DEF owners
      <3>3. CASE \E n \in owners : owners = {n}
        <4>1. (CHOOSE n \in owners : TRUE) \in owners BY <3>3
        <4> QED BY <3>1, <3>2, <3>3, <4>1
      <3> QED BY <1>0, <3>2, <3>3
    <2>3. erdpt' \in 0..MaxAddress BY <2>1, RingFacts
    <2> QED BY <1>6, <2>1, <2>2, <2>3 DEF ReadData
  <1>7. CASE Skip BY <1>7 DEF Skip
  <1>8. CASE Release
    <2>1. OneBefore(hdr.next) \in Addresses BY OneBeforeType
    <2> QED BY <1>8, <2>1 DEF Release
  <1>9. CASE Decrement
    <2>1. got' \in 0..Len(frames) /\ epktcnt' \in 0..Len(frames)
      BY <1>0, <1>9 DEF Decrement
    <2> QED BY <1>9, <2>1 DEF Decrement
  <1>10. CASE Recover
    <2>1. astray' \in {"no", "error", "exposed"} /\ erxrdpt' \in Addresses
      BY <1>10, RingFacts DEF Recover
    <2> QED BY <1>10, <2>1 DEF Recover
  <1>11. CASE ClearRxerif BY <1>11 DEF ClearRxerif
  <1>12. CASE UNCHANGED vars BY <1>12 DEF vars
  <1> QED BY <1>1, <1>2, <1>3, <1>4, <1>5, <1>6, <1>7, <1>8, <1>9, <1>10, <1>11, <1>12
          DEF Next, ReadPacket

-----------------------------------------------------------------------------
(* The chain of frames.                                                    *)

(* Only the chip touches its memory.                                       *)
LEMMA ChipOrDriver ==
    ASSUME [Next]_vars
    PROVE  \/ \E len \in FrameLens : \E ok \in BOOLEAN : FrameStored(len, ok)
           \/ UNCHANGED <<ring, frames, erxwrpt>>
  <1>1. CASE ReadPacket
    BY <1>1 DEF ReadPacket, ReadEir, ReadPtrOutOfRange, ReadHeader, ReadData, Skip,
                Release, Decrement, Recover, ClearRxerif, chipVars
  <1>2. ASSUME NEW len \in FrameLens, FrameRefused(len)
        PROVE  UNCHANGED <<ring, frames, erxwrpt>>
    BY <1>2 DEF FrameRefused, chipVars
  <1>3. CASE UNCHANGED vars BY <1>3 DEF vars
  <1>4. TRUE \in BOOLEAN /\ FALSE \in BOOLEAN OBVIOUS
  <1> QED BY <1>1, <1>2, <1>3, <1>4, Zenon DEF Next

(* Even addresses stay even.                                               *)
LEMMA WrapEven ==
    ASSUME NEW a \in Addresses, NEW n \in 0..RingSize, a % 2 = 0, n % 2 = 0
    PROVE  Wrap(a, n) % 2 = 0
  <1>1. Wrap(a, n) = IF a + n <= RX_END THEN a + n ELSE a + n - RingSize BY WrapValue
  <1>2. a \in Int /\ n \in Int /\ RingSize \in Int /\ RingSize % 2 = 0 BY RingFacts
  <1> HIDE DEF RingSize
  <1>3. (a + n) % 2 = 0 /\ (a + n - RingSize) % 2 = 0 BY <1>2
  <1> QED BY <1>1, <1>3

(* The chip never fills the whole ring.                                    *)
LEMMA FreeSpaceBound ==
    ASSUME erxwrpt \in Addresses, erxrdpt \in Addresses
    PROVE  FreeSpace \in Int /\ FreeSpace < RingSize
  BY RxAssumption, RingFacts DEF FreeSpace, RingSize

(* The free bytes, counted from the byte behind ERXRDPT.                   *)
LEMMA FreeSpaceFacts ==
    ASSUME erxwrpt \in Addresses, erxrdpt \in Addresses,
           erxwrpt % 2 = 0, erxrdpt % 2 = 1
    PROVE  Base \in Addresses /\ FreeSpace = RingSize - 2 - Pos(erxwrpt)
  <1>1. Base \in Addresses BY RxAssumption, RingFacts DEF Base
  <1>2. erxwrpt # erxrdpt OBVIOUS
  <1> QED BY <1>1, <1>2, RxAssumption, RingFacts
          DEF FreeSpace, RingSize, Base, Pos, Dist

(* The chain holds when the ring is empty.                                 *)
LEMMA InitChain == Init => Chain
  <1> SUFFICES ASSUME Init PROVE Chain OBVIOUS
  <1>1. Len(frames) = 0 /\ erxwrpt = RX_START BY DEF Init
  <1> QED BY <1>1, RxAssumption DEF Chain

(* A frame is stored at the end of the chain.                              *)
LEMMA StepChain == RxType /\ Chain /\ [Next]_vars => Chain'
  <1> SUFFICES ASSUME RxType, Chain, [Next]_vars PROVE Chain' OBVIOUS
  <1>0. Len(frames) \in Nat /\ erxwrpt \in Addresses /\ erxrdpt \in Addresses
    BY DEF RxType
  <1>1. ASSUME NEW len \in FrameLens, NEW ok \in BOOLEAN, FrameStored(len, ok)
        PROVE  Chain'
    <2> DEFINE next == Wrap(erxwrpt, Footprint(len))
               new  == [start |-> erxwrpt, next |-> next, len |-> len, ok |-> ok]
    <2>1. /\ Len(frames') = Len(frames) + 1 /\ erxwrpt' = next
          /\ \A n \in 1..Len(frames) : frames'[n] = frames[n]
          /\ frames'[Len(frames) + 1] = new
          /\ Footprint(len) <= FreeSpace
      BY <1>1, StoredFacts
    <2>2. Footprint(len) \in 0..RingSize /\ Footprint(len) < RingSize
      BY <1>0, <2>1, FreeSpaceBound, FootprintFacts, RingFacts
    <2>3. next % 2 = 0 BY <1>0, <2>2, WrapEven, FootprintFacts DEF Chain
    <2>4. ASSUME NEW n \in 1..Len(frames)
          PROVE  /\ frames'[n].start % 2 = 0
                 /\ Extent(n)' < RingSize
                 /\ frames'[n].next = Wrap(frames'[n].start, Extent(n)')
                 /\ frames'[n].next = StartOf(n + 1)'
      <3>1. frames'[n] = frames[n] /\ Extent(n)' = Extent(n) BY <2>1 DEF Extent
      <3>2. StartOf(n + 1)' = StartOf(n + 1)
        <4>1. CASE n = Len(frames)
          BY <1>0, <2>1, <4>1 DEF StartOf
        <4>2. CASE n # Len(frames)
          <5>1. n + 1 \in 1..Len(frames) BY <1>0, <4>2
          <5> QED BY <1>0, <2>1, <5>1 DEF StartOf
        <4> QED BY <4>1, <4>2
      <3> QED BY <3>1, <3>2 DEF Chain
    <2>5. /\ new.start % 2 = 0 /\ Footprint(new.len) < RingSize
          /\ new.next = Wrap(new.start, Footprint(new.len))
          /\ new.next = erxwrpt'
      BY <1>0, <2>1, <2>2 DEF Chain
    <2> HIDE DEF new, next
    <2>6. ASSUME NEW n \in 1..Len(frames')
          PROVE  /\ frames'[n].start % 2 = 0
                 /\ Extent(n)' < RingSize
                 /\ frames'[n].next = Wrap(frames'[n].start, Extent(n)')
                 /\ frames'[n].next = StartOf(n + 1)'
      <3>1. CASE n \in 1..Len(frames) BY <2>4, <3>1
      <3>2. CASE n = Len(frames) + 1
        <4>1. frames'[n] = new /\ Extent(n)' = Footprint(new.len)
          BY <1>0, <2>1, <3>2 DEF Extent
        <4>2. StartOf(n + 1)' = erxwrpt' BY <1>0, <2>1, <3>2 DEF StartOf
        <4> QED BY <2>5, <4>1, <4>2
      <3> QED BY <1>0, <2>1, <3>1, <3>2
    <2> QED BY <2>1, <2>3, <2>6 DEF Chain
  <1>2. CASE UNCHANGED <<ring, frames, erxwrpt>>
    BY <1>2 DEF Chain, StartOf, Extent
  <1> QED BY <1>1, <1>2, ChipOrDriver

-----------------------------------------------------------------------------
(* The oldest frame, and the driver in step.                               *)

(* Storing a frame does not change which frame is the oldest; the driver   *)
(* goes to the next one in Decrement only.                                 *)
LEMMA OldestStep ==
    ASSUME RxType, [Next]_vars
    PROVE  \/ /\ \E len \in FrameLens : \E ok \in BOOLEAN : FrameStored(len, ok)
              /\ Oldest' = Oldest
              /\ Len(frames') = Len(frames) + 1
              /\ \A n \in 1..Len(frames) : frames'[n] = frames[n]
           \/ /\ UNCHANGED <<ring, frames, erxwrpt>>
              /\ \/ Oldest' = Oldest /\ UNCHANGED epktcnt
                 \/ Oldest' = Oldest + 1 /\ pc = "decrement" /\ epktcnt > 0
  <1>0. Len(frames) \in Nat /\ epktcnt \in Nat BY DEF RxType
  <1>1. ASSUME NEW len \in FrameLens, NEW ok \in BOOLEAN, FrameStored(len, ok)
        PROVE  /\ Oldest' = Oldest
               /\ Len(frames') = Len(frames) + 1
               /\ \A n \in 1..Len(frames) : frames'[n] = frames[n]
    <2>1. /\ Len(frames') = Len(frames) + 1 /\ epktcnt' = epktcnt + 1
          /\ \A n \in 1..Len(frames) : frames'[n] = frames[n]
      BY <1>1, StoredFacts
    <2> QED BY <1>0, <2>1 DEF Oldest
  <1>2. CASE UNCHANGED <<ring, frames, erxwrpt, epktcnt>> BY <1>2 DEF Oldest
  <1>3. CASE Decrement
    <2>1. /\ UNCHANGED <<ring, frames, erxwrpt>> /\ pc = "decrement"
          /\ epktcnt' = IF epktcnt > 0 THEN epktcnt - 1 ELSE 0
      BY <1>3 DEF Decrement
    <2> QED BY <1>0, <2>1 DEF Oldest
  <1>4. CASE ReadPacket /\ ~Decrement
    BY <1>2, <1>4 DEF ReadPacket, ReadEir, ReadPtrOutOfRange, ReadHeader, ReadData,
                Skip, Release, Recover, ClearRxerif, chipVars
  <1>5. ASSUME NEW len \in FrameLens, FrameRefused(len)
        PROVE  UNCHANGED <<ring, frames, erxwrpt, epktcnt>>
    BY <1>5 DEF FrameRefused, chipVars
  <1>6. CASE UNCHANGED vars BY <1>2, <1>6 DEF vars
  <1>7. TRUE \in BOOLEAN /\ FALSE \in BOOLEAN OBVIOUS
  <1>8. [Next]_vars => \/ ReadPacket \/ UNCHANGED vars
                       \/ \E len \in FrameLens : \E ok \in BOOLEAN : FrameStored(len, ok)
                       \/ \E len \in FrameLens : FrameRefused(len)
    BY <1>7, Zenon DEF Next
  <1> QED BY <1>1, <1>2, <1>3, <1>4, <1>5, <1>6, <1>8

(* The driver never gets back into step.                                   *)
LEMMA InStepStable ==
    ASSUME [Next]_vars, InStep' PROVE InStep
  <1>1. CASE UNCHANGED astray BY <1>1 DEF InStep
  <1>2. CASE ReadHeader BY <1>2 DEF ReadHeader, InStep
  <1>3. CASE Recover BY <1>3 DEF Recover, InStep
  <1>4. CASE ReadPacket /\ ~ReadHeader /\ ~Recover
    BY <1>1, <1>4 DEF ReadPacket, ReadEir, ReadPtrOutOfRange, ReadData, Skip,
                      Release, Decrement, ClearRxerif
  <1>5. ASSUME NEW len \in FrameLens, NEW ok \in BOOLEAN,
               FrameStored(len, ok) \/ FrameRefused(len)
        PROVE  UNCHANGED astray
    BY <1>5 DEF FrameStored, FrameRefused
  <1>6. CASE UNCHANGED vars BY <1>1, <1>6 DEF vars
  <1>7. TRUE \in BOOLEAN OBVIOUS
  <1> QED BY <1>1, <1>2, <1>3, <1>4, <1>5, <1>6, <1>7 DEF Next

-----------------------------------------------------------------------------
(* The frames below the write pointer.                                     *)

(* Facts that every step below starts from.                                *)
LEMMA StateFacts ==
    ASSUME RxType
    PROVE  /\ Len(frames) \in Nat /\ epktcnt \in 0..Len(frames)
           /\ Oldest \in 1..(Len(frames) + 1)
           /\ erxwrpt \in Addresses /\ erxrdpt \in Addresses
           /\ Base \in Addresses
           /\ \A n \in Protected : n \in 1..Len(frames)
           /\ \A n \in 1..Len(frames) :
                 /\ frames[n] \in FrameHeader
                 /\ frames[n].start \in Addresses /\ frames[n].next \in Addresses
                 /\ frames[n].len \in FrameLens /\ Extent(n) \in Nat
                 /\ Extent(n) >= HeaderLen + frames[n].len
  <1>1. Len(frames) \in Nat /\ epktcnt \in 0..Len(frames) /\ Oldest \in 1..(Len(frames) + 1)
    BY DEF RxType, Oldest
  <1>2. Base \in Addresses
    <2>1. erxrdpt \in Addresses BY DEF RxType
    <2> QED BY <2>1, RxAssumption, RingFacts DEF Base
  <1>3. \A n \in Protected : n \in 1..Len(frames) BY <1>1 DEF Protected
  <1>4. ASSUME NEW n \in 1..Len(frames)
        PROVE  /\ frames[n] \in FrameHeader
               /\ frames[n].start \in Addresses /\ frames[n].next \in Addresses
               /\ frames[n].len \in FrameLens /\ Extent(n) \in Nat
               /\ Extent(n) >= HeaderLen + frames[n].len
    <2>1. frames[n] \in FrameHeader BY DEF RxType
    <2> QED BY <2>1, FootprintFacts DEF FrameHeader, Extent
  <1> QED BY <1>1, <1>2, <1>3, <1>4 DEF RxType

(* The steps that move a pointer of the ring or a counter.                 *)
LEMMA StepCases ==
    ASSUME [Next]_vars
    PROVE  \/ \E len \in FrameLens : \E ok \in BOOLEAN : FrameStored(len, ok)
           \/ Release \/ Decrement \/ Recover
           \/ /\ UNCHANGED <<ring, frames, erxwrpt, erxrdpt, epktcnt>>
              /\ pc' = "decrement" <=> pc = "decrement"
  <1> DEFINE Rest == /\ UNCHANGED <<ring, frames, erxwrpt, erxrdpt, epktcnt>>
                     /\ pc' = "decrement" <=> pc = "decrement"
  <1>1. ASSUME NEW len \in FrameLens, FrameRefused(len) PROVE Rest
    BY <1>1 DEF FrameRefused, chipVars
  <1>2. ASSUME UNCHANGED vars PROVE Rest BY <1>2 DEF vars
  <1>3. ASSUME ReadEir PROVE Rest
    <2>1. pc' \in {"header", "recover", "idle"} BY <1>3 DEF ReadEir
    <2> QED BY <1>3, <2>1 DEF ReadEir, chipVars
  <1>4. ASSUME ReadHeader PROVE Rest
    <2>1. pc' \in {"data", "idle"} BY <1>4 DEF ReadHeader
    <2> QED BY <1>4, <2>1 DEF ReadHeader, chipVars
  <1>5. ASSUME ReadPtrOutOfRange \/ ReadData \/ Skip \/ ClearRxerif PROVE Rest
    BY <1>5 DEF ReadPtrOutOfRange, ReadData, Skip, ClearRxerif, chipVars
  <1>6. TRUE \in BOOLEAN /\ FALSE \in BOOLEAN OBVIOUS
  <1> HIDE DEF Rest
  <1>7. \/ \E len \in FrameLens : \E ok \in BOOLEAN : FrameStored(len, ok)
        \/ Release \/ Decrement \/ Recover \/ Rest
    BY <1>1, <1>2, <1>3, <1>4, <1>5, <1>6, Zenon DEF Next, ReadPacket
  <1> QED BY <1>7 DEF Rest

(* A frame is stored at the write pointer and ends before ERXRDPT.         *)
LEMMA StoredPosition ==
    ASSUME RxType, Chain, erxrdpt % 2 = 1,
           NEW len \in FrameLens, NEW ok \in BOOLEAN, FrameStored(len, ok)
    PROVE  /\ Base' = Base
           /\ Footprint(len) \in 0..RingSize
           /\ Pos(erxwrpt) + Footprint(len) < RingSize
           /\ Dist(Base, erxwrpt') = Pos(erxwrpt) + Footprint(len)
  <1>1. /\ erxwrpt \in Addresses /\ erxrdpt \in Addresses /\ erxwrpt % 2 = 0
        /\ erxrdpt' = erxrdpt /\ erxwrpt' = Wrap(erxwrpt, Footprint(len))
        /\ Footprint(len) <= FreeSpace
    BY StoredFacts, StateFacts DEF Chain
  <1>2. Base \in Addresses /\ FreeSpace = RingSize - 2 - Pos(erxwrpt)
    BY <1>1, FreeSpaceFacts
  <1>3. Base' = Base BY <1>1 DEF Base
  <1>4. Pos(erxwrpt) \in 0..(RingSize - 1) BY <1>1, <1>2, DistFacts DEF Pos
  <1>5. Footprint(len) \in Nat BY FootprintFacts
  <1>6. Pos(erxwrpt) + Footprint(len) < RingSize BY <1>1, <1>2, <1>4, <1>5, RingFacts
  <1>7. Dist(Base, Wrap(erxwrpt, Footprint(len))) = Pos(erxwrpt) + Footprint(len)
    BY <1>1, <1>2, <1>5, <1>6, DistWrap DEF Pos
  <1> QED BY <1>1, <1>3, <1>4, <1>5, <1>6, <1>7, RingFacts

(* Releasing the oldest frame makes the start of the next one the new      *)
(* base, at the end of the released frame.                                 *)
LEMMA ReleasedBase ==
    ASSUME RxType, Chain, Layout, pc = "release", epktcnt > 0,
           hdr = frames[Oldest], Release
    PROVE  /\ Oldest \in Protected
           /\ Base' = frames[Oldest].next
           /\ Pos(Base') = Pos(frames[Oldest].start) + Extent(Oldest)
           /\ erxrdpt' % 2 = 1
  <1>0. /\ Len(frames) \in Nat /\ Oldest \in 1..Len(frames) /\ Oldest \in Protected
        /\ Base \in Addresses /\ erxwrpt \in Addresses
    BY StateFacts DEF Oldest, Protected
  <1> DEFINE o == frames[Oldest]
  <1>1. /\ o.start \in Addresses /\ o.next \in Addresses /\ Extent(Oldest) \in Nat
        /\ o.next = Wrap(o.start, Extent(Oldest)) /\ o.next = StartOf(Oldest + 1)
    BY <1>0, StateFacts DEF Chain
  <1>2. o.next % 2 = 0
    <2>1. CASE Oldest + 1 <= Len(frames)
      <3>1. Oldest + 1 \in 1..Len(frames) BY <1>0, <2>1
      <3> QED BY <1>1, <2>1, <3>1 DEF Chain, StartOf
    <2>2. CASE ~(Oldest + 1 <= Len(frames)) BY <1>1, <2>2 DEF Chain, StartOf
    <2> QED BY <2>1, <2>2
  <1>3. erxrdpt' = OneBefore(o.next) BY DEF Release
  <1> HIDE DEF o
  <1>4. o.next \in Int /\ RX_START <= o.next /\ o.next <= RX_END
        /\ RX_START \in Int /\ RX_END \in Int /\ RX_END % 2 = 1 /\ RX_START < RX_END
    BY <1>1, RxAssumption, RingFacts
  <1>5. OneBefore(o.next) = IF o.next = RX_START THEN RX_END ELSE o.next - 1
    BY <1>4 DEF OneBefore
  <1>6. erxrdpt' % 2 = 1 /\ Base' = o.next
    <2>1. CASE o.next = RX_START BY <1>3, <1>4, <1>5, <2>1 DEF Base
    <2>2. CASE o.next # RX_START
      <3>1. erxrdpt' = o.next - 1 BY <1>3, <1>5, <2>2
      <3>2. (o.next - 1) % 2 = 1 BY <1>2, <1>4
      <3> QED BY <1>4, <3>1, <3>2 DEF Base
    <2> QED BY <2>1, <2>2
  <1>7. Pos(o.start) + Extent(Oldest) < RingSize
    <2>1. Pos(o.start) + Extent(Oldest) <= Pos(erxwrpt) BY <1>0 DEF Layout, o
    <2>2. Pos(erxwrpt) \in 0..(RingSize - 1) /\ Pos(o.start) \in 0..(RingSize - 1)
      BY <1>0, <1>1, DistFacts DEF Pos
    <2> QED BY <1>1, <2>1, <2>2, RingFacts
  <1>8. Dist(Base, o.next) = Pos(o.start) + Extent(Oldest)
    <2>1. Dist(Base, o.start) + Extent(Oldest) < RingSize BY <1>7 DEF Pos
    <2>2. Dist(Base, Wrap(o.start, Extent(Oldest))) = Dist(Base, o.start) + Extent(Oldest)
      BY <1>0, <1>1, <2>1, DistWrap, Zenon
    <2> QED BY <1>1, <2>2, Zenon DEF Pos
  <1> QED BY <1>0, <1>6, <1>8 DEF Pos, o

(* Storing a frame, releasing one and recovering keep the order.           *)
LEMMA StepLayout ==
    ASSUME RxType, Chain, Good, InStep', [Next]_vars PROVE Layout'
  <1> USE DEF Good
  <1>0. /\ Len(frames) \in Nat /\ epktcnt \in 0..Len(frames) /\ Oldest \in 1..(Len(frames) + 1)
        /\ erxwrpt \in Addresses /\ erxrdpt \in Addresses /\ Base \in Addresses
    BY StateFacts
  <1>p. \A n \in Protected :
           /\ n \in 1..Len(frames) /\ Extent(n) \in Nat
           /\ frames[n].start \in Addresses
           /\ Pos(frames[n].start) \in Nat
    <2> SUFFICES ASSUME NEW n \in Protected
                 PROVE  /\ n \in 1..Len(frames) /\ Extent(n) \in Nat
                        /\ frames[n].start \in Addresses
                        /\ Pos(frames[n].start) \in Nat
      OBVIOUS
    <2>1. n \in 1..Len(frames) /\ Extent(n) \in Nat /\ frames[n].start \in Addresses
      BY StateFacts, Zenon
    <2>2. Pos(frames[n].start) \in 0..(RingSize - 1) BY <1>0, <2>1, DistFacts, Zenon DEF Pos
    <2> QED BY <2>1, <2>2
  <1>w. Pos(erxwrpt) \in 0..(RingSize - 1) BY <1>0, DistFacts DEF Pos
  <1>1. ASSUME NEW len \in FrameLens, NEW ok \in BOOLEAN, FrameStored(len, ok)
        PROVE  Layout'
    <2> DEFINE f == Footprint(len)
    <2>1. /\ Base' = Base /\ f \in Nat /\ Dist(Base, erxwrpt') = Pos(erxwrpt) + f
      BY <1>1, StoredPosition, FootprintFacts DEF Layout
    <2>2. /\ Len(frames') = Len(frames) + 1 /\ erxrdpt' = erxrdpt /\ pc' = pc
          /\ epktcnt' = epktcnt + 1
          /\ \A n \in 1..Len(frames) : frames'[n] = frames[n]
          /\ frames'[Len(frames) + 1].start = erxwrpt
          /\ frames'[Len(frames) + 1].len = len
      <3>1. frames'[Len(frames) + 1] = [start |-> erxwrpt, len |-> len, ok |-> ok,
                                        next |-> Wrap(erxwrpt, Footprint(len))]
        BY <1>1, StoredFacts
      <3>2. /\ Len(frames') = Len(frames) + 1 /\ epktcnt' = epktcnt + 1
            /\ \A n \in 1..Len(frames) : frames'[n] = frames[n]
            /\ UNCHANGED <<erxrdpt, erdpt, rxerif, pc, hdr, dataId, got, astray>>
        BY <1>1, StoredFacts
      <3> QED BY <3>1, <3>2
    <2>3. \A n \in Protected' : n \in Protected \/ n = Len(frames) + 1
      BY <1>0, <2>2 DEF Protected, Oldest
    <2>4. \A n \in Protected : /\ Dist(Base', frames'[n].start) = Pos(frames[n].start)
                               /\ Extent(n)' = Extent(n)
      BY <1>p, <2>1, <2>2 DEF Extent, Pos
    <2>5. /\ Dist(Base', frames'[Len(frames) + 1].start) = Pos(erxwrpt)
          /\ Footprint(frames'[Len(frames) + 1].len) = f
      BY <2>1, <2>2 DEF Pos
    <2> HIDE DEF f
    <2>6. erxrdpt' % 2 = 1 BY <2>2 DEF Layout
    <2>7. ASSUME NEW n \in Protected'
          PROVE  Dist(Base', frames'[n].start) + Extent(n)' <= Dist(Base', erxwrpt')
      <3>1. CASE n \in Protected
        <4>1. Pos(frames[n].start) + Extent(n) <= Pos(erxwrpt) BY <3>1 DEF Layout
        <4> QED BY <1>p, <1>w, <2>1, <2>4, <3>1, <4>1
      <3>2. CASE n = Len(frames) + 1
        <4>1. Extent(n)' = f BY <2>5, <3>2 DEF Extent
        <4> QED BY <1>w, <2>1, <2>5, <3>2, <4>1
      <3> QED BY <2>3, <3>1, <3>2
    <2>8. ASSUME NEW m \in Protected', NEW n \in Protected', m < n
          PROVE  Dist(Base', frames'[m].start) + Extent(m)' <= Dist(Base', frames'[n].start)
      <3>0. n \in 1..(Len(frames) + 1) /\ m \in 1..(Len(frames) + 1)
        BY <1>0, <1>p, <2>3
      <3>1. m \in Protected BY <1>0, <2>3, <2>8, <3>0
      <3>2. CASE n \in Protected
        <4>1. Pos(frames[m].start) + Extent(m) <= Pos(frames[n].start)
          BY <2>8, <3>1, <3>2 DEF Layout
        <4> QED BY <2>4, <3>1, <3>2, <4>1
      <3>3. CASE n = Len(frames) + 1
        <4>1. Pos(frames[m].start) + Extent(m) <= Pos(erxwrpt) BY <3>1 DEF Layout
        <4> QED BY <2>4, <2>5, <3>1, <3>3, <4>1
      <3> QED BY <2>3, <3>2, <3>3
    <2> QED BY <2>6, <2>7, <2>8 DEF Layout, Pos
  <1>2. CASE Release
    <2>0. pc = "release" /\ epktcnt > 0 /\ hdr = frames[Oldest] /\ Layout
      BY <1>2 DEF Release, InCall
    <2>1. /\ Oldest \in Protected /\ Base' = frames[Oldest].next
          /\ Pos(Base') = Pos(frames[Oldest].start) + Extent(Oldest)
          /\ erxrdpt' % 2 = 1
      BY <1>2, <2>0, ReleasedBase
    <2>2. Base' \in Addresses BY <2>1, <1>p, StateFacts
    <2>3. /\ UNCHANGED <<frames, erxwrpt, epktcnt>> /\ pc' = "decrement"
      BY <1>2 DEF Release, chipVars
    <2>4. \A n \in Protected' : n \in Protected /\ Oldest < n
      BY <1>0, <2>0, <2>3 DEF Protected, Oldest
    <2>5. \A a \in Addresses : Pos(Base') <= Pos(a) => Dist(Base', a) = Pos(a) - Pos(Base')
      BY <1>0, <2>2, DistRebase DEF Pos
    <2>6. \A n \in Protected' :
             /\ Dist(Base', frames[n].start) = Pos(frames[n].start) - Pos(Base')
             /\ Pos(Base') <= Pos(frames[n].start)
      BY <1>p, <2>1, <2>4, <2>5 DEF Layout
    <2>7. Pos(Base') \in Nat BY <1>0, <2>2, DistFacts DEF Pos
    <2>8. \A n \in Protected' : Extent(n)' = Extent(n) BY <2>3 DEF Extent
    <2>9. ASSUME NEW n \in Protected'
          PROVE  Dist(Base', frames[n].start) + Extent(n) <= Dist(Base', erxwrpt)
      <3>1. Pos(frames[n].start) + Extent(n) <= Pos(erxwrpt) BY <2>4 DEF Layout
      <3>2. Pos(frames[n].start) \in Nat /\ Extent(n) \in Nat BY <1>p, <2>4
      <3>3. Dist(Base', erxwrpt) = Pos(erxwrpt) - Pos(Base')
        BY <1>0, <1>w, <2>5, <2>6, <2>7, <3>1, <3>2
      <3>4. Dist(Base', frames[n].start) = Pos(frames[n].start) - Pos(Base') BY <2>6
      <3> QED BY <1>w, <2>7, <3>1, <3>2, <3>3, <3>4
    <2>10. ASSUME NEW m \in Protected', NEW n \in Protected', m < n
           PROVE  Dist(Base', frames[m].start) + Extent(m) <= Dist(Base', frames[n].start)
      <3>1. Pos(frames[m].start) + Extent(m) <= Pos(frames[n].start)
        BY <2>4, <2>10 DEF Layout
      <3>2. /\ Pos(frames[m].start) \in Nat /\ Extent(m) \in Nat
            /\ Pos(frames[n].start) \in Nat
        BY <1>p, <2>4
      <3>3. /\ Dist(Base', frames[m].start) = Pos(frames[m].start) - Pos(Base')
            /\ Dist(Base', frames[n].start) = Pos(frames[n].start) - Pos(Base')
        BY <2>6
      <3> QED BY <2>7, <3>1, <3>2, <3>3
    <2> QED BY <2>1, <2>3, <2>8, <2>9, <2>10 DEF Layout, Pos
  <1>3. CASE Decrement
    <2>1. /\ pc = "decrement" /\ pc' = "idle" /\ epktcnt > 0 /\ epktcnt' = epktcnt - 1
          /\ UNCHANGED <<frames, erxwrpt, erxrdpt>>
      BY <1>0, <1>3 DEF Decrement, InCall
    <2>2. Protected' = Protected BY <1>0, <2>1 DEF Protected, Oldest
    <2> QED BY <2>1, <2>2 DEF Layout, Pos, Base, Extent
  <1>4. CASE Recover
    <2>1. /\ UNCHANGED <<frames, erxwrpt, epktcnt>> /\ erxrdpt' = RX_END
          /\ pc = "recover" /\ pc' = "clear" /\ ~Exposed
      <3>1. InStep BY InStepStable
      <3> QED BY <1>4, <3>1 DEF Recover, InStep, chipVars
    <2>2. Protected' = Protected /\ Base' = RX_START
      BY <2>1 DEF Protected, Oldest, Base
    <2>3. CASE epktcnt = 0
      <3>1. Protected' = {} BY <1>0, <2>1, <2>3 DEF Protected, Oldest
      <3> QED BY <2>1, <3>1, RxAssumption DEF Layout
    <2>4. CASE epktcnt > 0
      <3> DEFINE c == frames[Oldest].start
      <3>1. /\ Oldest \in Protected /\ c \in Addresses /\ c <= erxwrpt
            /\ \A n \in Protected : n = Oldest \/ Oldest < n
        <4>1. Oldest \in Protected /\ \A n \in Protected : n = Oldest \/ Oldest < n
          BY <1>0, <2>1, <2>4 DEF Protected, Oldest
        <4>2. c \in Addresses BY <1>p, <4>1
        <4>3. ~(c > erxwrpt) BY <2>1, <2>4 DEF Exposed
        <4> QED BY <1>0, <4>1, <4>2, <4>3, RingFacts
      <3>2. \A n \in Protected : Pos(c) <= Pos(frames[n].start)
        <4> SUFFICES ASSUME NEW n \in Protected PROVE Pos(c) <= Pos(frames[n].start)
          OBVIOUS
        <4>1. CASE n = Oldest BY <1>p, <4>1
        <4>2. CASE Oldest < n
          <5>1. Pos(c) + Extent(Oldest) <= Pos(frames[n].start)
            BY <3>1, <4>2 DEF Layout
          <5> QED BY <1>p, <3>1, <5>1
        <4> QED BY <3>1, <4>1, <4>2
      <3>3. \A n \in Protected : Pos(frames[n].start) + Extent(n) <= Pos(erxwrpt)
        BY DEF Layout
      <3> HIDE DEF c
      <3>4. Pos(c) \in 0..(RingSize - 1) BY <1>0, <3>1, DistFacts DEF Pos
      <3>5. \A a \in Addresses : Pos(c) <= Pos(a) => Dist(c, a) = Pos(a) - Pos(c)
        BY <1>0, <3>1, DistRebase DEF Pos
      <3>6. Pos(c) <= Pos(erxwrpt)
        BY <1>p, <1>w, <3>1, <3>2, <3>3, <3>4
      <3>7. Dist(c, erxwrpt) = Pos(erxwrpt) - Pos(c) BY <1>0, <3>5, <3>6
      <3>8. \A a \in Addresses : Pos(c) <= Pos(a) /\ Pos(a) <= Pos(erxwrpt) =>
               Dist(RX_START, a) = Pos(a) - Pos(c) + (c - RX_START)
        <4> SUFFICES ASSUME NEW a \in Addresses, Pos(c) <= Pos(a), Pos(a) <= Pos(erxwrpt)
                     PROVE  Dist(RX_START, a) = Pos(a) - Pos(c) + (c - RX_START)
          OBVIOUS
        <4>1. Pos(a) \in 0..(RingSize - 1) BY <1>0, DistFacts DEF Pos
        <4>2. Dist(c, a) = Pos(a) - Pos(c) BY <3>5
        <4>3. Dist(c, a) <= Dist(c, erxwrpt)
          BY <1>w, <3>4, <3>7, <4>1, <4>2, RingFacts
        <4>4. Dist(RX_START, a) = Dist(c, a) + (c - RX_START)
          BY <1>0, <3>1, <4>3, DistStraight
        <4> QED BY <4>2, <4>4
      <3>9. Dist(RX_START, erxwrpt) = Pos(erxwrpt) - Pos(c) + (c - RX_START)
        BY <1>0, <1>w, <3>6, <3>8
      <3>10. \A n \in Protected : Dist(RX_START, frames[n].start) =
                                     Pos(frames[n].start) - Pos(c) + (c - RX_START)
        <4> SUFFICES ASSUME NEW n \in Protected
                     PROVE  Dist(RX_START, frames[n].start) =
                               Pos(frames[n].start) - Pos(c) + (c - RX_START)
          OBVIOUS
        <4>1. Pos(frames[n].start) <= Pos(erxwrpt) BY <1>p, <1>w, <3>3
        <4>2. frames[n].start \in Addresses BY <1>p
        <4> QED BY <3>2, <3>8, <4>1, <4>2
      <3>c. c \in Int /\ RX_START \in Int BY <3>1, RingFacts
      <3>11. ASSUME NEW n \in Protected
             PROVE  Dist(RX_START, frames[n].start) + Extent(n) <= Dist(RX_START, erxwrpt)
        <4>1. Pos(frames[n].start) \in Nat /\ Extent(n) \in Nat BY <1>p
        <4>2. Pos(frames[n].start) + Extent(n) <= Pos(erxwrpt) BY <3>3
        <4>3. Dist(RX_START, frames[n].start) =
                 Pos(frames[n].start) - Pos(c) + (c - RX_START)
          BY <3>10
        <4> QED BY <1>w, <3>4, <3>9, <3>c, <4>1, <4>2, <4>3
      <3>12. ASSUME NEW m \in Protected, NEW n \in Protected, m < n
             PROVE  Dist(RX_START, frames[m].start) + Extent(m)
                       <= Dist(RX_START, frames[n].start)
        <4>1. /\ Pos(frames[n].start) \in Nat /\ Pos(frames[m].start) \in Nat
              /\ Extent(m) \in Nat
          BY <1>p
        <4>2. Pos(frames[m].start) + Extent(m) <= Pos(frames[n].start)
          BY <3>12 DEF Layout
        <4>3. /\ Dist(RX_START, frames[m].start) =
                    Pos(frames[m].start) - Pos(c) + (c - RX_START)
              /\ Dist(RX_START, frames[n].start) =
                    Pos(frames[n].start) - Pos(c) + (c - RX_START)
          BY <3>10
        <4> QED BY <3>4, <3>c, <4>1, <4>2, <4>3
      <3> QED BY <2>1, <2>2, <3>11, <3>12, RxAssumption DEF Layout, Pos, Extent
    <2> QED BY <1>0, <2>3, <2>4
  <1>5. CASE /\ UNCHANGED <<ring, frames, erxwrpt, erxrdpt, epktcnt>>
             /\ pc' = "decrement" <=> pc = "decrement"
    <2>1. Protected' = Protected BY <1>5 DEF Protected, Oldest
    <2> QED BY <1>5, <2>1 DEF Layout, Pos, Base, Extent
  <1> QED BY <1>1, <1>2, <1>3, <1>4, <1>5, StepCases

-----------------------------------------------------------------------------
(* The bytes of the frames.                                                *)

(* A frame that is stored overwrites no protected one; nothing else writes *)
(* to the ring, and the protected frames only get fewer.                   *)
LEMMA StepIntact ==
    ASSUME RxType, Chain, Good, [Next]_vars PROVE Intact'
  <1> USE DEF Good
  <1>0. /\ Len(frames) \in Nat /\ epktcnt \in 0..Len(frames) /\ Oldest \in 1..(Len(frames) + 1)
        /\ erxwrpt \in Addresses /\ Base \in Addresses
    BY StateFacts
  <1>1. ASSUME NEW len \in FrameLens, NEW ok \in BOOLEAN, FrameStored(len, ok)
        PROVE  Intact'
    <2> DEFINE f == Footprint(len)
    <2>1. f \in 0..RingSize /\ Pos(erxwrpt) + f < RingSize
      BY <1>1, StoredPosition DEF Layout
    <2>2. /\ Len(frames') = Len(frames) + 1 /\ pc' = pc /\ epktcnt' = epktcnt + 1
          /\ \A n \in 1..Len(frames) : frames'[n] = frames[n]
      BY <1>1, StoredFacts
    <2>3. frames'[Len(frames) + 1] = [start |-> erxwrpt, len |-> len, ok |-> ok,
                                      next |-> Wrap(erxwrpt, Footprint(len))]
      BY <1>1, StoredFacts
    <2>4. \A n \in Protected' : n \in Protected \/ n = Len(frames) + 1
      BY <1>0, <2>2 DEF Protected, Oldest
    <2>5. \A a \in Addresses : ring'[a] = IF a \in Region(erxwrpt, f)
                                          THEN Len(frames) + 1 ELSE ring[a]
      BY <1>1 DEF FrameStored
    <2>6. \A a \in Addresses : a \in Region(erxwrpt, f) <=> Dist(erxwrpt, a) < f
      BY <1>0, <2>1, RegionFacts, Zenon
    <2> HIDE DEF f
    <2>7. ASSUME NEW n \in Protected, NEW a \in Addresses,
                 Dist(frames[n].start, a) < Extent(n)
          PROVE  ring'[a] = n
      <3>1. /\ n \in 1..Len(frames) /\ Extent(n) \in Nat /\ frames[n].start \in Addresses
        BY StateFacts
      <3>2. Pos(frames[n].start) + Extent(n) <= Pos(erxwrpt) BY DEF Layout
      <3>3. /\ Pos(frames[n].start) \in 0..(RingSize - 1)
            /\ Pos(erxwrpt) \in 0..(RingSize - 1)
            /\ Dist(frames[n].start, a) \in 0..(RingSize - 1)
            /\ Dist(erxwrpt, a) \in 0..(RingSize - 1)
        BY <1>0, <3>1, DistFacts, Zenon DEF Pos
      <3>4. Pos(a) = Pos(frames[n].start) + Dist(frames[n].start, a)
        <4>1. Pos(frames[n].start) + Dist(frames[n].start, a) < RingSize
          BY <2>7, <3>1, <3>2, <3>3, RingFacts
        <4> QED BY <1>0, <3>1, <4>1, DistAdd, Zenon DEF Pos
      <3>5. Pos(a) < Pos(erxwrpt) BY <2>7, <3>1, <3>2, <3>3, <3>4, RingFacts
      <3>6. a \notin Region(erxwrpt, f)
        <4>1. SUFFICES ASSUME Dist(erxwrpt, a) < f PROVE FALSE BY <2>6
        <4>2. Pos(erxwrpt) + Dist(erxwrpt, a) < RingSize
          BY <2>1, <3>3, <4>1, RingFacts
        <4>3. Pos(a) = Pos(erxwrpt) + Dist(erxwrpt, a)
          BY <1>0, <4>2, DistAdd, Zenon DEF Pos
        <4> QED BY <3>3, <3>5, <4>3, RingFacts
      <3>7. ring[a] = n BY <2>7 DEF Intact
      <3> QED BY <2>5, <3>6, <3>7
    <2>8. ASSUME NEW n \in Protected', NEW a \in Addresses,
                 Dist(frames'[n].start, a) < Extent(n)'
          PROVE  ring'[a] = n
      <3>1. CASE n \in Protected
        <4>1. frames'[n] = frames[n] BY <2>2, <3>1, StateFacts
        <4>2. Dist(frames[n].start, a) < Extent(n) BY <2>8, <4>1 DEF Extent
        <4> QED BY <2>7, <3>1, <4>2
      <3>2. CASE n = Len(frames) + 1
        <4>1. frames'[n].start = erxwrpt /\ Extent(n)' = f
          BY <2>3, <3>2 DEF Extent, f
        <4>2. Dist(erxwrpt, a) < f BY <2>8, <4>1
        <4> QED BY <2>5, <2>6, <3>2, <4>2
      <3> QED BY <2>4, <3>1, <3>2
    <2> QED BY <2>8 DEF Intact
  <1>2. ASSUME UNCHANGED <<ring, frames>>, Protected' \subseteq Protected PROVE Intact'
    BY <1>2 DEF Intact, Extent
  <1>3. CASE Release
    <2>1. UNCHANGED <<ring, frames, epktcnt>> /\ pc = "release" /\ pc' = "decrement"
      BY <1>3 DEF Release, chipVars
    <2>2. Protected' \subseteq Protected BY <1>0, <2>1 DEF Protected, Oldest
    <2> QED BY <1>2, <2>1, <2>2
  <1>4. CASE Decrement
    <2>1. /\ pc = "decrement" /\ pc' = "idle" /\ epktcnt > 0 /\ epktcnt' = epktcnt - 1
          /\ UNCHANGED <<ring, frames>>
      BY <1>0, <1>4 DEF Decrement, InCall
    <2>2. Protected' = Protected BY <1>0, <2>1 DEF Protected, Oldest
    <2> QED BY <1>2, <2>1, <2>2
  <1>5. CASE Recover
    <2>1. UNCHANGED <<ring, frames, epktcnt>> /\ pc = "recover" /\ pc' = "clear"
      BY <1>5 DEF Recover, chipVars
    <2>2. Protected' = Protected BY <2>1 DEF Protected, Oldest
    <2> QED BY <1>2, <2>1, <2>2
  <1>6. CASE /\ UNCHANGED <<ring, frames, erxwrpt, erxrdpt, epktcnt>>
             /\ pc' = "decrement" <=> pc = "decrement"
    <2>1. Protected' = Protected BY <1>6 DEF Protected, Oldest
    <2> QED BY <1>2, <1>6, <2>1
  <1> QED BY <1>1, <1>3, <1>4, <1>5, <1>6, StepCases

-----------------------------------------------------------------------------
(* The call of enc28_read_packet.                                          *)

(* The oldest frame is protected and intact until it is copied.            *)
LEMMA OldestFacts ==
    ASSUME RxType, Chain, Good, epktcnt > 0, pc # "decrement"
    PROVE  /\ Oldest \in 1..Len(frames) /\ StartOf(Oldest) = frames[Oldest].start
           /\ frames[Oldest].start \in Addresses /\ frames[Oldest].len \in FrameLens
           /\ frames[Oldest].next = StartOf(Oldest + 1)
           /\ Extent(Oldest) < RingSize /\ Extent(Oldest) \in Nat
           /\ Extent(Oldest) >= HeaderLen + frames[Oldest].len
           /\ \A a \in Addresses :
                 Dist(frames[Oldest].start, a) < Extent(Oldest) => ring[a] = Oldest
  <1>1. Oldest \in 1..Len(frames) /\ Oldest \in Protected
    BY StateFacts DEF Oldest, Protected
  <1>2. StartOf(Oldest) = frames[Oldest].start BY <1>1, StateFacts DEF StartOf
  <1>4. \A a \in Addresses :
           Dist(frames[Oldest].start, a) < Extent(Oldest) => ring[a] = Oldest
    BY <1>1, Zenon DEF Good, Intact
  <1>5. Extent(Oldest) < RingSize /\ frames[Oldest].next = StartOf(Oldest + 1)
    BY <1>1, Zenon DEF Chain
  <1> QED BY <1>1, <1>2, <1>4, <1>5, StateFacts

(* The header that is read there is the one of the oldest frame.           *)
LEMMA OldestHeader ==
    ASSUME RxType, Chain, Good, epktcnt > 0, pc = "header"
    PROVE  /\ erdpt = frames[Oldest].start /\ erdpt \in Addresses
           /\ HeadersAt(erdpt) = {frames[Oldest]}
  <1>1. /\ Oldest \in 1..Len(frames) /\ StartOf(Oldest) = frames[Oldest].start
        /\ frames[Oldest].start \in Addresses /\ frames[Oldest].len \in FrameLens
        /\ Extent(Oldest) < RingSize /\ Extent(Oldest) \in Nat
        /\ Extent(Oldest) >= HeaderLen + frames[Oldest].len
        /\ \A a \in Addresses :
              Dist(frames[Oldest].start, a) < Extent(Oldest) => ring[a] = Oldest
    BY OldestFacts
  <1>2. erdpt = frames[Oldest].start /\ erdpt \in Addresses
    BY <1>1 DEF Good, InCall
  <1>3. frames[Oldest].len \in Nat BY <1>1, FootprintFacts
  <1>4. HeaderLen \in 0..RingSize /\ HeaderLen <= Extent(Oldest) /\ HeaderLen > 0
    BY <1>1, <1>3, RingFacts DEF HeaderLen
  <1>5. \A b \in Region(erdpt, HeaderLen) : ring[b] = Oldest
    <2> SUFFICES ASSUME NEW b \in Region(erdpt, HeaderLen) PROVE ring[b] = Oldest
      OBVIOUS
    <2>1. b \in Addresses /\ Dist(erdpt, b) < HeaderLen BY <1>2, <1>4, RegionFacts, Zenon
    <2>2. Dist(erdpt, b) \in Int BY <1>2, <2>1, DistFacts
    <2>3. Dist(erdpt, b) < Extent(Oldest) BY <1>1, <1>4, <2>1, <2>2 DEF HeaderLen
    <2> QED BY <1>1, <1>2, <2>1, <2>3
  <1>6. ring[erdpt] = Oldest
    <2>1. Dist(erdpt, erdpt) = 0 BY <1>2, RingFacts DEF Dist
    <2>2. Dist(erdpt, erdpt) < Extent(Oldest) BY <1>1, <1>4, <2>1 DEF HeaderLen
    <2> QED BY <1>1, <1>2, <2>2
  <1>7. Oldest > 0 BY <1>1, StateFacts
  <1> QED BY <1>2, <1>5, <1>6, <1>7 DEF HeadersAt

(* The bytes that are copied behind it are its own.                        *)
LEMMA OldestData ==
    ASSUME RxType, Chain, Good, epktcnt > 0, pc = "data",
           erdpt = Wrap(frames[Oldest].start, HeaderLen), hdr = frames[Oldest]
    PROVE  {ring[b] : b \in Region(erdpt, hdr.len)} = {Oldest}
  <1> DEFINE s == frames[Oldest].start
             len == frames[Oldest].len
  <1>1. /\ Oldest \in 1..Len(frames) /\ s \in Addresses /\ len \in FrameLens
        /\ Extent(Oldest) < RingSize /\ Extent(Oldest) \in Nat
        /\ Extent(Oldest) >= HeaderLen + len
        /\ \A a \in Addresses : Dist(s, a) < Extent(Oldest) => ring[a] = Oldest
    BY OldestFacts
  <1>2. len \in Nat /\ len >= 1 BY <1>1, FootprintFacts
  <1>h. hdr.len = len /\ erdpt = Wrap(s, HeaderLen) OBVIOUS
  <1> HIDE DEF s, len
  <1>3. len \in 0..RingSize /\ HeaderLen \in Nat BY <1>1, <1>2, RingFacts DEF HeaderLen
  <1>4. erdpt \in Addresses BY <1>1, <1>3, <1>h, WrapType
  <1>5. Dist(s, erdpt) = HeaderLen
    <2>1. Dist(s, s) = 0 BY <1>1, RingFacts DEF Dist
    <2>2. Dist(s, s) + HeaderLen < RingSize
      BY <1>1, <1>2, <2>1, RingFacts DEF HeaderLen
    <2>3. Dist(s, erdpt) = Dist(s, s) + HeaderLen
      BY <1>1, <1>3, <1>h, <2>2, DistWrap, Zenon
    <2> QED BY <2>1, <2>3 DEF HeaderLen
  <1>6. ASSUME NEW b \in Region(erdpt, len) PROVE ring[b] = Oldest
    <2>1. b \in Addresses /\ Dist(erdpt, b) < len BY <1>3, <1>4, RegionFacts, Zenon
    <2>2. Dist(erdpt, b) \in Nat BY <1>4, <2>1, DistFacts
    <2>3. Dist(s, erdpt) + Dist(erdpt, b) < Extent(Oldest)
      BY <1>1, <1>2, <1>5, <2>1, <2>2 DEF HeaderLen
    <2>4. Dist(s, erdpt) + Dist(erdpt, b) < RingSize
      BY <1>1, <1>5, <2>2, <2>3, RingFacts DEF HeaderLen
    <2>5. Dist(s, b) = Dist(s, erdpt) + Dist(erdpt, b)
      BY <1>1, <1>4, <2>1, <2>4, DistAdd, Zenon
    <2> QED BY <1>1, <2>1, <2>3, <2>5
  <1>7. erdpt \in Region(erdpt, len)
    <2>1. Dist(erdpt, erdpt) = 0 BY <1>4, RingFacts DEF Dist
    <2>2. Dist(erdpt, erdpt) < len BY <1>2, <2>1
    <2> QED BY <1>3, <1>4, <2>2, RegionFacts, Zenon
  <1>8. {ring[b] : b \in Region(erdpt, len)} = {Oldest} BY <1>6, <1>7
  <1> QED BY <1>8, <1>h

(* Storing a frame moves neither the frames nor the next start.            *)
LEMMA StartStable ==
    ASSUME RxType, NEW len \in FrameLens, NEW ok \in BOOLEAN, FrameStored(len, ok),
           NEW n \in 1..(Len(frames) + 1)
    PROVE  (IF n <= Len(frames') THEN frames'[n].start ELSE erxwrpt') = StartOf(n)
  <1>1. /\ Len(frames') = Len(frames) + 1 /\ Len(frames) \in Nat
        /\ \A k \in 1..Len(frames) : frames'[k] = frames[k]
    BY StoredFacts, StateFacts
  <1>2. frames'[Len(frames) + 1] = [start |-> erxwrpt, len |-> len, ok |-> ok,
                                    next |-> Wrap(erxwrpt, Footprint(len))]
    BY StoredFacts
  <1>3. frames'[Len(frames) + 1].start = erxwrpt BY <1>2
  <1>4. CASE n \in 1..Len(frames) BY <1>1, <1>4 DEF StartOf
  <1>5. CASE n = Len(frames) + 1 BY <1>1, <1>3, <1>5 DEF StartOf
  <1> QED BY <1>1, <1>4, <1>5

(* The driver stays with the oldest frame, whatever the chip does between  *)
(* two of its steps.                                                       *)
LEMMA StepInCall ==
    ASSUME RxType, Chain, Good, InStep, InStep', [Next]_vars PROVE InCall'
  <1>0. /\ Len(frames) \in Nat /\ epktcnt \in 0..Len(frames)
        /\ Oldest \in 1..(Len(frames) + 1) /\ Oldest = Len(frames) - epktcnt + 1
    BY StateFacts DEF Oldest
  <1>i. InCall BY DEF Good
  <1>1. ASSUME NEW len \in FrameLens, NEW ok \in BOOLEAN, FrameStored(len, ok)
        PROVE  InCall'
    <2>1. /\ Len(frames') = Len(frames) + 1 /\ epktcnt' = epktcnt + 1
          /\ \A n \in 1..Len(frames) : frames'[n] = frames[n]
          /\ UNCHANGED <<erdpt, pc, hdr, dataId, got>>
      BY <1>1, StoredFacts
    <2>2. Oldest' = Oldest BY <1>0, <2>1 DEF Oldest
    <2>4. StartOf(Oldest)' = StartOf(Oldest)
      <3>1. (IF Oldest <= Len(frames') THEN frames'[Oldest].start ELSE erxwrpt')
               = StartOf(Oldest)
        BY <1>0, <1>1, StartStable
      <3> QED BY <2>2, <3>1 DEF StartOf
    <2>5. epktcnt > 0 => StartOf(Oldest + 1)' = StartOf(Oldest + 1)
      <3>1. SUFFICES ASSUME epktcnt > 0
                     PROVE  StartOf(Oldest + 1)' = StartOf(Oldest + 1)
        OBVIOUS
      <3>2. Oldest + 1 \in 1..(Len(frames) + 1) BY <1>0, <3>1
      <3>3. (IF Oldest + 1 <= Len(frames') THEN frames'[Oldest + 1].start ELSE erxwrpt')
               = StartOf(Oldest + 1)
        BY <1>1, <3>2, StartStable
      <3> QED BY <2>2, <3>3 DEF StartOf
    <2>6. epktcnt > 0 => frames'[Oldest] = frames[Oldest] BY <1>0, <2>1
    <2>7. epktcnt' > 0 BY <1>0, <2>1
    <2> QED BY <1>0, <1>i, <2>1, <2>2, <2>4, <2>5, <2>6, <2>7 DEF InCall
  <1>2. CASE ReadEir
    <2>2. /\ pc = "idle" /\ UNCHANGED <<frames, erxwrpt, epktcnt, erdpt, hdr, dataId, got>>
          /\ \E pktif \in Pktif :
                pc' = IF pktif THEN "header" ELSE IF rxerif THEN "recover" ELSE "idle"
      BY <1>2 DEF ReadEir, chipVars
    <2>3. pc' \in {"header", "recover", "idle"} /\ (pc' = "header" => epktcnt > 0)
      BY <1>0, <2>2 DEF Pktif
    <2>4. Oldest' = Oldest /\ StartOf(Oldest)' = StartOf(Oldest)
      BY <2>2 DEF Oldest, StartOf
    <2> QED BY <1>0, <1>i, <2>2, <2>3, <2>4 DEF InCall
  <1>3. CASE ReadPtrOutOfRange
    <2>1. pc = "header" /\ erdpt \notin Addresses BY <1>3 DEF ReadPtrOutOfRange
    <2>2. epktcnt > 0 BY <1>i, <2>1 DEF InCall
    <2> QED BY <2>1, <2>2, OldestHeader
  <1>4. CASE ReadHeader
    <2>1. /\ pc = "header" /\ UNCHANGED <<frames, erxwrpt, epktcnt, dataId, got>>
          /\ hdr' \in HeadersAt(erdpt) /\ erdpt' = Wrap(erdpt, HeaderLen)
          /\ pc' = IF hdr'.ok /\ hdr'.len <= BufSize THEN "data" ELSE "idle"
      BY <1>4 DEF ReadHeader, chipVars
    <2>2. epktcnt > 0 BY <1>i, <2>1 DEF InCall
    <2>3. hdr' = frames[Oldest] /\ erdpt = frames[Oldest].start
      BY <2>1, <2>2, OldestHeader
    <2>5. pc' = "data"
      <3>1. astray' = IF pc' = "idle" /\ InStep THEN "error" ELSE astray
        BY <1>4 DEF ReadHeader
      <3> QED BY <2>1, <3>1 DEF InStep
    <2>6. Oldest' = Oldest BY <2>1 DEF Oldest
    <2> QED BY <1>i, <2>1, <2>2, <2>3, <2>5, <2>6 DEF InCall
  <1>5. CASE ReadData
    <2>1. /\ pc = "data" /\ pc' = "skip"
          /\ UNCHANGED <<frames, erxwrpt, epktcnt, hdr, got>>
          /\ dataId' = LET owners == {ring[b] : b \in Region(erdpt, hdr.len)}
                       IN  IF \E n \in owners : owners = {n}
                           THEN CHOOSE n \in owners : TRUE ELSE 0
      BY <1>5 DEF ReadData, chipVars
    <2>2. epktcnt > 0 /\ hdr = frames[Oldest] /\ erdpt = Wrap(frames[Oldest].start, HeaderLen)
      BY <1>i, <2>1 DEF InCall
    <2>3. {ring[b] : b \in Region(erdpt, hdr.len)} = {Oldest}
      BY <2>1, <2>2, OldestData
    <2>4. dataId' = Oldest
      <3>1. dataId' = IF \E n \in {Oldest} : {Oldest} = {n}
                      THEN CHOOSE n \in {Oldest} : TRUE ELSE 0
        BY <2>1, <2>3
      <3>2. (CHOOSE n \in {Oldest} : TRUE) \in {Oldest} OBVIOUS
      <3> QED BY <3>1, <3>2
    <2>5. Oldest' = Oldest BY <2>1 DEF Oldest
    <2> QED BY <1>i, <2>1, <2>2, <2>4, <2>5 DEF InCall
  <1>6. CASE Skip
    <2>1. /\ pc = "skip" /\ pc' = "release" /\ erdpt' = hdr.next
          /\ UNCHANGED <<frames, erxwrpt, epktcnt, hdr, dataId, got>>
      BY <1>6 DEF Skip, chipVars
    <2>2. epktcnt > 0 /\ hdr = frames[Oldest] /\ dataId = Oldest
      BY <1>i, <2>1 DEF InCall
    <2>3. erdpt' = StartOf(Oldest + 1) BY <2>1, <2>2, OldestFacts
    <2>4. Oldest' = Oldest /\ StartOf(Oldest + 1)' = StartOf(Oldest + 1)
      BY <2>1 DEF Oldest, StartOf
    <2> QED BY <1>i, <2>1, <2>2, <2>3, <2>4 DEF InCall
  <1>7. CASE Release
    <2>1. /\ pc = "release" /\ pc' = "decrement"
          /\ UNCHANGED <<frames, erxwrpt, epktcnt, erdpt, hdr, dataId, got>>
      BY <1>7 DEF Release, chipVars
    <2>2. Oldest' = Oldest /\ StartOf(Oldest + 1)' = StartOf(Oldest + 1)
      BY <2>1 DEF Oldest, StartOf
    <2> QED BY <1>i, <2>1, <2>2 DEF InCall
  <1>8. CASE Decrement
    <2>1. /\ pc = "decrement" /\ pc' = "idle" /\ got' = dataId
          /\ epktcnt' = IF epktcnt > 0 THEN epktcnt - 1 ELSE 0
          /\ UNCHANGED <<frames, erxwrpt, erdpt, hdr, dataId>>
      BY <1>8 DEF Decrement
    <2>2. epktcnt > 0 /\ dataId = Oldest /\ erdpt = StartOf(Oldest + 1)
      BY <1>i, <2>1 DEF InCall
    <2>3. Oldest' = Oldest + 1 BY <1>0, <2>1, <2>2 DEF Oldest
    <2>4. StartOf(Oldest)' = StartOf(Oldest + 1) BY <2>1, <2>3 DEF StartOf
    <2> QED BY <1>0, <2>1, <2>2, <2>3, <2>4 DEF InCall
  <1>9. CASE Recover \/ ClearRxerif
    <2>1. /\ pc \in {"recover", "clear"} /\ pc' \in {"clear", "idle"}
          /\ UNCHANGED <<frames, erxwrpt, epktcnt, erdpt, hdr, dataId, got>>
      BY <1>9 DEF Recover, ClearRxerif, chipVars
    <2>2. Oldest' = Oldest /\ StartOf(Oldest)' = StartOf(Oldest)
      BY <2>1 DEF Oldest, StartOf
    <2> QED BY <1>i, <2>1, <2>2 DEF InCall
  <1>10. ASSUME UNCHANGED <<frames, erxwrpt, epktcnt, erdpt, pc, hdr, dataId, got>>
         PROVE  InCall'
    BY <1>i, <1>10 DEF InCall, Oldest, StartOf
  <1>11. ASSUME NEW len \in FrameLens, FrameRefused(len) PROVE InCall'
    BY <1>10, <1>11 DEF FrameRefused, chipVars
  <1>12. CASE UNCHANGED vars BY <1>10, <1>12 DEF vars
  <1>13. TRUE \in BOOLEAN /\ FALSE \in BOOLEAN OBVIOUS
  <1> QED BY <1>1, <1>2, <1>3, <1>4, <1>5, <1>6, <1>7, <1>8, <1>9, <1>11, <1>12, <1>13,
             Zenon DEF Next, ReadPacket

-----------------------------------------------------------------------------
(* The invariant, and what follows from it.                                *)

(* Before the first frame the driver is in step.                           *)
LEMMA InitInv == Init => RxInv
  <1> SUFFICES ASSUME Init PROVE RxInv OBVIOUS
  <1>1. /\ Len(frames) = 0 /\ epktcnt = 0 /\ erxwrpt = RX_START /\ erxrdpt = RX_END
        /\ erdpt = RX_START /\ pc = "idle" /\ got = 0
    BY DEF Init
  <1>2. Oldest = 1 /\ Protected = {} BY <1>1 DEF Oldest, Protected
  <1>4. Layout /\ Intact BY <1>1, <1>2, RxAssumption DEF Layout, Intact
  <1>5. InCall BY <1>1, <1>2 DEF InCall, StartOf
  <1> QED BY <1>4, <1>5, InitType, InitChain DEF RxInv, Good

(* Every step keeps the invariant.                                         *)
LEMMA StepInv == RxInv /\ [Next]_vars => RxInv'
  <1> SUFFICES ASSUME RxInv, [Next]_vars PROVE RxInv' OBVIOUS
  <1>1. RxType /\ Chain BY DEF RxInv
  <1>2. RxType' /\ Chain' BY <1>1, StepType, StepChain
  <1>3. ASSUME InStep' PROVE Good'
    <2>1. InStep BY <1>3, InStepStable
    <2>2. Good BY <2>1 DEF RxInv
    <2> QED BY <1>1, <1>3, <2>1, <2>2, StepLayout, StepIntact, StepInCall DEF Good
  <1> QED BY <1>2, <1>3 DEF RxInv

(* Driver and chip keep the invariant in every behaviour.                  *)
THEOREM Invariant == Spec => []RxInv
  BY InitInv, StepInv, PTL DEF Spec

(* ERXRDPT and the write pointer stay in the ring, ERDPT within 13 bits    *)
(* and the counters within their bounds, whatever bytes enc28_read_packet  *)
(* takes for a header once it has lost step.                               *)
THEOREM TypeCorrect == Spec => []TypeOK
  <1>1. RxInv => TypeOK
    <2> SUFFICES ASSUME RxInv PROVE TypeOK OBVIOUS
    <2>1. RxType BY DEF RxInv
    <2>2. Len(frames) \in Nat /\ Len(frames) <= MaxFrames /\ MaxFrames \in Nat
      BY <2>1, RxAssumption DEF RxType
    <2>3. 0..Len(frames) \subseteq 0..MaxFrames BY <2>2
    <2>4. ring \in [Addresses -> 0..MaxFrames] BY <2>1, <2>3 DEF RxType
    <2>5. /\ epktcnt \in 0..MaxFrames /\ dataId \in 0..MaxFrames /\ got \in 0..MaxFrames
      BY <2>1, <2>3 DEF RxType
    <2> QED BY <2>1, <2>4, <2>5 DEF RxType, TypeOK
  <1> QED BY <1>1, Invariant, PTL

(* As long as enc28_read_packet has returned no error for a frame and its  *)
(* recovery has exposed none, no frame it has still to copy is             *)
(* overwritten.                                                            *)
THEOREM FramesIntact == Spec => []UnreadIntact
  <1>1. RxInv => UnreadIntact
    <2> SUFFICES ASSUME RxInv, InStep, NEW n \in Unread,
                        ~(n = Oldest /\ pc \in {"skip", "release", "decrement"}),
                        NEW a \in Region(frames[n].start, Footprint(frames[n].len))
                 PROVE  ring[a] = n
      BY DEF UnreadIntact, Whole
    <2>1. RxType /\ Chain /\ Intact BY DEF RxInv, Good
    <2>2. n \in Protected /\ n \in 1..Len(frames)
      BY <2>1, StateFacts DEF Unread, Protected
    <2>3. /\ frames[n].start \in Addresses /\ Extent(n) \in Nat /\ Extent(n) < RingSize
      BY <2>1, <2>2, StateFacts DEF Chain
    <2>4. Extent(n) \in 0..RingSize BY <2>3, RingFacts
    <2>5. a \in Addresses /\ Dist(frames[n].start, a) < Extent(n)
      BY <2>3, <2>4, RegionFacts DEF Extent
    <2> QED BY <2>1, <2>2, <2>5 DEF Intact
  <1> QED BY <1>1, Invariant, PTL

(* As long as it is in step, it reads every header at the start of the     *)
(* oldest unread frame.                                                    *)
THEOREM HeaderAtStart == Spec => []ReadsAtFrameStart
  <1>1. RxInv => ReadsAtFrameStart
    <2> SUFFICES ASSUME RxInv, InStep, pc = "header" PROVE erdpt = frames[Oldest].start
      BY DEF ReadsAtFrameStart
    <2>1. RxType /\ Chain /\ Good BY DEF RxInv
    <2>2. epktcnt > 0 BY <2>1 DEF Good, InCall
    <2> QED BY <2>1, <2>2, OldestHeader
  <1> QED BY <1>1, Invariant, PTL

(* As long as it is in step, ERXRDPT is odd, as the errata demands.        *)
THEOREM OddErxrdpt == Spec => []ErxrdptIsOdd
  <1>1. RxInv => ErxrdptIsOdd BY DEF RxInv, Good, Layout, ErxrdptIsOdd
  <1> QED BY <1>1, Invariant, PTL

-----------------------------------------------------------------------------
(* The refinement.                                                         *)

(* In step, the frame returned last is the one before the oldest; out of   *)
(* step the record of it does not change.                                  *)
LEMMA FifoStep ==
    ASSUME RxInv, RxInv', [Next]_vars
    PROVE  [Fifo!Next]_(Fifo!fifoVars)
  <1>0. /\ RxType /\ Len(frames) \in Nat /\ epktcnt \in 0..Len(frames)
        /\ Oldest \in 1..(Len(frames) + 1) /\ Oldest = Len(frames) - epktcnt + 1
    BY StateFacts DEF RxInv, Oldest
  <1>1. \/ Oldest' = Oldest /\ Len(frames') = Len(frames) + 1
        \/ UNCHANGED frames /\ Oldest' = Oldest
        \/ UNCHANGED frames /\ Oldest' = Oldest + 1 /\ epktcnt > 0
    BY <1>0, OldestStep
  <1>2. CASE InStep'
    <2>1. InStep BY <1>2, InStepStable
    <2>2. got = Oldest - 1 /\ got' = Oldest' - 1
      BY <1>2, <2>1 DEF RxInv, Good, InCall
    <2>4. CASE Oldest' = Oldest /\ Len(frames') = Len(frames) + 1
      BY <2>2, <2>4 DEF Fifo!Next, Fifo!Accept
    <2>5. CASE UNCHANGED frames /\ Oldest' = Oldest
      BY <2>2, <2>5 DEF Fifo!fifoVars
    <2>6. CASE UNCHANGED frames /\ Oldest' = Oldest + 1 /\ epktcnt > 0
      <3>1. got < Len(frames) /\ got' = got + 1
        BY <1>0, <2>2, <2>6
      <3> QED BY <2>6, <3>1 DEF Fifo!Next, Fifo!Get
    <2> QED BY <1>1, <2>4, <2>5, <2>6
  <1>3. CASE ~InStep'
    <2>1. UNCHANGED got
      <3>1. CASE Decrement
        <4>1. ~InStep BY <1>3, <3>1 DEF Decrement, InStep
        <4> QED BY <3>1, <4>1 DEF Decrement
      <3>2. CASE ReadPacket /\ ~Decrement
        BY <3>2 DEF ReadPacket, ReadEir, ReadPtrOutOfRange, ReadHeader, ReadData, Skip,
                    Release, Recover, ClearRxerif
      <3>3. ASSUME NEW len \in FrameLens, NEW ok \in BOOLEAN,
                   FrameStored(len, ok) \/ FrameRefused(len)
            PROVE  UNCHANGED got
        BY <3>3 DEF FrameStored, FrameRefused
      <3>4. CASE UNCHANGED vars BY <3>4 DEF vars
      <3>5. TRUE \in BOOLEAN OBVIOUS
      <3> QED BY <3>1, <3>2, <3>3, <3>4, <3>5 DEF Next
    <2>2. Len(frames') = Len(frames) + 1 \/ Len(frames') = Len(frames) BY <1>1
    <2> QED BY <2>1, <2>2 DEF Fifo!Next, Fifo!Accept, Fifo!fifoVars
  <1> QED BY <1>2, <1>3

(* The driver and the ring implement a FIFO: enc28_read_packet returns     *)
(* each accepted frame once, in order and with its own bytes, until it     *)
(* returns an error for a frame or its recovery exposes an unread one.     *)
THEOREM Refinement == Spec => ImplementsFifo
  <1>1. Init => Fifo!Init
    BY DEF Init, Fifo!Init
  <1>2. RxInv /\ RxInv' /\ [Next]_vars => [Fifo!Next]_(Fifo!fifoVars)
    BY FifoStep
  <1> QED BY <1>1, <1>2, Invariant, PTL DEF Spec, ImplementsFifo, Fifo!Spec
=============================================================================
