------------------------------ MODULE Enc28Rx -------------------------------
(***************************************************************************)
(* The receive ring of the ENC28J60 and enc28_read_packet, one step per    *)
(* group of SPI commands, with the receive logic of the chip running       *)
(* between any two of them.                                                *)
(*                                                                         *)
(* The chip writes a frame as a 6-byte header (next-packet pointer, length *)
(* and status) and its bytes, at ERXWRPT, padded to an even address; it    *)
(* wraps from ERXND to ERXST and never passes ERXRDPT.  A byte of the ring *)
(* is the number of the frame it belongs to.                               *)
(***************************************************************************)
EXTENDS Integers, Sequences

CONSTANTS
    RX_START, RX_END,   \* ENC28_CONF_RX_ADDRESS_START and _END
    FrameLens,          \* lengths of the frames that arrive
    MaxFrames,          \* bound: frames accepted in one behaviour
    BufSize,            \* size of the buffer given to enc28_read_packet
    MaxAfterBad,        \* bound: frames accepted after the first with an error
    GarbageNext,        \* next-packet pointers and lengths that bytes which
    GarbageLens         \* are not a header may form

MaxAddress == 8191      \* pointer registers have 13 bits

ASSUME RxAssumption ==
    /\ RX_START \in Nat /\ RX_END \in Nat /\ RX_START < RX_END
    /\ RX_START % 2 = 0 /\ RX_END % 2 = 1
    /\ MaxFrames \in Nat /\ BufSize \in Nat
    /\ FrameLens \subseteq 1..BufSize      \* MAMXFL is 1536, pkt_buf has 1600 bytes
    /\ MaxAfterBad \in Nat
    /\ RX_END <= MaxAddress /\ GarbageNext \subseteq 0..MaxAddress
    /\ GarbageLens \subseteq Nat

VARIABLES
    ring,           \* chip memory: the frame each byte belongs to (0: none)
    frames,         \* history: the header of every accepted frame
    erxwrpt,        \* where the chip writes the next frame
    erxrdpt,        \* the chip must not write up to here
    erdpt,          \* where the next RBM command reads
    epktcnt,        \* frames the driver has not released
    rxerif,         \* EIR.RXERIF
    pc,             \* step of enc28_read_packet
    hdr,            \* the header it read
    dataId,         \* the frame whose bytes it copied (0: a mixture)
    got,            \* history: the frame returned last, while in step
    astray          \* history: why the driver lost step with the ring, or "no"

chipVars == <<ring, frames, erxwrpt, epktcnt>>
vars == <<ring, frames, erxwrpt, erxrdpt, erdpt, epktcnt, rxerif, pc, hdr, dataId,
          got, astray>>

Addresses == RX_START..RX_END
RingSize  == RX_END - RX_START + 1
HeaderLen == 6

(* The address n bytes after a, in the ring (ECON2.AUTOINC wraps too).     *)
Wrap(a, n) == RX_START + ((a - RX_START + n) % RingSize)

Region(a, n) == {Wrap(a, k) : k \in 0..(n - 1)}

(* Bytes a frame takes in the ring.                                        *)
Footprint(len) == LET n == HeaderLen + len IN n + (n % 2)

NoHeader == [start |-> 0, next |-> 0, len |-> 0, ok |-> FALSE]

(* What enc28_do_init and enc28_begin_packet_transfer leave behind.        *)
Init ==
    /\ ring = [a \in Addresses |-> 0]
    /\ frames = <<>>
    /\ erxwrpt = RX_START /\ erxrdpt = RX_END /\ erdpt = RX_START
    /\ epktcnt = 0 /\ rxerif = FALSE
    /\ pc = "idle" /\ hdr = NoHeader /\ dataId = 0
    /\ got = 0 /\ astray = "no"

-----------------------------------------------------------------------------
(* The chip.                                                               *)

(* Free bytes between the write pointer and ERXRDPT.                       *)
FreeSpace ==
    IF erxwrpt >= erxrdpt
    THEN (RX_END - RX_START) - (erxwrpt - erxrdpt)
    ELSE erxrdpt - erxwrpt - 1

(* A frame is stored: also one with an error, without the "received ok"    *)
(* bit, as ENC28_CONF_PACKET_FILTER_MASK has no CRC check.                 *)
FrameStored(len, ok) ==
    /\ Len(frames) < MaxFrames
    /\ \A n \in 1..Len(frames) : frames[n].ok \/ Len(frames) < n + MaxAfterBad
    /\ Footprint(len) <= FreeSpace
    /\ LET n == Len(frames) + 1
           next == Wrap(erxwrpt, Footprint(len))
       IN /\ frames' = Append(frames, [start |-> erxwrpt, next |-> next,
                                       len |-> len, ok |-> ok])
          /\ ring' = [a \in Addresses |->
                         IF a \in Region(erxwrpt, Footprint(len)) THEN n ELSE ring[a]]
          /\ erxwrpt' = next
    /\ epktcnt' = epktcnt + 1
    /\ UNCHANGED <<erxrdpt, erdpt, rxerif, pc, hdr, dataId, got, astray>>

(* No room: the frame is dropped and RXERIF is set.                        *)
FrameRefused(len) ==
    /\ Footprint(len) > FreeSpace
    /\ ~rxerif
    /\ rxerif' = TRUE
    /\ UNCHANGED <<chipVars, erxrdpt, erdpt, pc, hdr, dataId, got, astray>>

-----------------------------------------------------------------------------
(* enc28_read_packet.                                                      *)

(* The driver still reads frame after frame.  It loses step when it        *)
(* returns an error for a frame (ERDPT stays inside it), or when its       *)
(* recovery takes the protection of a frame it has not read away.          *)
InStep == astray = "no"

(* The frames counted by EPKTCNT, and the oldest of them.                  *)
Oldest == Len(frames) - epktcnt + 1
Unread == Oldest..Len(frames)

(* What EIR.PKTIF may say: errata item 4, the flag is not reliable.        *)
Pktif == IF epktcnt > 0 THEN BOOLEAN ELSE {FALSE}

(* EIR is read.                                                            *)
ReadEir ==
    /\ pc = "idle"
    /\ \E pktif \in Pktif :
          pc' = IF pktif THEN "header" ELSE IF rxerif THEN "recover" ELSE "idle"
    /\ UNCHANGED <<chipVars, erxrdpt, erdpt, rxerif, hdr, dataId, got, astray>>

(* The headers that six bytes read at address a may form: the header of a  *)
(* frame that starts there and is intact, or else arbitrary bytes.         *)
HeadersAt(a) ==
    LET n == ring[a]
    IN  IF /\ n > 0
           /\ frames[n].start = a
           /\ \A b \in Region(a, HeaderLen) : ring[b] = n
        THEN {frames[n]}
        ELSE [start : {a}, next : GarbageNext, len : GarbageLens, ok : BOOLEAN]

(* ERDPT is outside the ring: ENC28_READ_PTR_OUT_OF_RANGE.                 *)
ReadPtrOutOfRange ==
    /\ pc = "header"
    /\ erdpt \notin Addresses
    /\ pc' = "idle"
    /\ UNCHANGED <<chipVars, erxrdpt, erdpt, rxerif, hdr, dataId, got, astray>>

(* Mutant: ERXRDPT gets the next-packet pointer itself.                    *)
NextPointer(next) == next

(* Mutant: ERXRDPT is set to the byte before an address outside the ring.  *)
OneBeforeAnywhere(next) == next - 1

(* The value of ERXRDPT that the errata asks for: the odd address before   *)
(* the next packet.                                                        *)
OneBefore(next) ==
    IF next - 1 > RX_END \/ next - 1 < RX_START THEN RX_END ELSE next - 1

(* Mutant: the frame is released as soon as its header is known.           *)
ReadHeaderReleases ==
    /\ pc = "header"
    /\ erdpt \in Addresses
    /\ hdr' \in HeadersAt(erdpt)
    /\ erdpt' = Wrap(erdpt, HeaderLen)
    /\ erxrdpt' = OneBefore(hdr'.next)
    /\ pc' = IF hdr'.ok /\ hdr'.len <= BufSize THEN "data" ELSE "idle"
    /\ astray' = IF pc' = "idle" /\ InStep THEN "error" ELSE astray
    /\ UNCHANGED <<chipVars, rxerif, dataId, got>>

(* The header is read; ERDPT moves behind it.  Without the "received ok"   *)
(* bit, or with too long a frame, the function returns at once.            *)
ReadHeader ==
    /\ pc = "header"
    /\ erdpt \in Addresses
    /\ hdr' \in HeadersAt(erdpt)
    /\ erdpt' = Wrap(erdpt, HeaderLen)
    /\ pc' = IF hdr'.ok /\ hdr'.len <= BufSize THEN "data" ELSE "idle"
    /\ astray' = IF pc' = "idle" /\ InStep THEN "error" ELSE astray
    /\ UNCHANGED <<chipVars, erxrdpt, rxerif, dataId, got>>

(* The bytes are copied to packet_buf.                                     *)
ReadData ==
    /\ pc = "data"
    /\ dataId' = LET owners == {ring[b] : b \in Region(erdpt, hdr.len)}
                 IN  IF \E n \in owners : owners = {n}
                     THEN CHOOSE n \in owners : TRUE ELSE 0
    /\ erdpt' = Wrap(erdpt, hdr.len)
    /\ pc' = "skip"
    /\ UNCHANGED <<chipVars, erxrdpt, rxerif, hdr, got, astray>>

(* Mutant: ERDPT is left behind the bytes just read.                       *)
SkipForgotten ==
    /\ pc = "skip"
    /\ pc' = "release"
    /\ UNCHANGED <<chipVars, erxrdpt, erdpt, rxerif, hdr, dataId, got, astray>>

(* ERDPT moves to the next packet.                                         *)
Skip ==
    /\ pc = "skip"
    /\ erdpt' = hdr.next
    /\ pc' = "release"
    /\ UNCHANGED <<chipVars, erxrdpt, rxerif, hdr, dataId, got, astray>>

(* ERXRDPT: the chip takes both bytes over when the high one is written.   *)
Release ==
    /\ pc = "release"
    /\ erxrdpt' = OneBefore(hdr.next)
    /\ pc' = "decrement"
    /\ UNCHANGED <<chipVars, erdpt, rxerif, hdr, dataId, got, astray>>

(* Mutant: PKTDEC is not set.                                              *)
DecrementForgotten ==
    /\ pc = "decrement"
    /\ got' = IF InStep THEN dataId ELSE got
    /\ pc' = "idle"
    /\ UNCHANGED <<chipVars, erxrdpt, erdpt, rxerif, hdr, dataId, astray>>

(* ECON2.PKTDEC; ENC28_OK is returned.                                     *)
Decrement ==
    /\ pc = "decrement"
    /\ epktcnt' = IF epktcnt > 0 THEN epktcnt - 1 ELSE 0
    /\ got' = IF InStep THEN dataId ELSE got
    /\ pc' = "idle"
    /\ UNCHANGED <<ring, frames, erxwrpt, erxrdpt, erdpt, rxerif, hdr, dataId, astray>>

(* A frame arrived after EIR was read, or PKTIF missed it, and it is not   *)
(* below the write pointer: with ERXRDPT at the end of the ring, the chip  *)
(* may write over it.                                                      *)
Exposed == epktcnt > 0 /\ frames[Oldest].start > erxwrpt

(* RXERIF without a packet: ERXRDPT is moved to the end of the ring ...    *)
Recover ==
    /\ pc = "recover"
    /\ erxrdpt' = RX_END
    /\ astray' = IF InStep /\ Exposed THEN "exposed" ELSE astray
    /\ pc' = "clear"
    /\ UNCHANGED <<chipVars, erdpt, rxerif, hdr, dataId, got>>

(* ... and the flag is cleared; ENC28_PACKET_RCV_ERR is returned.          *)
ClearRxerif ==
    /\ pc = "clear"
    /\ rxerif' = FALSE
    /\ pc' = "idle"
    /\ UNCHANGED <<chipVars, erxrdpt, erdpt, hdr, dataId, got, astray>>

ReadPacket ==
    \/ ReadEir \/ ReadPtrOutOfRange \/ ReadHeader \/ ReadData \/ Skip \/ Release
    \/ Decrement \/ Recover \/ ClearRxerif

Next ==
    \/ ReadPacket
    \/ \E len \in FrameLens : \/ \E ok \in BOOLEAN : FrameStored(len, ok)
                              \/ FrameRefused(len)

Spec == Init /\ [][Next]_vars

-----------------------------------------------------------------------------
(* Properties.                                                             *)

(* Every variable keeps its type.  Out of step the driver may put any      *)
(* 13-bit address into ERDPT; ERXRDPT and the write pointer stay in the    *)
(* ring whatever is read.                                                  *)
TypeOK ==
    /\ ring \in [Addresses -> 0..MaxFrames]
    /\ erxwrpt \in Addresses /\ erxrdpt \in Addresses /\ erdpt \in 0..MaxAddress
    /\ epktcnt \in 0..MaxFrames
    /\ pc \in {"idle", "header", "data", "skip", "release", "decrement",
               "recover", "clear"}
    /\ dataId \in 0..MaxFrames /\ got \in 0..MaxFrames
    /\ astray \in {"no", "error", "exposed"}

(* Frame n is whole in the ring, or it has been copied.                    *)
Whole(n) ==
    \/ n = Oldest /\ pc \in {"skip", "release", "decrement"}
    \/ \A a \in Region(frames[n].start, Footprint(frames[n].len)) : ring[a] = n

(* A frame the driver has not copied yet is still whole in the ring,       *)
(* whatever arrives or is refused between its SPI commands, as long as the *)
(* driver has neither returned an error for a frame (enc28j60.c:690, 697)  *)
(* nor handled RXERIF with an unread frame behind the write pointer        *)
(* (enc28j60.c:743).                                                       *)
UnreadIntact == InStep => \A n \in Unread : Whole(n)

(* Handling RXERIF costs no frame: unread frames stay whole until the      *)
(* driver returns an error for one.  False: a frame that arrives between   *)
(* the read of EIR and enc28j60.c:743, or one that PKTIF missed (errata    *)
(* item 4), loses its protection.                                          *)
RecoveryKeepsFrames == astray # "error" => \A n \in Unread : Whole(n)

(* When a header is about to be read, ERDPT is at the oldest unread frame, *)
(* as long as the driver is in step.                                       *)
ReadsAtFrameStart == InStep /\ pc = "header" => erdpt = frames[Oldest].start

(* While the driver is in step ERXRDPT is odd, as the errata the comment   *)
(* at enc28j60.c:708 refers to demands.                                    *)
ErxrdptIsOdd == InStep => erxrdpt % 2 = 1

(* With nothing to read, no call in progress and the driver in step, the   *)
(* ring takes a frame of any length.                                       *)
EmptyRingHasRoom ==
    InStep /\ epktcnt = 0 /\ pc = "idle" =>
        \A len \in FrameLens : Footprint(len) <= FreeSpace

(* The driver and the ring implement a FIFO of frames: each accepted frame *)
(* is returned once, in order, with its own bytes, until the driver loses  *)
(* step (an error return for a frame, or a recovery that exposes an unread *)
(* one); what it returns after that is not counted.                        *)
Fifo == INSTANCE FrameFifo WITH accepted <- Len(frames)
ImplementsFifo == Fifo!Spec
=============================================================================
