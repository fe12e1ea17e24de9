------------------------------ MODULE Enc28Tx -------------------------------
(***************************************************************************)
(* The transmit side of the driver: enc28_write_packet,                    *)
(* enc28_check_outgoing_packet_status and enc28_select_register_bank,      *)
(* which every call of the driver makes, against the transmit logic of the *)
(* chip.  The driver runs in one task; the chip clears ECON1.TXRTS on its  *)
(* own between any two SPI commands.                                       *)
(***************************************************************************)
EXTENDS Integers

CONSTANTS
    TX_START,       \* ENC28_CONF_TX_ADDRESS_START
    Sizes,          \* sizes of the frames given to enc28_write_packet
    ReadAddresses,  \* where enc28_read_packet may leave ERDPT
    MaxWrites       \* bound: frames written in one behaviour

ASSUME TxAssumption ==
    /\ TX_START \in Nat /\ Sizes \subseteq Nat /\ MaxWrites \in Nat
    /\ ReadAddresses \subseteq 0..8191 /\ ReadAddresses # {}

VARIABLES
    txrts, txif, txabrt,    \* ECON1.TXRTS, EIR.TXIF, ESTAT.TXABRT
    etxst, etxnd, ewrpt,    \* the pointers of the transmit buffer
    memSize,                \* size of the frame in the transmit buffer
    pc,                     \* step of the driver
    copy,                   \* econ1_reg, of which TXRTS matters
    size,                   \* the parameter of enc28_write_packet
    erdpt,                  \* ERDPT, which the receive side relies on
    rdpt,                   \* rdpt_lo and rdpt_hi: its two bytes, saved
    expected,               \* history: where enc28_read_packet left ERDPT
    requested,              \* history: frames whose transmission was asked for
    done,                   \* history: the frame whose transmission ended last
    disturbed               \* history: a bank selection has started a
                            \* transmission, or stopped one

chipVars == <<txrts, txif, txabrt, etxst, etxnd, ewrpt, memSize>>
rdVars   == <<erdpt, rdpt, expected>>
hist     == <<requested, done, disturbed>>
vars     == <<chipVars, pc, copy, size, rdVars, hist>>

Init ==
    /\ txrts = FALSE /\ txif = FALSE /\ txabrt = FALSE
    /\ etxst = 0 /\ etxnd = 0 /\ ewrpt = 0 /\ memSize = 0
    /\ pc = "idle" /\ copy = FALSE /\ size = 0
    /\ erdpt \in ReadAddresses /\ rdpt = <<0, 0>> /\ expected = erdpt
    /\ requested = 0 /\ done = 0 /\ disturbed = FALSE

Goto(a, b) == pc = a /\ pc' = b

-----------------------------------------------------------------------------
(* enc28_select_register_bank, in each of the calls that make it: ECON1 is *)
(* read, changed and written back as a whole.                              *)

(* The step that follows the bank selection of a call.                     *)
After == [r_read |-> "r_write", w_read |-> "w_write", c_read |-> "c_write",
          r_write |-> "r_packet", w_write |-> "w_pointers", c_write |-> "c_status"]

(* enc28_read_packet found PKTIF or RXERIF set.                            *)
CallReadPacket ==
    /\ Goto("idle", "r_read")
    /\ UNCHANGED <<chipVars, copy, size, rdVars, hist>>

(* It reads a packet, or recovers (Enc28Rx); ERDPT is at the next one.     *)
ReadPacket ==
    /\ Goto("r_packet", "idle")
    /\ erdpt' \in ReadAddresses
    /\ expected' = erdpt'
    /\ UNCHANGED <<chipVars, copy, size, rdpt, hist>>

SelectRead ==
    /\ pc \in {"r_read", "w_read", "c_read"}
    /\ copy' = txrts
    /\ pc' = After[pc]
    /\ UNCHANGED <<chipVars, size, rdVars, hist>>

(* Writing TXRTS = 1 while the chip is idle starts a transmission; writing *)
(* 0 during one stops it.                                                  *)
SelectWrite ==
    /\ pc \in {"r_write", "w_write", "c_write"}
    /\ txrts' = copy
    /\ disturbed' = (disturbed \/ copy # txrts)
    /\ pc' = After[pc]
    /\ UNCHANGED <<txif, txabrt, etxst, etxnd, ewrpt, memSize, copy, size,
                   rdVars, requested, done>>

-----------------------------------------------------------------------------
(* enc28_write_packet.                                                     *)

(* Mutant: ECON1.TXRTS is not looked at.                                   *)
CallWriteUnchecked(n) ==
    /\ requested < MaxWrites
    /\ n >= 14
    /\ Goto("idle", "w_read")
    /\ size' = n
    /\ UNCHANGED <<chipVars, copy, rdVars, hist>>

(* The frame has a header, or else ENC28_INVALID_PARAM is returned, and    *)
(* TXRTS is clear, or else ENC28_PACKET_TX_IN_PROGRESS is returned; both   *)
(* leave everything as it is.                                              *)
CallWritePacket(n) ==
    /\ requested < MaxWrites
    /\ n >= 14
    /\ ~txrts
    /\ Goto("idle", "w_read")
    /\ size' = n
    /\ UNCHANGED <<chipVars, copy, rdVars, hist>>

(* ETXST and EWRPT; the control byte and the frame go to EWRPT.            *)
WriteBuffer ==
    /\ Goto("w_pointers", "w_end")
    /\ etxst' = TX_START
    /\ ewrpt' = TX_START + 1 + size
    /\ memSize' = size
    /\ UNCHANGED <<txrts, txif, txabrt, etxnd, copy, size, rdVars, hist>>

(* Mutant: the control byte is forgotten.                                  *)
EndAddressShort(n) == TX_START + n - 1

EndAddress(n) == TX_START + n + 1

WriteEtxnd ==
    /\ Goto("w_end", "w_clear")
    /\ etxnd' = EndAddress(size)
    /\ UNCHANGED <<txrts, txif, txabrt, etxst, ewrpt, memSize, copy, size,
                   rdVars, hist>>

(* Mutant: EIR.TXIF is not cleared.                                        *)
KeepTxif ==
    /\ Goto("w_clear", "w_start")
    /\ UNCHANGED <<chipVars, copy, size, rdVars, hist>>

(* EIR.TXIF is cleared; the transmit logic is reset with ECON1.TX_RST.     *)
ClearTxif ==
    /\ Goto("w_clear", "w_start")
    /\ txif' = FALSE
    /\ UNCHANGED <<txrts, txabrt, etxst, etxnd, ewrpt, memSize, copy, size,
                   rdVars, hist>>

SetTxrts ==
    /\ Goto("w_start", "idle")
    /\ txrts' = TRUE
    /\ requested' = requested + 1
    /\ UNCHANGED <<txif, txabrt, etxst, etxnd, ewrpt, memSize, copy, size,
                   rdVars, done, disturbed>>

-----------------------------------------------------------------------------
(* enc28_check_outgoing_packet_status.                                     *)

(* EIR.TXIF is set; otherwise ENC28_NO_DATA is returned.                   *)
CallCheckStatus ==
    /\ txif
    /\ Goto("idle", "c_read")
    /\ UNCHANGED <<chipVars, copy, size, rdVars, hist>>

(* (end_addr_lo) | ((end_addr_hi << 8) & 0x1F), plus one: the mask is      *)
(* applied after the shift, which leaves the low byte.                     *)
TsvAddress(end) ==
    LET lo == end % 256
        hi == ((end \div 256) * 256) % 32
    IN  lo + hi + 1

Bytes(a)   == <<a % 256, a \div 256>>
Address(b) == b[1] + 256 * b[2]

(* ERDPT is saved and moved to the status vector ...                       *)
MoveErdpt ==
    /\ Goto("c_status", "c_vector")
    /\ rdpt' = Bytes(erdpt)
    /\ erdpt' = TsvAddress(etxnd)
    /\ UNCHANGED <<chipVars, copy, size, expected, hist>>

(* ... of which six bytes are read and dropped ...                         *)
ReadVector ==
    /\ Goto("c_vector", "c_restore")
    /\ erdpt' = erdpt + 6
    /\ UNCHANGED <<chipVars, copy, size, rdpt, expected, hist>>

(* Mutant: only the low byte is restored.                                  *)
RestoreLowByte ==
    /\ Goto("c_restore", "idle")
    /\ erdpt' = Address(<<rdpt[1], erdpt \div 256>>)
    /\ UNCHANGED <<chipVars, copy, size, rdpt, expected, hist>>

(* ... and ERDPT is restored.  ESTAT.TXABRT decides between                *)
(* ENC28_PACKET_TX_ABORTED and ENC28_OK.                                   *)
RestoreErdpt ==
    /\ Goto("c_restore", "idle")
    /\ erdpt' = Address(rdpt)
    /\ UNCHANGED <<chipVars, copy, size, rdpt, expected, hist>>

-----------------------------------------------------------------------------
(* The chip: the transmission ends, well or aborted.                       *)
TransmissionEnds ==
    /\ txrts
    /\ txrts' = FALSE
    /\ txif' = TRUE
    /\ txabrt' \in BOOLEAN
    /\ done' = requested
    /\ UNCHANGED <<etxst, etxnd, ewrpt, memSize, pc, copy, size, rdVars,
                   requested, disturbed>>

Next ==
    \/ CallReadPacket \/ ReadPacket \/ SelectRead \/ SelectWrite
    \/ \E n \in Sizes : CallWritePacket(n)
    \/ WriteBuffer \/ WriteEtxnd \/ ClearTxif \/ SetTxrts
    \/ CallCheckStatus \/ MoveErdpt \/ ReadVector \/ RestoreErdpt
    \/ TransmissionEnds

Spec == Init /\ [][Next]_vars

-----------------------------------------------------------------------------
(* Properties.                                                             *)

(* The transmit buffer and its pointers do not change under a transmission *)
(* (eth_packet_task.c starts a frame without waiting for the previous one):*)
(* while enc28_write_packet prepares a frame, TXRTS is clear.              *)
BufferIsStable ==
    pc \in {"w_pointers", "w_end", "w_clear", "w_start"} => ~txrts

(* What is being transmitted, for the first time or again, is the frame    *)
(* that enc28_write_packet put into the buffer last, from its control byte *)
(* at ETXST to its last byte, and exactly the one byte behind it that      *)
(* enc28j60.c:800 includes (see EtxndIsLastByte): never a part of the      *)
(* frame, and never the length of another one.                             *)
WholeFrameSent ==
    txrts => etxst = TX_START /\ etxnd = TX_START + memSize + 1

(* EIR.TXIF, which enc28_check_outgoing_packet_status relies on, is never  *)
(* left over from an earlier frame: if it is set, the transmission of the  *)
(* frame that was asked for last has ended.                                *)
TxifIsFresh == txif => done = requested

(* Reading the status vector borrows ERDPT from the receive side, which    *)
(* never sets it before it reads a header (enc28j60.c:672): whenever       *)
(* enc28_read_packet is called, ERDPT is where it left it, although the    *)
(* vector is looked for at a wrong address (enc28j60.c:857).               *)
ErdptIsReturned == pc \in {"idle", "r_read", "r_write", "r_packet"} => erdpt = expected

(* Each call of enc28_write_packet puts its frame on the wire once: only   *)
(* enc28_write_packet starts a transmission and nothing stops one.  A bank *)
(* selection ("Selects the specified register bank", enc28j60.h:384) does  *)
(* neither.                                                                *)
SentOnce == ~disturbed

(* "program ETXND to point to the last byte in the packet"                 *)
(* (enc28j60.c:802): the last byte that was written at EWRPT.              *)
EtxndIsLastByte == pc = "w_clear" => etxnd = ewrpt - 1

(* "start reading Transmit Status Vector at TXND + 1" (enc28j60.c:860).    *)
TsvBehindEtxnd == pc = "c_vector" => erdpt = etxnd + 1
=============================================================================
