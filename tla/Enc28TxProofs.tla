---------------------------- MODULE Enc28TxProofs ---------------------------
(***************************************************************************)
(* Proofs about Enc28Tx, for every place of the transmit buffer, all frame *)
(* sizes and every number of frames, with a transmission ending between    *)
(* any two SPI commands.  The steps of enc28_write_packet carry the        *)
(* argument: each of them hands what it has established to the next one.   *)
(***************************************************************************)
EXTENDS Enc28Tx, TLAPS

TxType ==
    /\ txrts \in BOOLEAN /\ copy \in BOOLEAN /\ txif \in BOOLEAN
    /\ etxst \in Nat /\ etxnd \in Nat /\ memSize \in Nat /\ size \in Nat
    /\ erdpt \in Int /\ expected \in Nat
    /\ requested \in Nat /\ done \in Nat
    /\ pc \in {"idle", "r_read", "r_write", "r_packet",
               "w_read", "w_write", "w_pointers", "w_end", "w_clear", "w_start",
               "c_read", "c_write", "c_status", "c_vector", "c_restore"}

(* TXRTS was seen clear at the start of enc28_write_packet and stays so;   *)
(* the bank selection of the call writes back the zero it has read.        *)
Quiet ==
    /\ pc \in {"w_read", "w_write", "w_pointers", "w_end", "w_clear", "w_start"}
       => ~txrts
    /\ pc = "w_write" => ~copy

(* The pointers enclose the frame in the buffer.                           *)
Enclosed == etxst = TX_START /\ etxnd = TX_START + memSize + 1

(* What is being transmitted, and what a bank selection would transmit     *)
(* again, is enclosed; enc28_write_packet has moved the pointers before it *)
(* sets TXRTS.                                                             *)
Covered ==
    /\ txrts => Enclosed
    /\ pc \in {"r_write", "c_write"} /\ copy => Enclosed
    /\ pc = "w_end" => etxst = TX_START /\ memSize = size
    /\ pc \in {"w_clear", "w_start"} => Enclosed

(* TXIF is cleared before the next frame is counted.                       *)
Fresh == TxifIsFresh /\ (pc = "w_start" => ~txif)

(* ERDPT is where the receive side left it, or will be put back there.     *)
Borrowed ==
    IF pc \in {"c_vector", "c_restore"} THEN rdpt = Bytes(expected) ELSE erdpt = expected

TxInv == TxType /\ Quiet /\ Covered /\ Fresh /\ Borrowed

(* The two bytes that are saved of an address make up the address.         *)
LEMMA AddressOfBytes == ASSUME NEW a \in Nat PROVE Address(Bytes(a)) = a
  <1>1. a = 256 * (a \div 256) + (a % 256) OBVIOUS
  <1>2. a % 256 \in Int /\ a \div 256 \in Int OBVIOUS
  <1> QED BY <1>1, <1>2 DEF Address, Bytes

(* The status vector is read from some address.                            *)
LEMMA TsvAddressType == ASSUME NEW n \in Nat PROVE TsvAddress(n) \in Int
  <1>1. n % 256 \in Int /\ n \div 256 \in Int OBVIOUS
  <1>2. (n \div 256) * 256 \in Int BY <1>1
  <1>3. ((n \div 256) * 256) % 32 \in Int BY <1>2
  <1> QED BY <1>1, <1>3 DEF TsvAddress

(* The invariant holds when the packet transfer has begun.                 *)
LEMMA InitInv == Init => TxInv
  <1> SUFFICES ASSUME Init PROVE TxInv OBVIOUS
  <1> USE DEF Init
  <1>1. TxType
    <2>1. txrts \in BOOLEAN /\ copy \in BOOLEAN /\ txif \in BOOLEAN BY Zenon
    <2>2. erdpt \in Int /\ expected \in Nat BY TxAssumption
    <2> QED BY <2>1, <2>2, TxAssumption DEF TxType
  <1>2. Quiet /\ Covered BY DEF Quiet, Covered
  <1>3. Fresh /\ Borrowed BY DEF Fresh, TxifIsFresh, Borrowed
  <1> QED BY <1>1, <1>2, <1>3 DEF TxInv

(* Every step of the driver and the chip keeps the types.                  *)
LEMMA StepType == TxInv /\ [Next]_vars => TxType'
  <1> SUFFICES ASSUME TxInv, [Next]_vars PROVE TxType' OBVIOUS
  <1>20. ClearTxif => txif' \in BOOLEAN BY Zenon DEF ClearTxif
  <1>21. SetTxrts => txrts' \in BOOLEAN BY Zenon DEF SetTxrts
  <1>22. TransmissionEnds => txrts' \in BOOLEAN /\ txif' \in BOOLEAN
    BY Zenon DEF TransmissionEnds
  <1> USE TxAssumption DEF TxInv, TxType, Goto, chipVars, rdVars, hist
  <1>1. CASE CallReadPacket BY <1>1 DEF CallReadPacket
  <1>2. CASE ReadPacket BY <1>2 DEF ReadPacket
  <1>3. CASE SelectRead BY <1>3 DEF SelectRead, After
  <1>4. CASE SelectWrite BY <1>4 DEF SelectWrite, After
  <1>5. ASSUME NEW n \in Sizes, CallWritePacket(n) PROVE TxType'
    BY <1>5 DEF CallWritePacket
  <1>6. CASE WriteBuffer BY <1>6 DEF WriteBuffer
  <1>7. CASE WriteEtxnd BY <1>7 DEF WriteEtxnd, EndAddress
  <1>8. CASE ClearTxif BY <1>8, <1>20 DEF ClearTxif
  <1>9. CASE SetTxrts BY <1>9, <1>21 DEF SetTxrts
  <1>10. CASE CallCheckStatus BY <1>10 DEF CallCheckStatus
  <1>11. CASE MoveErdpt
    <2>1. erdpt' \in Int BY <1>11, TsvAddressType, SMTT(60) DEF MoveErdpt
    <2> QED BY <1>11, <2>1, SMTT(60) DEF MoveErdpt
  <1>12. CASE ReadVector BY <1>12 DEF ReadVector
  <1>13. CASE RestoreErdpt
    <2>1. erdpt' = expected BY <1>13, AddressOfBytes DEF RestoreErdpt, Borrowed
    <2> QED BY <1>13, <2>1 DEF RestoreErdpt
  <1>14. CASE TransmissionEnds BY <1>14, <1>22 DEF TransmissionEnds
  <1>15. CASE UNCHANGED vars BY <1>15 DEF vars
  <1> QED BY <1>1, <1>2, <1>3, <1>4, <1>5, <1>6, <1>7, <1>8, <1>9, <1>10, <1>11,
             <1>12, <1>13, <1>14, <1>15 DEF Next

(* Nothing sets TXRTS while enc28_write_packet prepares a frame.           *)
LEMMA StepQuiet == TxInv /\ [Next]_vars => Quiet'
  <1> SUFFICES ASSUME TxInv, [Next]_vars PROVE Quiet' OBVIOUS
  <1> USE DEF TxInv, TxType, Quiet, Goto, chipVars, rdVars, hist
  <1>1. CASE CallReadPacket \/ ReadPacket
    BY <1>1 DEF CallReadPacket, ReadPacket
  <1>2. CASE SelectRead BY <1>2 DEF SelectRead, After
  <1>3. CASE SelectWrite BY <1>3 DEF SelectWrite, After
  <1>4. ASSUME NEW n \in Sizes, CallWritePacket(n) PROVE Quiet'
    BY <1>4 DEF CallWritePacket
  <1>5. CASE WriteBuffer \/ WriteEtxnd \/ ClearTxif
    BY <1>5 DEF WriteBuffer, WriteEtxnd, ClearTxif
  <1>6. CASE SetTxrts BY <1>6 DEF SetTxrts
  <1>7. CASE CallCheckStatus \/ MoveErdpt \/ ReadVector \/ RestoreErdpt
    BY <1>7 DEF CallCheckStatus, MoveErdpt, ReadVector, RestoreErdpt
  <1>8. CASE TransmissionEnds BY <1>8 DEF TransmissionEnds
  <1>9. CASE UNCHANGED vars BY <1>9 DEF vars
  <1> QED BY <1>1, <1>2, <1>3, <1>4, <1>5, <1>6, <1>7, <1>8, <1>9 DEF Next

(* Whatever sets TXRTS finds the pointers around the frame.                *)
LEMMA StepCovered == TxInv /\ [Next]_vars => Covered'
  <1> SUFFICES ASSUME TxInv, [Next]_vars PROVE Covered' OBVIOUS
  <1> USE DEF TxInv, TxType, Covered, Goto, chipVars, rdVars, hist
  <1>0. UNCHANGED <<etxst, etxnd, memSize>> => (Enclosed' <=> Enclosed) BY DEF Enclosed
  <1>1. CASE CallReadPacket \/ ReadPacket
    BY <1>0, <1>1 DEF CallReadPacket, ReadPacket
  <1>2. CASE SelectRead BY <1>0, <1>2 DEF SelectRead, After
  <1>3. CASE SelectWrite BY <1>0, <1>3 DEF SelectWrite, After, Quiet
  <1>4. ASSUME NEW n \in Sizes, CallWritePacket(n) PROVE Covered'
    BY <1>0, <1>4 DEF CallWritePacket
  <1>5. CASE WriteBuffer BY <1>5 DEF WriteBuffer, Quiet
  <1>6. CASE WriteEtxnd
    <2>1. Enclosed' BY <1>6, TxAssumption DEF WriteEtxnd, EndAddress, Enclosed
    <2> QED BY <1>6, <2>1 DEF WriteEtxnd
  <1>7. CASE ClearTxif \/ SetTxrts BY <1>0, <1>7 DEF ClearTxif, SetTxrts
  <1>8. CASE CallCheckStatus \/ MoveErdpt \/ ReadVector \/ RestoreErdpt
    BY <1>0, <1>8 DEF CallCheckStatus, MoveErdpt, ReadVector, RestoreErdpt
  <1>9. CASE TransmissionEnds BY <1>0, <1>9 DEF TransmissionEnds
  <1>10. CASE UNCHANGED vars BY <1>0, <1>10 DEF vars
  <1> QED BY <1>1, <1>2, <1>3, <1>4, <1>5, <1>6, <1>7, <1>8, <1>9, <1>10 DEF Next

(* Only the end of a transmission sets TXIF, and no transmission ends      *)
(* between its clearing and the next start.                                *)
LEMMA StepFresh == TxInv /\ [Next]_vars => Fresh'
  <1> SUFFICES ASSUME TxInv, [Next]_vars PROVE Fresh' OBVIOUS
  <1> USE DEF TxInv, TxType, Fresh, TxifIsFresh, Goto, chipVars, rdVars, hist
  <1>1. CASE CallReadPacket \/ ReadPacket
    BY <1>1 DEF CallReadPacket, ReadPacket
  <1>2. CASE SelectRead \/ SelectWrite BY <1>2 DEF SelectRead, SelectWrite, After
  <1>3. ASSUME NEW n \in Sizes, CallWritePacket(n) PROVE Fresh'
    BY <1>3 DEF CallWritePacket
  <1>4. CASE WriteBuffer \/ WriteEtxnd \/ ClearTxif
    BY <1>4 DEF WriteBuffer, WriteEtxnd, ClearTxif
  <1>5. CASE SetTxrts BY <1>5 DEF SetTxrts
  <1>6. CASE CallCheckStatus \/ MoveErdpt \/ ReadVector \/ RestoreErdpt
    BY <1>6 DEF CallCheckStatus, MoveErdpt, ReadVector, RestoreErdpt
  <1>7. CASE TransmissionEnds BY <1>7 DEF TransmissionEnds, Quiet
  <1>8. CASE UNCHANGED vars BY <1>8 DEF vars
  <1> QED BY <1>1, <1>2, <1>3, <1>4, <1>5, <1>6, <1>7, <1>8 DEF Next

(* ERDPT is moved only by its owner, or with its old value saved.          *)
LEMMA StepBorrowed == TxInv /\ [Next]_vars => Borrowed'
  <1> SUFFICES ASSUME TxInv, [Next]_vars PROVE Borrowed' OBVIOUS
  <1> USE DEF TxInv, TxType, Borrowed, Goto, chipVars, rdVars, hist
  <1>1. CASE CallReadPacket \/ ReadPacket
    BY <1>1 DEF CallReadPacket, ReadPacket
  <1>2. CASE SelectRead \/ SelectWrite BY <1>2 DEF SelectRead, SelectWrite, After
  <1>3. ASSUME NEW n \in Sizes, CallWritePacket(n) PROVE Borrowed'
    BY <1>3 DEF CallWritePacket
  <1>4. CASE WriteBuffer \/ WriteEtxnd \/ ClearTxif \/ SetTxrts
    BY <1>4 DEF WriteBuffer, WriteEtxnd, ClearTxif, SetTxrts
  <1>5. CASE CallCheckStatus BY <1>5 DEF CallCheckStatus
  <1>6. CASE MoveErdpt BY <1>6 DEF MoveErdpt
  <1>7. CASE ReadVector BY <1>7 DEF ReadVector
  <1>8. CASE RestoreErdpt BY <1>8, AddressOfBytes DEF RestoreErdpt
  <1>9. CASE TransmissionEnds BY <1>9 DEF TransmissionEnds
  <1>10. CASE UNCHANGED vars BY <1>10 DEF vars
  <1> QED BY <1>1, <1>2, <1>3, <1>4, <1>5, <1>6, <1>7, <1>8, <1>9, <1>10 DEF Next

(* The inductive invariant, from which the theorems follow.                *)
LEMMA Invariant == Spec => []TxInv
  <1>1. TxInv /\ [Next]_vars => TxInv'
    BY StepType, StepQuiet, StepCovered, StepFresh, StepBorrowed DEF TxInv
  <1> QED BY InitInv, <1>1, PTL DEF Spec

(* enc28_write_packet looks at TXRTS once and writes the buffer many SPI   *)
(* commands later: no transmission can be in progress by then, although    *)
(* the bank selection in between writes TXRTS back.                        *)
THEOREM StableBuffer == Spec => []BufferIsStable
  <1>1. TxInv => BufferIsStable BY DEF TxInv, Quiet, BufferIsStable
  <1> QED BY Invariant, <1>1, PTL

(* Every transmission, those that a bank selection starts again included,  *)
(* covers the whole frame in the buffer.                                   *)
THEOREM WholeFrame == Spec => []WholeFrameSent
  <1>1. TxInv => WholeFrameSent BY DEF TxInv, Covered, Enclosed, WholeFrameSent
  <1> QED BY Invariant, <1>1, PTL

(* EIR.TXIF always speaks of the frame that was asked for last.            *)
THEOREM TxifFresh == Spec => []TxifIsFresh
  <1>1. TxInv => TxifIsFresh BY DEF TxInv, Fresh
  <1> QED BY Invariant, <1>1, PTL

(* enc28_check_outgoing_packet_status gives ERDPT back to the receive      *)
(* side, for every address.                                                *)
THEOREM ErdptReturned == Spec => []ErdptIsReturned
  <1>1. TxInv => ErdptIsReturned BY DEF TxInv, Borrowed, ErdptIsReturned
  <1> QED BY Invariant, <1>1, PTL
=============================================================================
