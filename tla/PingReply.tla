----------------------------- MODULE PingReply ------------------------------
(***************************************************************************)
(* The echo responder of the build without lwIP:                           *)
(* enc28_debug_is_ping_request and enc28_debug_handle_ping.  The reply is  *)
(* the request with its addresses swapped, its ICMP type cleared and its   *)
(* checksum adjusted instead of computed anew.                             *)
(*                                                                         *)
(* A frame is reduced to its addresses and what the checksum depends on:   *)
(* the ICMP type, the two bytes of the checksum as they are on the wire,   *)
(* and the one's complement sum of all the other words of the message.     *)
(* The processor is little-endian.                                         *)
(***************************************************************************)
EXTENDS Integers

CONSTANTS
    FirstBytes, SecondBytes,    \* values of the two bytes of the checksum
    FrameSizes                  \* sizes of the frames that are handled

VARIABLES req, resp, status

vars == <<req, resp, status>>

(* A 16-bit word in network order, and as the processor loads it.          *)
WireWord(b) == 256 * b[1] + b[2]
Load(b)     == b[1] + 256 * b[2]
Store(w)    == <<w % 256, w \div 256>>

OnesAdd(a, b) == LET s == a + b IN (s % 65536) + (s \div 65536)

(* The reference: an ICMP message is valid if the one's complement sum of  *)
(* its words is all ones.                                                  *)
Valid(f) == OnesAdd(OnesAdd(256 * f.type, WireWord(f.checksum)), f.rest) = 65535

EchoRequests ==
    {[mac_dest |-> "board", mac_src |-> "host", addr_dest |-> "board",
      addr_src |-> "host", size |-> n, ipv4 |-> ip, icmp |-> ic, type |-> t, checksum |-> <<a, b>>,
      rest |-> 65535 - OnesAdd(256 * t, 256 * a + b)] :
        n \in FrameSizes, ip \in BOOLEAN, ic \in BOOLEAN, t \in {0, 8},
        a \in FirstBytes, b \in SecondBytes}

Init ==
    /\ req \in EchoRequests
    /\ resp = req
    /\ status = "none"

(* 14 + 20 + 8 bytes of headers.                                           *)
IsPingRequest(f) == f.size >= 42 /\ f.ipv4 /\ f.icmp /\ f.type = 8

(* The reply goes back where the request came from.                        *)
SwapAddresses(f) ==
    [f EXCEPT !.mac_dest = f.mac_src, !.mac_src = f.mac_dest,
              !.addr_dest = f.addr_src, !.addr_src = f.addr_dest]

(* dest_icmp->checksum += 0x8, on 16 bits.                                 *)
AdjustChecksum(b) == Store((Load(b) + 8) % 65536)

(* The reply buffer has the size of the request (-1 otherwise).            *)
HandlePing ==
    /\ status = "none"
    /\ IF IsPingRequest(req)
       THEN /\ resp' = [SwapAddresses(req) EXCEPT
                           !.type = 0, !.checksum = AdjustChecksum(@)]
            /\ status' = "ok"
       ELSE /\ status' = "no_ping"
            /\ UNCHANGED resp
    /\ UNCHANGED req

Next == HandlePing

Spec == Init /\ [][Next]_vars

(* The reply to a valid request is valid ("adjust checksum",               *)
(* enc28_debug.c:98).                                                      *)
ReplyIsValid == status = "ok" => Valid(resp)
=============================================================================
