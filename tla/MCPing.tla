------------------------------- MODULE MCPing -------------------------------
(* Instances of PingReply for TLC.                                         *)
EXTENDS PingReply

AllBytes  == 0..255
EdgeBytes == {0, 1, 7, 8, 127, 128, 247, 248, 254, 255}
=============================================================================
