----------------------------- MODULE MCPipeline -----------------------------
(* Instances of PacketPipeline for TLC; the bounds are in the .cfg files.  *)
EXTENDS PacketPipeline
=============================================================================
