------------------------------ MODULE MCStack -------------------------------
(* An instance of NetworkStack for TLC; the bounds are in the .cfg file.   *)
EXTENDS NetworkStack
=============================================================================
