-------------------------------- MODULE MCRx --------------------------------
(* Instances of Enc28Rx for TLC; the bounds are in the .cfg files.         *)
EXTENDS Enc28Rx
=============================================================================
