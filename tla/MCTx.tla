-------------------------------- MODULE MCTx --------------------------------
(* Instances of Enc28Tx for TLC; the bounds are in the .cfg files.         *)
EXTENDS Enc28Tx
=============================================================================
