------------------------------- MODULE MCBoot -------------------------------
(* Enc28Boot for TLC; it has no parameters.                                *)
EXTENDS Enc28Boot
=============================================================================
