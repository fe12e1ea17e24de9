----------------------------- MODULE FrameFifo ------------------------------
(***************************************************************************)
(* What the receive side promises: a first-in first-out line of frames.    *)
(* Frames are numbered as they are accepted; the reader gets them once,    *)
(* in order, none missing.                                                 *)
(***************************************************************************)
EXTENDS Integers

VARIABLES
    accepted,   \* frames accepted so far; the last one has this number
    got         \* the number of the frame the reader got last

fifoVars == <<accepted, got>>

Init == accepted = 0 /\ got = 0

Accept == accepted' = accepted + 1 /\ got' = got

Get == got < accepted /\ got' = got + 1 /\ accepted' = accepted

Next == Accept \/ Get

Spec == Init /\ [][Next]_fifoVars
=============================================================================
