---------------------------- MODULE CountingSem ----------------------------
(***************************************************************************)
(* What sem_wait and sem_post promise: units are put in and taken out one  *)
(* at a time, and none is taken that is not there.                         *)
(***************************************************************************)
EXTENDS Naturals

CONSTANT Initial
VARIABLES avail, got, put

Init == avail = Initial /\ got = 0 /\ put = 0
Post == avail' = avail + 1 /\ put' = put + 1 /\ UNCHANGED got
Take == avail > 0 /\ avail' = avail - 1 /\ got' = got + 1 /\ UNCHANGED put
Spec == Init /\ [][Post \/ Take]_<<avail, got, put>>
=============================================================================
