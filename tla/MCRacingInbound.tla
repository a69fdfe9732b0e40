--------------------------- MODULE MCRacingInbound ---------------------------
(* One bot with three rooms and two dedicated poll slots.                   *)
EXTENDS RacingInbound, TLC

CONSTANTS r1, r2, r3, p1, p2, p3, m1, k1

MCMsgRoom == m1 :> r1
=============================================================================
