------------------------------- MODULE MCLanePool -------------------------------
(* Two primary reply lanes, a spare and a receive lane.                     *)
EXTENDS LanePool, TLC
================================================================================
