---- MODULE MCSupervision ----
(* One bot with two push requests, two conditions, and short thresholds.   *)
EXTENDS Supervision
MCWatched == {"no-lane-available"}
====
