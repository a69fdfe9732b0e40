---- MODULE MCFleetRestore ----
(* Three people who own bots, an admin and two others, and two workers of   *)
(* startOwned.                                                              *)
EXTENDS Fleet, TLC
CONSTANTS ann, bob, cyd, r1, w1, w2
MCUsers == {ann, bob, cyd}
MCProcs == {r1, w1, w2}
MCReqs == {r1}
MCStored ==
  {[u \in MCUsers |-> [role |-> IF u = ann THEN "admin" ELSE "user",
                       bot |-> IF u = ann THEN Primary ELSE u]]}
MCSpent == [f \in MCStored |-> [requests |-> 0, troubles |-> 0]]
====
