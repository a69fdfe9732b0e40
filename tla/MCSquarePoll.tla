----------------------------- MODULE MCSquarePoll -----------------------------
(* A poll that staggers two fetches, and one that races two.                *)
EXTENDS SquarePoll

MCOptions == {[stagger |-> 2, width |-> 1], [stagger |-> 1, width |-> 2]}
===============================================================================
