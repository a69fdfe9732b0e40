---- MODULE MCFleet ----
(* Two people, two requests at a time and two workers of startOwned.  The  *)
(* process starts with no accounts file, with two admins who have no bot    *)
(* yet, with one admin who has a bot of their own, or with two people who   *)
(* each have one: there with one request and two troubles, elsewhere with   *)
(* two requests and one trouble.                                            *)
EXTENDS Fleet, TLC
CONSTANTS ann, bob, r1, r2, w1, w2
MCUsers == {ann, bob}
MCProcs == {r1, r2, w1, w2}
MCReqs == {r1, r2}
MCOwners == [u \in Users |-> [role |-> IF u = ann THEN "admin" ELSE "user", bot |-> u]]
MCStored ==
  {NobodyYet,
   [u \in Users |-> [role |-> "admin", bot |-> None]],
   (ann :> [role |-> "admin", bot |-> ann]) @@ (bob :> None),
   MCOwners}
MCSpent ==
  [f \in MCStored |-> IF f = MCOwners THEN [requests |-> 1, troubles |-> 0]
                      ELSE [requests |-> 0, troubles |-> 1]]

(* The owners are also what the processes of a larger installation are told *)
(* apart by: every topology of up to three shards, "" being an empty name.  *)
T == INSTANCE Topology WITH Owners <- MCUsers, EmptyId <- "", Nobody <- None
MCShards == [workerId: {"", "w", "v"}, owners: SUBSET MCUsers, isDefault: BOOLEAN]
ASSUME TopologyIsSound ==
  \A n \in 0 .. 3 : \A shards \in [1 .. n -> MCShards] :
    /\ T!CreatedIffDisjoint(shards)
    /\ T!OwnersAgree(shards)
    /\ T!OrderIsIrrelevant(shards)
====
