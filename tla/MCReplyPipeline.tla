---------------------------- MODULE MCReplyPipeline ----------------------------
(* Three messages in two rooms, one of them from a sender who may not start *)
(* a job, and two rule sets.                                                *)
EXTENDS ReplyPipeline, TLC

CONSTANTS m1, m2, m3, A, B, r1, r2

MCRoomOf == m1 :> A @@ m2 :> A @@ m3 :> B
MCRuleSets ==
  {[m \in Msgs |-> r1], [m \in Msgs |-> IF m = m1 THEN r2 ELSE NoRule]}
Limits(t, n) == [ttl |-> t, max |-> n]
MCIncoming == Limits(1, 2)
MCReply == Limits(2, 2)
MCRoom == Limits(3, 1)
MCJobs == Limits(4, 1)
===============================================================================
