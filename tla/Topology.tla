-------------------------------- MODULE Topology --------------------------------
(***************************************************************************)
(* Which worker process serves an owner (sharding/topology.ts).  A shard is *)
(* [workerId, owners, isDefault]; the array of its owners is a set, as its  *)
(* order and repetitions change nothing here.                               *)
(***************************************************************************)
EXTENDS Integers, Sequences
LOCAL INSTANCE SequencesExt

CONSTANTS
  Owners,
  EmptyId,   (* the workerId of length 0                                     *)
  Nobody     (* undefined                                                    *)

(* What validateTopology has met before a shard.                            *)
NothingSeen ==
  [workers |-> {}, owning |-> [o \in Owners |-> Nobody], defaults |-> 0, errors |-> {}]

(* One turn of its loop.                                                    *)
Visit(seen, shard) ==
  [workers |-> seen.workers \union {shard.workerId},
   owning |-> [o \in Owners |->
                 IF o \in shard.owners THEN shard.workerId ELSE seen.owning[o]],
   defaults |-> IF shard.isDefault THEN seen.defaults + 1 ELSE seen.defaults,
   errors |-> seen.errors
     \union {e \in {"empty workerId"} : shard.workerId = EmptyId}
     \union {e \in {"duplicate workerId"} : shard.workerId \in seen.workers}
     \union {e \in {"owner in two workers"} :
               \E o \in shard.owners : seen.owning[o] \notin {Nobody, shard.workerId}}]

(* The problems that are errors; warnings stop nothing.                     *)
ValidateTopology(shards) ==
  LET seen == FoldLeft(Visit, NothingSeen, shards)
  IN seen.errors
       \union {e \in {"more than one default shard"} : seen.defaults > 1}
       \union {e \in {"no shards"} : shards = << >>}

Created(shards) == ValidateTopology(shards) = {}

(* #byOwner: a later shard overwrites an earlier one.                       *)
ByOwner(shards) ==
  FoldLeft(LAMBDA map, shard :
             [o \in Owners |-> IF o \in shard.owners THEN shard ELSE map[o]],
           [o \in Owners |-> Nobody], shards)

(* shards.find: the first of those wanted, given by their places.           *)
Find(shards, wanted) ==
  IF wanted = {} THEN Nobody
  ELSE shards[CHOOSE i \in wanted : \A j \in wanted : i <= j]

DefaultOf(shards) == Find(shards, {i \in DOMAIN shards : shards[i].isDefault})

WorkerFor(shards, owner) ==
  IF ByOwner(shards)[owner] # Nobody THEN ByOwner(shards)[owner] ELSE DefaultOf(shards)

BelongsTo(shards, owner, workerId) ==
  WorkerFor(shards, owner) # Nobody /\ WorkerFor(shards, owner).workerId = workerId

OwnersOf(shards, workerId) ==
  LET found == Find(shards, {i \in DOMAIN shards : shards[i].workerId = workerId})
  IN IF found = Nobody THEN {} ELSE found.owners

(* ---------------------------------------------------------------------- *)
(* What the other processes rely on.                                        *)

(* A topology is created exactly when its shards have distinct names, their *)
(* owners are disjoint, and at most one of them is the default.             *)
CreatedIffDisjoint(shards) ==
  Created(shards) <=>
    /\ shards # << >>
    /\ \A i \in DOMAIN shards : shards[i].workerId # EmptyId
    /\ \A i, j \in DOMAIN shards :
         i # j => /\ shards[i].workerId # shards[j].workerId
                  /\ shards[i].owners \intersect shards[j].owners = {}
                  /\ ~ (shards[i].isDefault /\ shards[j].isDefault)

(* What a worker is told it owns is its own: ownersOf and belongsTo agree   *)
(* for every owner, and a worker that is asked for no owner by name is the  *)
(* default.                                                                 *)
OwnersAgree(shards) ==
  Created(shards) =>
    \A i \in DOMAIN shards, o \in Owners :
      LET w == shards[i].workerId
      IN /\ o \in OwnersOf(shards, w) => BelongsTo(shards, o, w)
         /\ BelongsTo(shards, o, w) => o \in OwnersOf(shards, w) \/ shards[i].isDefault

(* Processes that list the same shards in another order agree on who serves *)
(* an owner: otherwise two of them would answer for it.                     *)
OrderIsIrrelevant(shards) ==
  Created(shards) => \A o \in Owners : WorkerFor(shards, o) = WorkerFor(Reverse(shards), o)
================================================================================
