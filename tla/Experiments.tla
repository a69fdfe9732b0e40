------------------------------- MODULE Experiments ------------------------------
(***************************************************************************)
(* The experiment registry (experiments/registry.ts): which techniques are  *)
(* on, and what it takes to put one on.  Notes are left out.                *)
(***************************************************************************)
EXTENDS Integers, FiniteSets

CONSTANTS
  Ids,            (* the experiments of the definitions given               *)
  Definition,     (* of each: [host, conflictsWith, minSamples]             *)
  MaxConcurrent,
  MaxSamples      (* bound: samples reported with a verdict                 *)

VARIABLES
  state, evidence,   (* of each entry                                       *)
  leapt              (* history: adopted while they were not on             *)

vars == <<state, evidence, leapt>>

States == {"not-run", "running", "adopted", "rejected", "blocked"}
EvidenceKinds == {"none", "local-replay", "live-paired", "host-profile"}

(* The constructor accepts no other definitions.                            *)
DefinitionsResolve ==
  Definition \in
    [Ids -> [host: BOOLEAN, conflictsWith: SUBSET Ids, minSamples: Nat \ {0}]]

ExperimentsAssumption ==
  IsFiniteSet(Ids) /\ MaxConcurrent \in Nat /\ DefinitionsResolve

Init ==
  /\ state = [id \in Ids |-> IF Definition[id].host THEN "blocked" ELSE "not-run"]
  /\ evidence = [id \in Ids |-> "none"]
  /\ leapt = {}

IsOn(id) == state[id] \in {"running", "adopted"}

Active == {id \in Ids : IsOn(id)}

Conflict(a, b) == b \in Definition[a].conflictsWith \/ a \in Definition[b].conflictsWith

ConflictOn(id) == \E other \in Active : Conflict(id, other)

(* A start that is refused throws and changes nothing.                      *)
Start(id, hostControlConfirmed) ==
  /\ ~ IsOn(id)
  /\ Definition[id].host => hostControlConfirmed
  /\ ~ ConflictOn(id)
  /\ Cardinality(Active) < MaxConcurrent
  /\ state' = [state EXCEPT ![id] = "running"]
  /\ UNCHANGED <<evidence, leapt>>

(* An adoption wants evidence and samples, and looks at no other entry.     *)
Adopt(id, kind, samples) ==
  /\ kind # "none" /\ samples >= Definition[id].minSamples
  /\ state' = [state EXCEPT ![id] = "adopted"]
  /\ evidence' = [evidence EXCEPT ![id] = kind]
  /\ leapt' = IF IsOn(id) THEN leapt ELSE leapt \union {id}

Reject(id, kind) ==
  /\ state' = [state EXCEPT ![id] = "rejected"]
  /\ evidence' = [evidence EXCEPT ![id] = kind]
  /\ leapt' = leapt \ {id}

Conclude(id) ==
  \E kind \in EvidenceKinds :
    \/ \E samples \in 0 .. MaxSamples : Adopt(id, kind, samples)
    \/ Reject(id, kind)

Rollback(id) ==
  /\ state' = [state EXCEPT ![id] = "rejected"]
  /\ leapt' = leapt \ {id}
  /\ UNCHANGED evidence

Block(id) ==
  /\ state' = [state EXCEPT ![id] = "blocked"]
  /\ leapt' = leapt \ {id}
  /\ UNCHANGED evidence

Next ==
  \E id \in Ids :
    \/ \E confirmed \in BOOLEAN : Start(id, confirmed)
    \/ Conclude(id)
    \/ Rollback(id)
    \/ Block(id)

Spec == Init /\ [][Next]_vars

(* ---------------------------------------------------------------------- *)
(* Properties.                                                              *)

TypeOK ==
  /\ state \in [Ids -> States] /\ evidence \in [Ids -> EvidenceKinds]
  /\ leapt \in SUBSET Ids

Started == Active \ leapt

(* No two techniques that interact are on together, whichever of the two    *)
(* declares it, unless one of them was adopted without having been started. *)
NoConflictOn ==
  \A a, b \in Started : a # b => ~ Conflict(a, b)

(* No more are on than the ceiling, those aside.                            *)
CeilingKept == Cardinality(Started) <= MaxConcurrent

(* What is adopted was measured: it has evidence, through every start,      *)
(* rollback and verdict that came before or after.                          *)
AdoptedHasEvidence ==
  \A id \in Ids : state[id] = "adopted" => evidence[id] # "none"

(* What the registry says it refuses (registry.ts:28-30), which an adoption *)
(* gets past.                                                               *)
InteractingNeverOn ==
  \A a, b \in Active : a # b => ~ Conflict(a, b)
================================================================================
