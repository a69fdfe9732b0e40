CONSTANTS
  Ids = {"spin", "pin", "warm"}
  Definition <- MCDefinition
  MaxConcurrent = 2
  MaxSamples = 2
SPECIFICATION Spec
INVARIANTS
  ExperimentsAssumption
  TypeOK
  NoConflictOn
  CeilingKept
  AdoptedHasEvidence
