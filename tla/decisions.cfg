\* Every decision about every input of a small instance.
CONSTANTS
  OpenSets <- MCOpenSets
  Patches <- MCPatches
  Inlines <- MCInlines
  ReadSets <- MCReadSets
  Repairs <- MCRepairs
SPECIFICATION Spec
INVARIANTS
  PlanIsTheStack
  RepairIsExact
  ReadyMeansReported
  CommitStaysInBounds
CHECK_DEADLOCK FALSE
