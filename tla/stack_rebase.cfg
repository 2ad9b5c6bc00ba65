CONSTANTS
  Worker = {w1, w2}
  Job = {1, 2}
  PR = {1, 2, 3}
  Declared <- MCDeclared
  Line <- MCLine
  Setting <- MCSetting
  MaxAttempts <- MCAttempts
  MaxActs = 1
  MaxFaults = 1
  None = None
SPECIFICATION Spec
SYMMETRY WorkerSymmetry
INVARIANTS
  TypeOK
  CompletedStackIsLinear
  OnlyPeopleMoveBases
PROPERTIES
  WorkSurvives
  OnlyOwnedRewritten
  BasesFollowBranches
  MovesLikeBoard
CHECK_DEADLOCK FALSE
