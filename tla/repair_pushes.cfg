\* One job, of either kind, that two workers take over from each other, while a
\* user pushes.
CONSTANTS
  Worker = {w1, w2}
  Job = {1}
  Suggestion = {1}
  Threaded = {1}
  Shape <- AllPatches
  CiPatch = 0
  UserCommit = {u1}
  MaxCommits = 2
  MaxAttempts <- ThreeAttempts
  User = User
  NeedsApproval = FALSE
  None = None
SPECIFICATION Spec
SYMMETRY WorkerSymmetry
INVARIANTS
  TypeOK
  AppliedIsLanded
  MarkedIsAnswered
  FewLateCalls
  CiPatchApproved
PROPERTIES
  RepairExtendsBranch
  MovesLikeBoard
