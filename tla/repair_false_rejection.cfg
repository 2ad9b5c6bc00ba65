\* The retry of a repair that was pushed and could not be recorded.
CONSTANTS
  Worker = {w1}
  Job = {1}
  Suggestion = {1}
  Threaded = {1}
  Shape <- AllPatches
  CiPatch = 0
  UserCommit = {u1}
  MaxCommits = 3
  MaxAttempts <- TwoAttempts
  User = User
  NeedsApproval = FALSE
  None = None
SPECIFICATION Spec
PROPERTIES
  RejectionIsTrue
