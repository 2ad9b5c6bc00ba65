\* Two workers over the rows of one pull request's feedback repair: leases that
\* run out, takeovers, skips, approvals and cancels, down to the last attempt.
CONSTANTS
  PullRequest = {p1}
  Kind = {"feedback_repair"}
  Worker = {w1, w2}
  Token = {t1, t2, t3, t4}
  HeadSha = {}
  Hash = {h1}
  None = None
  MaxJobs = 2
  MaxAttempts = 2
  LeaseTicks = 2
  PlanItems = 2
  MaxSkips = 1
  NestedDetails = TRUE
SPECIFICATION Spec
SYMMETRY Symmetry
INVARIANTS
  TypeOK
  LeaseColumnsMatchState
  LivePlanIsCurrent
  TokenNamesLease
  AttemptAccounting
PROPERTIES
  LostLeaseStaysLost
  TerminalIsFinal
  ImplementsBoard
