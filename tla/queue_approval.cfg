\* What the worker writes when it parks a job, and what an approval looks for.
CONSTANTS
  PullRequest = {p1}
  Kind = {"ci_repair"}
  Worker = {w1}
  Token = {t1, t2}
  HeadSha = {a}
  Hash = {h1}
  None = None
  MaxJobs = 1
  MaxAttempts = 2
  LeaseTicks = 1
  PlanItems = 1
  MaxSkips = 1
  NestedDetails = FALSE
SPECIFICATION Spec
INVARIANTS
  WaitingCanBeApproved
