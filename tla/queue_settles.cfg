\* Requests over two kinds and two heads that race with the jobs they ask for; crashes
\* and lost leases under fair polling, fair completion and a clock.
CONSTANTS
  PullRequest = {p1}
  Kind = {"ci_repair", "reconcile"}
  Worker = {w1}
  Token = {t1, t2, t3}
  HeadSha = {a, b}
  Hash = {h1}
  None = None
  MaxJobs = 2
  MaxAttempts = 2
  LeaseTicks = 1
  PlanItems = 1
  MaxSkips = 1
  NestedDetails = TRUE
SPECIFICATION FairSpec
INVARIANTS
  OneActivePerIdentity
PROPERTIES
  EveryJobSettles
