\* Skip and the write of current_item by a worker that lost its lease.
CONSTANTS
  PullRequest = {p1}
  Kind = {"feedback_repair"}
  Worker = {w1, w2}
  Token = {t1, t2, t3}
  HeadSha = {}
  Hash = {h1}
  None = None
  MaxJobs = 1
  MaxAttempts = 5
  LeaseTicks = 1
  PlanItems = 2
  MaxSkips = 2
  NestedDetails = FALSE
SPECIFICATION Spec
PROPERTIES
  SkipTakesTheRunningItem
