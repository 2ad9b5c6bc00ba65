CONSTANTS
  Worker = {w1, w2}
  Job = {1}
  Handler = {h1, h2}
  MaxAttempts = 2
  MaxClicks = 2
  MaxFaults = 1
  None = None
SPECIFICATION Spec
SYMMETRY ProcessSymmetry
INVARIANTS
  TypeOK
  ControlCountsOnce
  WaitingCanBeAnswered
  SucceededIsReported
PROPERTIES
  ControlHitsShownJob
  MovesLikeBoard
CHECK_DEADLOCK FALSE
