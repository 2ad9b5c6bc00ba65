\* Two requests at a time, two changes of the pull request.
CONSTANTS
  Handler = {h1, h2}
  Worker = {w1}
  MaxDeliveries = 2
  MaxEdits = 2
  MaxInstallations = 1
  MaxFaults = 1
  None = None
SPECIFICATION Spec
SYMMETRY HandlerSymmetry
INVARIANTS
  TypeOK
  AckedIsApplied
  AppliedOncePerFailure
PROPERTIES
  RevokedStaysRevoked
  LateNewsIsDropped
