\* The App is uninstalled and installed again; every event arrives, in order.
CONSTANTS
  Handler = {h1}
  Worker = {w1}
  MaxDeliveries = 2
  MaxEdits = 0
  MaxInstallations = 2
  MaxFaults = 0
  None = None
SPECIFICATION Spec
PROPERTIES
  RestoredIsEligible
