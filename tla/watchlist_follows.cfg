\* The loops keep turning; deliveries come or do not come.
CONSTANTS
  Handler = {h1}
  Worker = {w1}
  MaxDeliveries = 2
  MaxEdits = 2
  MaxInstallations = 1
  MaxFaults = 1
  None = None
SPECIFICATION FairSpec
PROPERTIES
  InventoryHeals
