SPECIFICATION FairSpec
CONSTANTS
  r1 = r1
  r2 = r2
  Rules = {r1}
  MaxFailedCycles = 3
  AddJson = TRUE
  Format = "Evtx"
  MaxAlerts = 2
  MaxRestarts = 1
PROPERTY KeepsMatchingIsSettled
CHECK_DEADLOCK FALSE
