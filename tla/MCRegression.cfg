SPECIFICATION Spec
CONSTANTS
  r1 = r1
  r2 = r2
  Rules = {r1, r2}
  MaxFailedCycles = 2
  AddJson = TRUE
  Format = "Evtx"
  MaxAlerts = 2
  MaxRestarts = 1
SYMMETRY Symmetry
INVARIANTS BatchesAreWhole GivenUpAtTheLimit RetiredLeaveTheRules
PROPERTIES RetiredAreLeftAlone ImplementsLifecycle
CHECK_DEADLOCK FALSE
