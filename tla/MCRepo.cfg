SPECIFICATION Spec
CONSTANTS
  r1 = r1
  r2 = r2
  Rules = {r1, r2}
  LastDay = 2
  MaxSessions = 3
  NoBranch = NoBranch
SYMMETRY Symmetry
INVARIANTS ContributedOnce OnlyPublishedIsSkipped LocalExtendsFork FailedUploadLeavesNoCommit
CHECK_DEADLOCK FALSE
