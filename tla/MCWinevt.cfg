SPECIFICATION FairSpec
CONSTANTS
  BatchSize = 2
  MAX_EVENTS = 3
  ROLLOVER_CHECK_CYCLES = 2
  ChannelCap = 1
  MaxLogged = 3
  MaxLogs = 2
INVARIANTS SentInOrder NothingSkipped
PROPERTIES LoggedIsSent
CHECK_DEADLOCK FALSE
