SPECIFICATION FairSpec
CONSTANTS
  MaxEvents = 3
  ChannelCap = 2
  Limits = {0, 2}
INVARIANTS NoEventIsLost FinalFlushIsSettled
PROPERTIES RunsTerminate TakenIsExamined ImplementsStream
CHECK_DEADLOCK FALSE
