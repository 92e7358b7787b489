SPECIFICATION FairSpec
CONSTANTS
  MaxLines = 3
  MaxFiles = 2
  ReadMax = 3
  Types = {"PATH", "junk"}
INVARIANTS SentAsWritten ReadIsSent
PROPERTY GroupsCloseWhenIdle
CHECK_DEADLOCK FALSE
