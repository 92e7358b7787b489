SPECIFICATION StartupSpec
CONSTANTS
  Worlds <- MCWorlds
  NewFiles = {"messages", "cron"}
  MaxWritten = 1
INVARIANTS OfflineStaysLocal DryRunWritesNothing OneLineOneCollector
CHECK_DEADLOCK FALSE
