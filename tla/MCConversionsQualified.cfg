SPECIFICATION ConversionsSpec
CONSTANTS
  Documents <- MCDocuments
  SigmaRules <- MCSigmaRules
  CustomChannels <- MCCustomChannels
  PositionalKeys <- MCPositionalKeys
  Qualified = {FALSE, TRUE}
  LastYear = 1601
  Clocks <- MCClocks
  Zones <- MCZones
INVARIANTS QualifiedIdsAreRead
CHECK_DEADLOCK FALSE
