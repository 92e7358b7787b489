SPECIFICATION ConversionsSpec
CONSTANTS
  Documents <- MCDocuments
  SigmaRules <- MCSigmaRules
  CustomChannels <- MCCustomChannels
  PositionalKeys <- MCPositionalKeys
  Qualified = {FALSE}
  LastYear = 2001
  Clocks <- MCClocks
  Zones <- MCZones
INVARIANTS RulesSeeTheirEvents WhatMatchedIsRecorded DaysAreCounted SameInstantSameFiletime
CHECK_DEADLOCK FALSE
