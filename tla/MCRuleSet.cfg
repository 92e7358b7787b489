SPECIFICATION Spec
CONSTANTS
  f1 = f1
  f2 = f2
  f3 = f3
  f4 = f4
  f5 = f5
  u1 = u1
  u2 = u2
  None = None
  A1 = A1
  A2 = A2
  Bad = Bad
  B1 = B1
  B2 = B2
  L1 = L1
  O1 = O1
  Files = {f1, f2, f3, f4, f5}
  Uuids = {u1, u2}
  Place <- MCPlace
  Called <- MCCalled
  Docs = {A1, A2, Bad, B1, B2, L1, O1}
  Meta <- MCMeta
  Filters <- MCFilters
  ServiceChannels <- MCService
  CategoryChannels <- MCCategory
  ChannelCollector = TRUE
INVARIANTS EngineRunsTheRules CacheHoldsItsKey RetiredAreNotDetected EveryIdIsAccountedFor AlertsPointAtTheirFile
