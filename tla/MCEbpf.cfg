\* Short staging maps, ring and cache, so that each of them is full
CONSTANTS
  Pids = {p1, p2}
  Tids = {t1}
  Images = {sh, ls}
  Created = {tmp, odd}
  Unprintable = {odd}
  Queries <- MCQueries
  example = example
  None = None
  RingCap = 2
  StageMax = 1
  HashCap = 1
  MaxBorn = 2
  MaxCalls = 3
  MaxRewrites = 1
SPECIFICATION Spec
INVARIANT IdentityIsTheCallers
INVARIANT HashesAreOfTheContent
INVARIANT EveryHashCanBeEvicted
SYMMETRY MCSymmetry
CHECK_DEADLOCK FALSE
