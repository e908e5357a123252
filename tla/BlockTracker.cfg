SPECIFICATION TrackerFairSpec
CONSTANTS
  c1 = c1 c2 = c2
  Chains = {c1, c2}
  MaxHeight = 2
INVARIANT CollectedPrefix
PROPERTY CatchesUp CollectorsEnd
