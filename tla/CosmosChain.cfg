SPECIFICATION FairSpec
CONSTANTS
  s1 = s1 s2 = s2 None = None
  NVals = 2
  NFull = 0
  MaxFull = 1
  SidecarIDs = {s1, s2}
  PreStart = {s1}
  MaxOps = 4
INVARIANT OneGenesis NodesAfterSidecars RestartExclusive
PROPERTY OpsReturn
