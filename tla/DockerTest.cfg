SPECIFICATION FairSpec
CONSTANTS
  t1 = t1 s1 = s1 s2 = s2
  None = None
  Threads = {t1}
  Subnets = {s1, s2}
  Cap = 1
  MaxCtrs = 2
  MaxOps = 2
  MaxExecs = 2
  MaxKills = 1
INVARIANT RelayerTracked CleanedUp Flushed
PROPERTY ExecReturns TestEnds
