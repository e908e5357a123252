SPECIFICATION FairSpec
CONSTANTS
  t1 = t1 t2 = t2
  cA = cA cB = cB cC = cC
  pAB = pAB pBA = pBA
  None = None
  Threads = {t1, t2}
  Chains = {cA, cB, cC}
  Paths = {pAB, pBA}
  PathEnds <- OppositeEnds
  Configured = {cA}
  Generated <- OppositeGenerated
  PathsOf <- SomePaths
  Ops = {"LinkPath", "CreateClient", "UpdateClients", "UpdatePath", "GeneratePath", "AddChainConfiguration", "Flush"}
  UpdateOpts <- ClientOpts
  ClientPairs <- ForeignHost
  Tracked <- ForeignClients
  MaxCalls = 2
  MaxIDs = 2
  MaxObjs = 2
INVARIANT ChainExclusive HoldAndWaitGated
PROPERTY PathJoinsItsChains EveryCallReturns
CHECK_DEADLOCK FALSE
