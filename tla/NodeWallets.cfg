SPECIFICATION FairSpec
CONSTANTS
  k1 = k1 k2 = k2
  Threads = {1, 2}
  Miner = miner
  Users <- SomeUsers
  Faucet = faucet
  Mweb = mweb
  Stranger = stranger
  Families = {"utxo", "utxoOld", "geth", "anvil"}
  UtxoConfigs <- OneOfBoth
  Outputs = {1, 2}
  MaxCalls <- FewCalls
  MaxFaults = 1
  MaxTries = 1
  None = None
INVARIANT WalletLoaded NoDoubleSpend IdleUnloaded
PROPERTY KeyOwnsAccount CallsReturn
CHECK_DEADLOCK FALSE
