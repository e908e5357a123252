SPECIFICATION FairSpec
CONSTANTS
  k1 = k1 k2 = k2
  Threads = {1, 2}
  Miner = miner
  Users <- SomeUsers
  Faucet = faucet
  Mweb = mweb
  Stranger = stranger
  Families = {"utxo"}
  UtxoConfigs <- OneOfBoth
  Outputs = {1, 2}
  MaxCalls <- FewCalls
  MaxFaults = 0
  MaxTries = 1
  None = None
PROPERTY MwebTransactionEnds
CHECK_DEADLOCK FALSE
