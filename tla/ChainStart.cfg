CONSTANTS
  Families <- MCFamilies
  NumValidators = 2
  NumFullNodes = 1
  NumSidecars = 2
  NumRelay = 2
  Parachains <- MCParachains
  Wallets <- MCWallets
  GasPayer = gasPayer
  Bond = bond
  relayer = relayer
  None = None
  Torn = Torn
SPECIFICATION Spec
INVARIANTS RunsWithItsGenesis StartsAfterItsNeeds
PROPERTIES QuietAfterReturn StartReturns
