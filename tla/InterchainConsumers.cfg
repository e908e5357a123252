SPECIFICATION Spec
CONSTANTS
  prov = prov cons = cons free = free r1 = r1 r2 = r2 pA = pA pB = pB
  None = None
  Chains = {prov, cons, free}
  ChainID <- OwnID
  ChainName <- OwnID
  Relayers = {r1}
  Paths = {pA, pB}
  Links <- NoLinks
  PCLinks <- TwoConsumers
  Validators <- OneEach
INVARIANT ClientsTrackPeer
