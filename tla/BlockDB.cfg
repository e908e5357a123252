SPECIFICATION FairSpec
CONSTANTS
  p1 = p1 p2 = p2 p3 = p3
  a = a b = b ab = ab
  None = None
  Callers = {p1, p2, p3}
  Heights = {1}
  TxLists <- Lists
  HashOf <- Hashes
  MaxSaves = 3
INVARIANT NoOrphans
PROPERTY ImplementsStore SaveReturns
