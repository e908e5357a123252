SPECIFICATION WaitFairSpec
CONSTANTS
  c1 = c1 c2 = c2
  Chains = {c1, c2}
  Head = c1
  Delta = 2
  MaxHeight = 4
INVARIANT PollFinds BlocksPassed InSync
 
