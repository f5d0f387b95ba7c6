CONSTANTS
  p = p
  q = q
  Callers <- MCCallers
  Rate = 1
  Capacity = 2
  Second = 2
  MaxTime = 5
SPECIFICATION FairSpec
INVARIANTS TokensAccounted RateWhileForward
PROPERTY CallsReturn
