CONSTANTS
  k1 = k1
  k2 = k2
  k3 = k3
  k4 = k4
  v1 = v1
  v2 = v2
  None = None
  Keys <- MCKeys
  Values <- MCValues
  Capacity = 3
  MaxTouches = 5
SPECIFICATION Spec
INVARIANTS ListMatchesMap OrderedByUse
PROPERTY ImplementsLru
