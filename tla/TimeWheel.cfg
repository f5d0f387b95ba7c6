CONSTANTS
  k1 = k1
  k2 = k2
  Keys <- MCKeys
  NumSlots = 5
  WordBits = 2
  NumWords = 3
  MaxAhead = 6
SPECIFICATION Spec
INVARIANT BitmapAgrees
PROPERTY FiresOnTime
