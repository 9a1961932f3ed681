SPECIFICATION Spec
CONSTANTS
  k1 = k1
  k2 = k2
  k3 = k3
  Keys = {k1, k2, k3}
  Threshold = 2
  MaxDepth = 4
  MaxGeneration = 3
INVARIANTS ActiveExact NoKeyTwice
