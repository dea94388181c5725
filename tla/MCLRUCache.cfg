CONSTANTS
  Key = {k1, k2, k3, k4}
  Block = {b1, b2}
  Node = {n1, n2, n3, n4}
  Size = 3
  NoBlock = NoBlock
SYMMETRY NodeSymmetry
SPECIFICATION Spec
INVARIANTS TypeOK HashMatchesList CapacityRespected KeepsMostRecentlyUsed FailureCostsOneBlock
PROPERTIES RecentlyUsedHits CacheSpec
