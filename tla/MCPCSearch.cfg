CONSTANTS
  a = a
  b = b
  c = c
  d = d
  Node = {a, b, c, d}
  Listings <- MCListings
  Ends <- MCEnds
  K <- MCK
  MaxCondSet = 4
  Alpha = 2
  Scale = 3
  Samples <- MCSamples
SPECIFICATION SearchSpec
INVARIANTS
  SearchTypeOK
  CacheConsistent
  NoUselessDensity
PROPERTIES
  NoDensityTwice
  SkeletonSpec
