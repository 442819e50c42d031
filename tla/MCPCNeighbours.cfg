CONSTANTS
  a = a
  b = b
  c = c
  d = d
  Node = {a, b, c, d}
  MaxCondSet = 4
  Alpha = 2
  Scale = 3
  Samples <- MCSamples
SPECIFICATION Spec
INVARIANT NeighboursDoNotSeparate
