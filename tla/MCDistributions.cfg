CONSTANTS
  Node <- MCNode
  Listing <- MCListing
  Given <- MCGiven
  Trees <- MCTrees
  Sizes = {1, 4, 5}
  BinNumbers = {2}
  Columns <- MCColumns
  Orders <- MCOrders
  Indices <- MCIndices
SPECIFICATION MCSpec
INVARIANTS
  ComponentsMatch
  MarginalCliquesExact
  MarginalIsJunctionTree
  SimulatesItsDensity
  SampleFits
PROPERTIES
  CallsReturn
