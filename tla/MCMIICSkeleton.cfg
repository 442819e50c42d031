CONSTANTS
  Node = {1, 2, 3, 4}
  Half = 1
  Loose = Loose
  Strict = Strict
  Settings = {Loose, Strict}
  Kinds = {"independent", "one", "two", "limit", "unlikely", "strong"}
  Samples <- MCSamples
  MaxCalls = 2
  MaxSwitches = 1
SPECIFICATION Spec
INVARIANTS
  EachEdgeOnce
PROPERTIES
  RemovedByItsChain
  KeptEdgesResist
  LearnTerminates
CHECK_DEADLOCK FALSE
