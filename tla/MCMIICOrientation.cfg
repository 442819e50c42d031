CONSTANTS
  Node = {1, 2, 3, 4, 5}
  Learned <- MCLearned
  Choosable <- MCChoosable
  MaxAsked = 3
SPECIFICATION Spec
INVARIANTS
  PDAGAcyclic
  AdjacenciesKept
  LatentResolved
  RecoversDAG
PROPERTIES
  ForbiddenOnlyAgainstCycle
CHECK_DEADLOCK FALSE
