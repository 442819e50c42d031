CONSTANTS
  x = x
  y = y
  z = z
  px = px
  py = py
  pz = pz
  Node = {x, y, z, px, py, pz}
  Learned <- MCLearned
SPECIFICATION Spec
INVARIANTS
  DirectedPartAcyclic
  AdjacenciesKept
  PriorityHonoured
  MissingOnlyIfCyclic
  RecoversVStructures
  MoralGraphOfDAG
