CONSTANTS
  a = a
  b = b
  Gaussian = Gaussian
  Node = {a, b}
  ParentLimits = {1}
  K <- MCK
  Restarts = 0
  TabuSize = 2
  Word = 8
  Penalty = 1
  Modes = {Gaussian}
  Entropies <- MCEntropies
  InitialDAGs = {{}}
  MaxSwitches = 0
SPECIFICATION Spec
INVARIANT RestartsRespected
CHECK_DEADLOCK FALSE
