CONSTANTS
  a = a
  b = b
  Gaussian = Gaussian
  Bernstein = Bernstein
  Node = {a, b}
  ParentLimits = {1}
  K <- MCK
  Restarts = 1
  TabuSize = 2
  Word = 8
  Penalty = 1
  Modes = {Gaussian, Bernstein}
  Entropies <- MCEntropies
  InitialDAGs <- MCInitialDAGs
  MaxSwitches = 1
SPECIFICATION Spec
PROPERTY ReportedScoreIsCurrent
CHECK_DEADLOCK FALSE
