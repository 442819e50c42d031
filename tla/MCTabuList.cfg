CONSTANTS
  a = a
  b = b
  c = c
  Gaussian = Gaussian
  Bernstein = Bernstein
  Node = {a, b, c}
  ParentLimits = {1, 2}
  K <- MCK
  Restarts = 2
  TabuSize = 2
  Word = 8
  Penalty = 1
  Modes = {Gaussian, Bernstein}
  Strengths = {0, 2, 3}
  Entropies <- MCEntropies
  InitialDAGs <- MCInitialDAGs
  MaxSwitches = 1
SPECIFICATION Spec
INVARIANTS
  TypeOK
  StaysLegal
  ScoreIsBIC
PROPERTIES
  RunImproves
  BestIsBest
  LearnTerminates
CHECK_DEADLOCK FALSE
