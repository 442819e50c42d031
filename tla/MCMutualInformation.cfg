CONSTANTS
  a = a
  b = b
  c = c
  Node = {a, b, c}
  K <- MCK
  Entropies <- MCEntropies
  Alphas = {1, 2}
SPECIFICATION Spec
INVARIANTS
  AnswersCurrent
