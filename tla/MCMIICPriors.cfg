CONSTANTS
  Node = {1, 2, 3}
  Learned <- MCLearned
  Choosable <- MCChoosable
  MaxAsked = 1
SPECIFICATION Spec
INVARIANT MandatoryArcsAdded
CHECK_DEADLOCK FALSE
