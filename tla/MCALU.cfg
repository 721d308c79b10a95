CONSTANTS
  Width = 4
  Trap <- MCTrap
SPECIFICATION Spec
INVARIANTS RotationsRotate DivisionWithRemainder
\* Every pair of words has been visited.
CHECK_DEADLOCK FALSE
