\* Every match under the shipped stakes, in either turn order.
SPECIFICATION Spec
CONSTANTS
  ante = 4
  baseBet = 10
  raisedBet = 20
  MAX_ROUNDS = 3
  ROUNDS_TO_WIN = 2
INVARIANTS
  TypeOK
  NetWithinMaxNet
  RaiseIsHeard
\* A match ends.
CHECK_DEADLOCK FALSE
