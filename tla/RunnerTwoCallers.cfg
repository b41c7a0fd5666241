\* Two requests side by side, bands changing, rentals ending and withdrawals on their way.
SPECIFICATION Spec
CONSTANTS
  a1 = a1
  a2 = a2
  a3 = a3
  A = A
  B = B
  NoMatch = NoMatch
  OwnerOf <- OwnEach
  StartingBalance <- Uneven
  WorstMatch <- TwoBands
  Agents = {a1, a2, a3}
  Seeded = {a3}
  Legacy = {}
  Bands = {A, B}
  Callers = {c1, c2}
  Active = {a1}
  OUTFLOW_BUDGET_FLOOR = 2
  OUTFLOW_BUDGET_DIVISOR = 5
  OUTFLOW_WINDOW = 2
  Bars = {"withdrawing"}
  Nets = {1, 2}
  MaxOps = 3
INVARIANTS
  OutboxMirrorsLedger
  RetiredExactlyWhenBroke
  OverdraftBounded
  CommitmentsWithinBudget
PROPERTIES
  StoppedBalancesStand
\* The ops run out, and then nobody plays any more.
CHECK_DEADLOCK FALSE
