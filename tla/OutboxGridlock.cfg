\* Settlements that overtake one another until none can be paid, against worker.ts 29-30.
SPECIFICATION OutboxSpec
CONSTANTS
  a1 = a1
  a2 = a2
  a3 = a3
  A = A
  B = B
  NoMatch = NoMatch
  OwnerOf <- OwnEach
  StartingBalance <- Thin
  WorstMatch <- ThreeBand
  Agents = {a1, a2, a3}
  Seeded = {}
  Legacy = {}
  Bands = {A}
  Callers = {c1}
  Active = {a1}
  OUTFLOW_BUDGET_FLOOR = 6
  OUTFLOW_BUDGET_DIVISOR = 5
  OUTFLOW_WINDOW = 0
  Bars = {}
  Nets = {1, 3}
  MaxOps = 5
  U64Max = 255
  WINDOW_SLOTS = 1
  MAX_CHIP_RATE = 1
  MIN_RATE_INTERVAL_SLOTS = 1
  MAX_SETTLEMENT_CEILING_CHIPS = 1
  OUTFLOW_FLOOR_CHIPS = 6
  MIN_EXIT_WINDOW_SLOTS = 1
  MIN_STAKE_CHIPS = 1
  BatchLimit = 5
  Clients = {"seed", "deposit"}
  PaidBefore <- FloorPaid
INVARIANTS
  SomeOpCanLand
\* The ops run out, and then nobody plays any more.
CHECK_DEADLOCK FALSE
