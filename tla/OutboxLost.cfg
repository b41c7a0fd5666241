\* Throttled vaults, lost answers, late landings and restarts; a seed-flow vault no client opens.
SPECIFICATION FairOutboxSpec
CONSTANTS
  a1 = a1
  a2 = a2
  a3 = a3
  A = A
  B = B
  NoMatch = NoMatch
  OwnerOf <- OwnEach
  StartingBalance <- ThreeEach
  WorstMatch <- OneBand
  Agents = {a1, a2, a3}
  Seeded = {a3}
  Legacy = {}
  Bands = {A}
  Callers = {c1}
  Active = {a1}
  OUTFLOW_BUDGET_FLOOR = 4
  OUTFLOW_BUDGET_DIVISOR = 5
  OUTFLOW_WINDOW = 0
  Bars = {}
  Nets = {1}
  MaxOps = 3
  U64Max = 255
  WINDOW_SLOTS = 1
  MAX_CHIP_RATE = 1
  MIN_RATE_INTERVAL_SLOTS = 1
  MAX_SETTLEMENT_CEILING_CHIPS = 1
  OUTFLOW_FLOOR_CHIPS = 4
  MIN_EXIT_WINDOW_SLOTS = 1
  MIN_STAKE_CHIPS = 1
  BatchLimit = 3
  Clients = {"deposit"}
  PaidBefore <- FloorPaid
INVARIANTS
  OutboxTypeOK
PROPERTIES
  EverythingLands
\* The ops run out, and then nobody plays any more.
CHECK_DEADLOCK FALSE
