\* Deposits, settlements, withdrawals and rent, while the chip rate and the limit move.
SPECIFICATION Spec
CONSTANTS
  a1 = a1
  a2 = a2
  p1 = p1
  House = House
  Admin = Admin
  NoExit = NoExit
  AgentIdFor <- PlayerAndHouse
  U64Max = 255
  WINDOW_SLOTS = 2
  MAX_CHIP_RATE = 4
  MIN_RATE_INTERVAL_SLOTS = 2
  MAX_SETTLEMENT_CEILING_CHIPS = 2
  OUTFLOW_FLOOR_CHIPS = 1
  MIN_EXIT_WINDOW_SLOTS = 1
  MIN_STAKE_CHIPS = 2
  Agents = {a1, a2}
  Players = {p1}
  Settlers = {s1, s2}
  Matches = {m1, m2}
  WithdrawalIds = {w1}
  RentalIds = {r1}
  Amounts = {0, 2, 14}
  Rates = {2, 3}
  Limits = {2, 5}
  Rents = {1}
  ExitWindows = {}
  Purse = 16
  MaxSlot = 3
INVARIANTS
  TypeOK
  EveryTokenTraced
  OneRecordPerId
  OutflowBounded
  MaxSettlementUnderCeiling
PROPERTIES
  LimitNeverMeansMoreChips
\* The slots, the ids and the purse run out, and the program then has nothing left to do.
CHECK_DEADLOCK FALSE
