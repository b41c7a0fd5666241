\* Exits against settlements, with the admin moving the exit window.
SPECIFICATION FairSpec
CONSTANTS
  a1 = a1
  a2 = a2
  p1 = p1
  House = House
  Admin = Admin
  NoExit = NoExit
  AgentIdFor <- PlayerAndHouse
  U64Max = 255
  WINDOW_SLOTS = 2
  MAX_CHIP_RATE = 4
  MIN_RATE_INTERVAL_SLOTS = 2
  MAX_SETTLEMENT_CEILING_CHIPS = 4
  OUTFLOW_FLOOR_CHIPS = 3
  MIN_EXIT_WINDOW_SLOTS = 1
  MIN_STAKE_CHIPS = 2
  Agents = {a1, a2}
  Players = {p1}
  Settlers = {s1}
  Matches = {m1}
  WithdrawalIds = {}
  RentalIds = {}
  Amounts = {1, 3}
  Rates = {1}
  Limits = {3}
  Rents = {1}
  ExitWindows = {0, 1, 2}
  Purse = 3
  MaxSlot = 4
INVARIANTS
  ExitWaits
PROPERTIES
  ExitPaysOnce
  EvidenceKept
  OwnerCanLeave
\* The slots, the ids and the purse run out, and the program then has nothing left to do.
CHECK_DEADLOCK FALSE
