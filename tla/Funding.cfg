\* Deposits, transfers, withdrawals and matches of one agent against the sweep.
SPECIFICATION FairSpec
CONSTANTS
  Start = 1
  Tops = {2}
  Nets = {2}
  MaxTops = 2
  MaxGifts = 1
  MaxMoves = 1
  MaxWithdrawals = 1
  MaxOutages = 1
INVARIANTS
  TypeOK
  OverCountedOnlyByRace
PROPERTIES
  NothingLeftAside
\* The owner need not act, and deposits, transfers and matches are bounded.
CHECK_DEADLOCK FALSE
