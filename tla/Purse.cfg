\* Withdrawals, exits and matches of one agent; windows run out whatever the server has done.
SPECIFICATION FairSpec
CONSTANTS
  Start = 8
  MIN_TO_KEEP = 4
  MIN_STAKE = 2
  Asks = {4}
  Nets = {3}
  MaxMatches = 1
  MaxWithdrawals = 1
  MaxExits = 2
  MaxOutages = 1
INVARIANTS
  TypeOK
  
  NothingLeftBehind
PROPERTIES
  DebitedInFull
  ComesToRest
\* The owner need not act, and matches, exits and withdrawals are bounded.
CHECK_DEADLOCK FALSE
