\* One agent through two seasons, and two agents rented within one.
SPECIFICATION FairSpec
CONSTANTS
  Tabs = {1, 2}
  SEASON = 2
  GRACE = 1
  Bounds <- Both
INVARIANTS
  TypeOK
  OneInPlayUnlessPutBack
  OpeningCreditedOnce
  FrozenStandingsAreFinal
PROPERTIES
  OneMatchAfterOff
  TimersCatchUp
\* The owner need not act, and agents, matches and time are bounded.
CHECK_DEADLOCK FALSE
