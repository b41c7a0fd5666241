\* Listeners coming and going while matches are recorded out of order.
SPECIFICATION FairSpec
CONSTANTS
  Listeners = {1, 2}
  Address <- OneAddress
  perAddress = 2
  maxStreams = 2
  RECENT = 2
  REPLAY = 2
  Exhibitions = {2}
  Resumes <- FreshOrFirst
  MaxMatches = 3
  MaxOpens = 3
INVARIANTS
  TypeOK
  TailRunsIfWatched
  NothingFallsBetween
PROPERTIES
  EveryMatchIsSent
\* Nobody need listen, and matches are bounded.
CHECK_DEADLOCK FALSE
