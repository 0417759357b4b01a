SPECIFICATION FairSpec
CONSTANTS
  MAX_INFLIGHT = 2
  COUNT_RANGE = 4
  FETCH_DEPTH = 2
  RingLens = {3, 4}
  Good = {g1}
  Bad = {b1}
  RESERVE = 2
  RESET_LOAD = 2
INVARIANTS
  TypeOK
  InflightCovers
  LeakBounded
  DoneMeansDone
  IssuedIntact
PROPERTIES
  ResetOnlyDrains
  RingIsQueue
  HeadMoves
