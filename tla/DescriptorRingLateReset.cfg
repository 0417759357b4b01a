SPECIFICATION Spec
CONSTANTS
  MAX_INFLIGHT = 3
  COUNT_RANGE = 4
  FETCH_DEPTH = 2
  RingLens = {2, 4}
  Good = {g1}
  Bad = {b1}
  RESERVE = 1
  RESET_LOAD = 1
INVARIANT PolledMeansDone
