SPECIFICATION Spec
CONSTANTS
  SMEM_WORDS = 16
  BRAM_SIZE = 4
  FIFO_DEPTH = 1
  DM_DEPTH = 1
  MID_DEPTH = 2
  LEN_RANGE = 4
  MAX_ITERS = 4
  Scenarios <- MCScenarios
INVARIANTS
  TypeOK
  QueuesDrained
  MovesAreCopies
  FetchedAsPosted
  StallsOnlyReconfigured
  StimReplays
