SPECIFICATION vSpec
CONSTANTS
  SMEM_WORDS = 16
  BRAM_SIZE = 4
  FIFO_DEPTH = 1
  DM_DEPTH = 1
  MID_DEPTH = 2
  LEN_RANGE = 4
  MAX_ITERS = 4
  Scenarios <- MCScenarios
  Tools = {"dry_run", "serial_host", "host_runner"}
  Stale = {0, 7}
  Damage = {0, 999}
  Displays = {TRUE, FALSE}
INVARIANTS
  RunnerPassIsRight
  RunnerAcceptsIndependent
  SerialCatchesLost
  SerialAcceptsUploads
  DryRunAccepts
  TicksAreTrue
