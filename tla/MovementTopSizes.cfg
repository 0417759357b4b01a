SPECIFICATION Spec
CONSTANTS
  None = None
  LEN_RANGE = 256
  DESC_WORDS = 4
  MAX_SRAM_ADDR = 65535
  BRAM_SIZE = 4
  DATA_WORDS = 4
  MAX_INFLIGHT = 4
  DF_IN_FIFO_Q = 64
  DF_OUT_FIFO_Q = 64
  DM_FIFO_Q = 16
  MID_FIFO_Q = 64
  Programs <- LongPrograms
INVARIANT ReadAheadNeverStalls
