SPECIFICATION FairSpec
CONSTANTS
  None = None
  LEN_RANGE = 8
  DESC_WORDS = 4
  MAX_SRAM_ADDR = 5
  BRAM_SIZE = 4
  DATA_WORDS = 4
  MAX_INFLIGHT = 2
  DF_IN_FIFO_Q = 2
  DF_OUT_FIFO_Q = 2
  DM_FIFO_Q = 2
  MID_FIFO_Q = 32
  Programs <- ZeroLengthPrograms
PROPERTY AllReported
