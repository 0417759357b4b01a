SPECIFICATION FairSpec
CONSTANTS
  BYTE = 32
  WORD_BYTES = 2
  PACKET_SYNC_WORD = 1022
  CMD_ACK = 26
  CMD_NACK = 27
  TXT = 29
  SRC = 4
  DST = 0
  WORD = 32
  Tools = {"host_runner", "serial_host"}
  MAX_SESSIONS = 2
  MAX_LOSS = 1
  LOSSY_SESSIONS = 1
INVARIANTS
  PassIsTrue
  CleanSessionPasses
  SerialAnswersBelong
PROPERTY SessionEnds
