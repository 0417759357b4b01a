SPECIFICATION FairSpec
CONSTANTS
  None = None
  MAX_INFLIGHT = 1
  COUNT_RANGE = 2
  FETCH_DEPTH = 1
  RingLen = 2
  CtrlWords = {{}, {"ENABLE", "IRQ_EN"}, {"RESET"}, {"RESET", "IRQ_EN"}}
  ClearWords = {{"EMPTY"}, {"ERROR"}, {"EMPTY", "ERROR"}}
  Readable = {"STATUS"}
  RESET_LOAD = 0
INVARIANTS
  TypeOK
  PauseIsVisible
  PollSound
  PinHasCause
PROPERTIES
  ResetClears
  ClearResumes
