SPECIFICATION Spec
CONSTANTS
  Values = {a, b}
  FIFO_BUFFER_SIZE = 4
INVARIANTS
  TypeOK
  LookAhead
PROPERTIES
  InOrder
  ImplementsQueue
