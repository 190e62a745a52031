SPECIFICATION Spec
CONSTANTS
  Threads <- MCThreads
  Process <- MCProcess
  None = None
INVARIANTS
  TypeOK
  SaltIsForever
PROPERTIES
  EveryCallEnds
