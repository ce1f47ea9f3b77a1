SPECIFICATION Spec
CONSTANTS
  MaxBlocks = 3
  MaxPages = 2
  MaxUnread = 2
  Averages <- MCAverages
  READY_ATTEMPTS = 2
  PRINTING_ATTEMPTS = 2
  BUFFER_READY_ATTEMPTS = 2
  COMPLETION_POLLS = 2
  SafeSplitSpeed = 20
INVARIANTS
  TypeOK
  NeverGarbled
  OkMeansPrinted
PROPERTIES
  StartsOnBlankLabel
  CallReturns
  ImplementsContract
