SPECIFICATION Spec
CONSTANTS
  Sizes <- MCSizes
  Genuine <- MCGenuine
  FullRoll = 1
  SETTLE_POLLS = 2
  SharedPrinter = FALSE
  MaxRequests = 2
  MaxSwaps = 1
INVARIANTS TypeOK FirstWriteConfirmed
PROPERTIES CacheConverges
