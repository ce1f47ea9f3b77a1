SPECIFICATION Spec
CONSTANTS
  Sizes <- MCSizes
  Genuine <- MCGenuine
  FullRoll = 1
  SETTLE_POLLS = 2
  SharedPrinter = TRUE
  MaxRequests = 1
  MaxSwaps = 0
PROPERTIES GenuineKept
