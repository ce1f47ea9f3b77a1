SPECIFICATION Spec
CONSTANTS
  Heats = {"standard", "cardstock"}
  Sweeps <- MCSweeps
  READS <- MCReads
  Requested <- MCRequested
  Conditions <- MCConditions
  SETTLE_POLLS = 2
  MaxCommands = 2
  MaxSlips = 1
  MaxFaults = 1
INVARIANTS
  TypeOK
  StripsExplained
  ProbeStopsAtError
  ListedRight
  UnmovedIsTrue
PROPERTIES
  CommandEnds
CHECK_DEADLOCK FALSE
