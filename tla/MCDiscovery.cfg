SPECIFICATION Spec
CONSTANTS
  Devices = {"t80m", "t50m", "t80pro"}
  Attr <- MCAttr
  Nodes = {0, 1}
  Prefixes <- MCPrefixes
  Models <- MCModels
  Slug <- MCSlug
  BleFeature = TRUE
  MaxUpsets = 2
  MaxSweeps = 2
INVARIANTS TypeOK RightPrinter RightFamily NothingLost
CHECK_DEADLOCK FALSE
