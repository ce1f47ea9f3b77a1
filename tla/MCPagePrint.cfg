SPECIFICATION PageSpec
CONSTANTS
  DOTS_PER_MM = 4
  PRINTHEAD_WIDTH_DOTS = 16
  DEFAULT_MARGIN_DOTS = 2
  SWATCH_SEPARATOR_DOTS = 1
  MAX_BUF_DATA = 10
  BUF_DATA = 10
  BUFFER_MAX_COUNT = 2
  MAX_COMPRESSED_BLOCK = 5
  DATA_PAYLOAD_SIZE = 2
  Sizes = {5, 6}
  Jobs <- MCJobs
  Densities <- MCDensities
  Pages <- MCPages
INVARIANTS TypeOK Tiled Packed PacketsWhole Centred CardsAsDrawn
PROPERTIES PageEnds
CHECK_DEADLOCK FALSE
