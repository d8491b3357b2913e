SPECIFICATION Spec
CONSTANTS
  Payload <- MCPayload
  Fragment <- MCFragment
  Long <- MCLong
  Scan <- MCScan
  MarkupNote = "markup note"
  FloodNote = "flood note"
  ForgeNote = "forge note"
  MaxAdjudications = 3
PROPERTIES
  StormsSharpen
CHECK_DEADLOCK FALSE
