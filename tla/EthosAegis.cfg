SPECIFICATION Spec
CONSTANTS
  Payload <- MCPayload
  Fragment <- MCFragment
  Long <- MCLong
  Scan <- MCScan
  MarkupNote = "markup note"
  FloodNote = "flood note"
  ForgeNote = "forge note"
  MaxAdjudications = 5
INVARIANTS
  AcuityFollowsStorms
  MemoryWindow
  FirstRepeatCaught
  UnconditionalFloor
  VaultMatchesEngrams
PROPERTIES
  DetectionOnlyShrinks
CHECK_DEADLOCK FALSE
