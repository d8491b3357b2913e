SPECIFICATION FairSpec
CONSTANTS
  Client = {"python", "go"}
  Python = {"python"}
  Raising = {"python", "go"}
  Retries <- MCRetries
  EvolveEvery <- MCEvolveEvery
  Payload <- MCPayload
  Fragment <- MCFragment
  Long <- MCFragment
  Scan <- MCScan
  Pack <- MCPack
  Dirty = {"hidden"}
  Blank = {"empty"}
  MarkupNote = "note"
  FloodNote = "note"
  ForgeNote = "note"
  Nobody = Nobody
  None = None
  MaxAdjudications = 8
  MaxCalls <- MCMaxCalls
  MaxRestarts = 1
INVARIANTS
  RetriesAreBounded
  StatsTellOutcomes
PROPERTIES
  CallEnds
CHECK_DEADLOCK FALSE
