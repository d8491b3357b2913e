SPECIFICATION FairSpec
CONSTANTS
  MaxTurns = 2
  MaxRuns = 3
  Tool = {"read", "write"}
  Absent = Absent
  Torn = Torn
  Readonly = {"read"}
  Malformed = Malformed
  NoBlock = NoBlock
  Response <- MCResponse
  Verifiers = 2
  Anchor = 2
  Recent = 2
  MaxToolRetries = 1
INVARIANTS
  HistoryDurable
  FinishedStaysFinished
  LostOnlyToShadow
  PromptShowsWork
PROPERTIES
  RunEnds
CHECK_DEADLOCK FALSE
