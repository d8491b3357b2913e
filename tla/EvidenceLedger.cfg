SPECIFICATION FairSpec
CONSTANTS
  Writer = {w1, w2}
  Token <- MCToken
  Absent = Absent
  NoOne = NoOne
  Stale = Stale
  MaxEvents = 2
  MaxAge = 1
  MaxTtl = 1
  MaxClock = 2
  MaxMinted = 3
  MaxRemovals = 1
INVARIANTS
  LedgerVerifies
PROPERTIES
  KeptIsRetainedLog
  GoneStaysGone
  AppendEnds
