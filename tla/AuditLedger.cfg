SPECIFICATION Spec
CONSTANTS
  MaxRecords = 4
  MaxHarms = 2
  Garbage = Garbage
INVARIANTS
  OnlyHarmBreaks
  SequencesIncrease
PROPERTIES
  VouchedIsAppendOnly
CHECK_DEADLOCK FALSE
