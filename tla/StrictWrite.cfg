SPECIFICATION Spec
CONSTANTS
  Writer = {w1, w2}
  Path = {p1, p2}
  Content = {a, b}
  Missing = Missing
  Unreceipted = Unreceipted
  MaxReceipts = 2
  MaxEdits = 1
PROPERTIES
  NoFalseAlarm
  ReceiptsFollow
SYMMETRY MCSymmetry
CHECK_DEADLOCK FALSE
