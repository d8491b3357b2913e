SPECIFICATION Spec
CONSTANTS
  Subject = {"agent", "tool"}
  Target = {"secret", "invoke"}
  Destination = {"report"}
  Classification = {"public"}
  NoSubject = NoSubject
  NoDestination = NoDestination
  NoClassification = NoClassification
  Grant <- MCGrant
  GrantOf <- MCGrantOf
  MaxRisk = 1
  Secret = {"secret"}
  LeaseId = {l1, l2}
  NoLease = NoLease
  Asks <- MCAsks
  ToolCalls <- MCToolCalls
  MaxNow = 2
  MaxDepth = 2
  MaxReceipts = 3
SYMMETRY LeaseSymmetry
INVARIANTS
  UsesWithinLease
  EvidenceWithinUses
  ConsumptionTraced
PROPERTIES
  DeadStaysDead
CHECK_DEADLOCK FALSE
