SPECIFICATION EnvelopeSpec
CONSTANTS
  Subject = {"agent", "tool"}
  Target = {"read", "invoke", "write"}
  Destination = {"report"}
  Classification = {"public"}
  NoSubject = NoSubject
  NoDestination = NoDestination
  NoClassification = NoClassification
  Grant <- MCGrant
  GrantOf <- MCGrantOf
  MaxRisk = 2
  Requests <- MCRequests
  Sessions <- MCSessions
  MaxClock = 3
INVARIANTS
  NoConfusedDeputy
PROPERTIES
  CapabilitiesContract
CHECK_DEADLOCK FALSE
