SPECIFICATION FairMeterSpec
CONSTANTS
  Cost = 3
  Capacity = 7
  Rate = 2
  OpenPct = 80
  MinSamples = 3
  Window = 5
  MaxInFlight = 2
  MaxTicks = 6
INVARIANTS
  CircuitMatchesWindow
  RateHolds
PROPERTIES
  BreakerLatches
  NoStarvation
