SPECIFICATION Spec
CONSTANTS
  Text <- MCText
  Said <- MCSaid
  Scan <- MCScan
  Reading <- MCReading
  Fragment <- MCFragment
  Length <- MCLength
  Inside <- MCInside
  Pattern <- MCPattern
  Synthesized <- MCSynthesized
  Coverage <- MCCoverage
  MaxPatterns = 3
  MarkupNote = "markup"
  FloodNote = "flood"
  ForgeNote = "forge"
  Corpus <- MCCorpus
  Caller = {c1, c2}
  NoFitness = NoFitness
  MaxEngramRetention = 3
  Cost = 1
  Capacity = 2
  Rate = 2
  OpenPct = 80
  MinSamples = 1
  Window = 1
  MaxAdjudications = 30
  MaxOperations = 3
SYMMETRY Alike
INVARIANTS
  LearnedPatternsMuted
  OnlyStressAsksForABoost
PROPERTIES
  OverwhelmedStays
  NeverForgets
  FitnessOnlyFalls
CHECK_DEADLOCK FALSE
