\* Four messages, so that two streams can overlap around a whole chat and a
\* reset, and both the chat and the stream counters reach EvolveEvery.
CONSTANTS
    EvolveEvery = 2
    MaxCalls = 4
    MaxEvolutions = 2
SPECIFICATION SentinelSpec
INVARIANTS TurnsPair ContentsFaithful
CHECK_DEADLOCK FALSE
