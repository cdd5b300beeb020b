CONSTANTS
  NumEvents = 4
  BlockOf <- EventBlocks
  BlockStart = 0
  KoinosMaxBlocksToStream = 3
  MaxHeight = 8
  MaxRestarts = 2
SPECIFICATION FairSpec
INVARIANTS TypeOK SavedIsHandled
PROPERTIES StreamsInOrder FinalEventsAreHandled
