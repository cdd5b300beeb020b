CONSTANTS
  NumEvents = 4
  BlockOf <- EventBlocks
  BlockStart = 0
  EthConfirmations = 2
  EthMaxBlocksToStream = 2
  MaxHeight = 10
  MaxRestarts = 2
SPECIFICATION FairSpec
INVARIANTS TypeOK SavedIsHandled
PROPERTIES StreamsInOrder FinalEventsAreHandled
