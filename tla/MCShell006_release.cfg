SPECIFICATION FairSpec
CONSTANTS
  Last = Last
  NormalLines <- Normal
  QueuedLines <- Queued
  Options <- Sessions
  MaxNode = 4
  StackLimit = 3
INVARIANTS
  FeedsTheInnermost
  FeedsALivingLine
  RemovesWhatIsListed
  DiesForAReason
PROPERTIES
  NeverRunsTwice
  KeepsPromise
  ReturnsToPrompt
