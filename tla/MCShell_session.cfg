SPECIFICATION FairSpec
CONSTANTS
  Last = Last
  NormalLines <- SessionNormal
  QueuedLines <- SessionQueued
  MaxNode = 3
  StackLimit = 4
  RefreshIndexes = TRUE
  RefreshIndexesAll = FALSE
INVARIANTS
  IInv
  CommitRunsInNormalMode
  NestedCommitNeverReturns
  AnswerInForce
  NeverExitsDuringCommit
PROPERTIES
  CommitNeverGrowsQueue
  ReturnsToPrompt
