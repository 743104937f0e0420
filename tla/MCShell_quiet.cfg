SPECIFICATION FairSpec
CONSTANTS
  Last = Last
  NormalLines <- QuietNormal
  QueuedLines <- QuietQueued
  MaxNode = 3
  StackLimit = 3
  RefreshIndexes = TRUE
  RefreshIndexesAll = FALSE
INVARIANTS
  CrashNeedsCause
  NeverStale
PROPERTY
  KeepsPromise
