SPECIFICATION FairSpec
CONSTANTS
  Caches <- AllCaches
  Commands <- AllCommands
INVARIANTS
  NeverListsRequired
  EveryUpgradeListed
  ColumnsAreRight
PROPERTY
  EndsWithSections
