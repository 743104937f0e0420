SPECIFICATION Spec
CONSTANTS
  Commands <- TheCommands
  Options <- TheOptions
  Kinds006 <- TheKinds006
  Options006 <- TheOptions006
  Lines <- AllLines
  Worlds <- AllWorlds
  MaxTabs = 2
INVARIANTS
  NothingHidden
  ArgumentsAreCurrent
  LineIsRead
  ReleasesCompleteAlike
