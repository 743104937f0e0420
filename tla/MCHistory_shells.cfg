SPECIFICATION StartupSpec
CONSTANTS
  Shells = {s1, s2}
  Typed = {"a", "b"}
  Count = 2
  MaxTyped = 4
  CommandLines <- UpToThree
  Default = "full"
  WithHistory = {"full"}
  Names = {"install", "show"}
INVARIANTS
  RestartRemembers
  ShortFileLosesNothing
  
CHECK_DEADLOCK FALSE
