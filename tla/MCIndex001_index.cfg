SPECIFICATION Spec
CONSTANTS
  s1 = s1
  s2 = s2
  apt = apt
  vim = vim
  garbage = garbage
  Packages = {apt, vim}
  Garbage = garbage
  Shells = {s1, s2}
  Names <- System
  MaxClock = 2
  Refresh = TRUE
  RefreshAll = TRUE
INVARIANTS
  NamesFitTheirCount
PROPERTY
  FreshAfterCheck
SYMMETRY EqualShells
CHECK_DEADLOCK FALSE
