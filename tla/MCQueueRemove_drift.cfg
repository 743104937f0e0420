SPECIFICATION Spec
CONSTANTS
  Last = Last
  MaxSize = 3
  MaxWords = 3
  Numbers <- Around
INVARIANT
  DescendingIsExact
