SPECIFICATION Spec
CONSTANTS
  Last = Last
  MaxSize = 4
  MaxWords = 2
  Numbers <- Inside
INVARIANT
  RemovesWhatIsListed
