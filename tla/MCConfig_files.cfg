SPECIFICATION FairSpec
CONSTANTS
  Files <- ShortAndEscapeFiles
  Plain = {"a"}
  HexDigit <- Digits
  Known <- Names
  Limit = 2
  Nul = "NUL"
  Decoded <- Pair
  BufSize = 5
INVARIANTS
  ReadsLineByLine
  BuffersSuffice
  ReleasesAgree
PROPERTY
  EndsUnlessInComment
