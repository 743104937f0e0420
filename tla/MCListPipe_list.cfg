SPECIFICATION FairListSpec
CONSTANTS
  Names <- FourNames
  Matching <- TwoOfThem
  Capacity = 2
INVARIANT
  PrintsListing
PROPERTIES
  CommandReturns
  HelperEnds
