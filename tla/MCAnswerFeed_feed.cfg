SPECIFICATION FairFeedSpec
CONSTANTS
  AnswerCapacity = 3
  Prompts = 3
  Readers <- AllReaders
INVARIANT
  FreshWhenReturned
PROPERTY
  FedCommandReturns
