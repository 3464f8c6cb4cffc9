SPECIFICATION Spec
CONSTANTS
  Articles <- MCArticles
  Viewed = {"image"}
  Postings <- MCPostings
  MaxParts = 3
  MaxInputs = 5
  MaxCrashes = 1
CHECK_DEADLOCK FALSE
ACTION_CONSTRAINT OneFile
INVARIANTS
  ReadsAsMeant
  EachIsExtracted
  PostingsAreDecoded
PROPERTIES
  NothingLost
