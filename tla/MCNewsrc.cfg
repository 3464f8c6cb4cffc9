CONSTANTS
  NumRcs = 2
  m1 = m1
  Lines = Lines
  NoFile = NoFile
  Marks <- MCMarks
  Subscriptions <- MCSubscriptions
  UnsafeRcSaves = FALSE
  MaxFaults = 3
  AnyFaults = 2
SPECIFICATION Spec
INVARIANTS
  BackupSurvives
  UnchangedMeansSaved
  SavedStaysWhole
  ExitsAsAsked
ACTION_CONSTRAINT LaterFaults
