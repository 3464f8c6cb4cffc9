CONSTANTS
  NumRcs = 1
  m1 = m1
  Lines = Lines
  NoFile = NoFile
  Marks <- MCMarks
  Subscriptions <- MCSubscriptions
  UnsafeRcSaves = FALSE
  MaxFaults = 2
  AnyFaults = 2
SPECIFICATION Spec
INVARIANT StoppedIsSafe
