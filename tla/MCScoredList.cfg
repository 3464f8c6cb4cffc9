SPECIFICATION Spec
CONSTANTS
  Articles <- MCArticles
  FileOrder <- Order
  Texts <- MCTexts
  MoreLines <- MCMoreLines
  Thresholds = {1}
  LineLength = 3
  First = 5
  MaxLast = 6
  MaxInputs = 4
  Lists <- MCLists
  Starts <- MCStarts
  PageLines = 2
  Arrivals = 1
  Bars = {1}
  MaxCommands = 3
CHECK_DEADLOCK FALSE
INVARIANTS
  ScoresAreRight
  PageIsTheList
PROPERTY KillsAreExact
