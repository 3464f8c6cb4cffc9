SPECIFICATION Spec
CONSTANTS
  g1 = g1
  g2 = g2
  g3 = g3
  Groups = {g1, g2, g3}
  Modes = {"newsgroup", "add"}
  Orders <- MCOrders
  FileOrder <- MCFileOrder
  SourceOf <- MCSourceOf
  FullList = FALSE
  News <- MCNews
  PerPage = 2
  None = None
  MaxMarks = 2
  MaxInputs = 2
CHECK_DEADLOCK FALSE
INVARIANTS
  PlaceAgrees
  CountAgrees
  KillMarksAreTheUsers
