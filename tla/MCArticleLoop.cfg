SPECIFICATION Spec
CHECK_DEADLOCK FALSE
CONSTANTS
  None = None
  Groups <- MCGroups
  MaxCommands = 2
  MaxCancels = 1
INVARIANTS
  CountsAgree
PROPERTIES
  SpaceLeaves
  EndHidesNothing
