SPECIFICATION Spec
CONSTANTS
  Nul = "nul"
  Enter = "enter"
  Rubout = "rubout"
  Top = 0
  Nodes = {0, 1, 2}
  PushSize = 4
  Loop = 1
  BuffLimit = 3
  MaxTyped = 2
  Keys <- MCKeys
  Map <- MCMap
  Pushed <- MCPushed
  Starts <- MCStarts
  Sessions <- AllSessions
  Patterns = {"x", "y"}
  LINES = 4
  InitLines = 4
  VARY_SIZE = 3
  MaxInputs = 2
  MaxStops = 1
CHECK_DEADLOCK FALSE
INVARIANTS
  ScreenIsRight
PROPERTIES
  RingIsAStack
  MacroLoopEnds
  SpacesEnd
