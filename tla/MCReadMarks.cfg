SPECIFICATION Spec
CONSTANTS
  alt = alt
  comp = comp
  Groups = {alt, comp}
  NoGroup = NoGroup
  Xrefs <- MCXrefs
  FirstArt <- MCFirst
  LastArt = 3
  Top = 4
  InitLines <- MCLines
  MaxOps = 2
  MaxNews = 1
INVARIANTS
  ReadOnlyIfTold
  LastWordWins
  CountsAgree
  EditsAreExact
