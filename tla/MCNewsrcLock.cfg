SPECIFICATION Spec
CONSTANTS
  p1 = p1
  p2 = p2
  p3 = p3
  f1 = f1
  f2 = f2
  Procs = {p1, p2, p3}
  HostOf <- MCHostOf
  Files = {f1, f2}
  Groups <- MCGroups
  First = 2
  NoLock = NoLock
  Empty = Empty
  MaxStarts = 3
  MaxFaults = 2
SYMMETRY MCSymmetry
INVARIANTS
  Exclusion
  LocksAreHeld
CHECK_DEADLOCK FALSE
