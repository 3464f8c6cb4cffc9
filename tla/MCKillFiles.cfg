SPECIFICATION Spec
CONSTANTS
  f = f
  o1 = o1
  o2 = o2
  o3 = o3
  o4 = o4
  o5 = o5
  l1 = l1
  l2 = l2
  Articles = {1, 2, 3}
  Posted = 2
  Fakes = {f}
  Foreign = {o1, o2, o3, o4, o5}
  Reply <- MCReply
  Walk <- MCWalk
  SubjectOf <- MCSubjectOf
  Letters = {"J", ".", "m"}
  Lines = {l1, l2}
  Always = {l2}
  MaxDays = 1
  MaxInputs = 4
CHECK_DEADLOCK FALSE
INVARIANTS
  ThruWaits
  MemorizedIsSafe
