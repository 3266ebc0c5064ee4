\* Two containers, in turn or in two shells on different names.
CONSTANTS
  n1 = n1
  n2 = n2
  s1 = s1
  s2 = s2
  p1 = p1
  p2 = p2
  i1 = i1
  Names = {n1, n2}
  Images = {i1}
  Slots = {s1, s2}
  Pids = {p1, p2}
  None = None
  Dead = Dead
  MAX_OCTET = 2
  Uses <- Disciplined
SPECIFICATION Spec
SYMMETRY Symmetry
INVARIANTS HostDevSafePerName StopLeavesNothing NumbersInTurn
PROPERTIES NetworkIsKept
