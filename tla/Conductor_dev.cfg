\* Two shells that race on one container name.
CONSTANTS
  n1 = n1
  s1 = s1
  s2 = s2
  p1 = p1
  p2 = p2
  p3 = p3
  i1 = i1
  Names = {n1}
  Images = {i1}
  Slots = {s1, s2}
  Pids = {p1, p2, p3}
  None = None
  Dead = Dead
  MAX_OCTET = 1
  Uses <- Racing
SPECIFICATION Spec
SYMMETRY Symmetry
INVARIANTS HostDevSafe
