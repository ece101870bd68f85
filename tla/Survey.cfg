SPECIFICATION Spec
CONSTANTS
  p1 = p1
  p2 = p2
  p3 = p3
  s1 = s1
  s2 = s2
  People = {p1, p2, p3}
  Home <- MCHome
  Blank = {p3}
  Thresholds = {2, 3}
  Connections = {c1, c2}
  Worker = worker
INVARIANTS StandsForPeople NoneByDifference AsTold
PROPERTIES NeverBack
SYMMETRY Symmetry
CHECK_DEADLOCK FALSE
