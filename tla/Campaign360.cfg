SPECIFICATION Spec
CONSTANTS
  boss = boss
  p = p
  r = r
  q = q
  Fixed = {boss}
  Nominees = {p, r, q}
  CategoryOf <- MCCategoryOf
  Blank = {q}
  Rows <- MCRows
  Releases = {"immediately", "after_debrief"}
  Rules <- MCRules
  Connections = {c1, c2}
  MaxOverlaps = 1
INVARIANTS StandsForRaters ReportIsWhole EverybodyAsked InStep ReleasedByRule
SYMMETRY Symmetry
CHECK_DEADLOCK FALSE
