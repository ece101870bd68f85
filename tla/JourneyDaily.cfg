SPECIFICATION Spec
CONSTANTS
  t1 = t1
  t2 = t2
  Tasks = {t1, t2}
  Connections = {c1}
  Worker = worker
  MaxReopens = 2
  Templates <- MCTemplates
PROPERTIES EventuallyCloses
CHECK_DEADLOCK FALSE
