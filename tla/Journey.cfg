SPECIFICATION Spec
CONSTANTS
  t1 = t1
  t2 = t2
  Tasks = {t1, t2}
  Connections = {c1, c2}
  Worker = worker
  MaxReopens = 1
  Templates <- MCTemplates
INVARIANTS NobodyForgets OpenTasksAsk InstanceFollows CompletedIsDone
CHECK_DEADLOCK FALSE
