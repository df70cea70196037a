CONSTANTS
  Workers = 2
  t1 = t1
  t2 = t2
  Tasks <- MCTasks
  MovedFrom = MovedFrom
  NoTask = NoTask
SPECIFICATION Spec
PROPERTIES
  TakenTaskTerminates
  WorkersWaitForever
CHECK_DEADLOCK FALSE
