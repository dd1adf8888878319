CONSTANTS
  t1 = t1
  t2 = t2
  t3 = t3
  t4 = t4
  Tasks <- MCTasks
  Priority <- MCPriority
  NoTask = NoTask
  Workers = {w1, w2}
  Callers = {c1, c2}
  MaxQueued = 2
  kPriorityBands = 3
SPECIFICATION Spec
INVARIANT DepthIsWork
INVARIANT JoinedMeansDrained
PROPERTY AcceptedTasksRun
PROPERTY ShutdownTerminates
PROPERTY ImplementsExecutor
PROPERTY StrictPriority
