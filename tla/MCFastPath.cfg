CONSTANTS
  c1 = c1  c2 = c2
  w1 = w1  w2 = w2  w3 = w3
  n1 = n1  n2 = n2  n3 = n3
  Nil = Nil
  Callers = {c1, c2}
  Workers = {w1, w2, w3}
  Nodes = {n1, n2, n3}
  MaxWorkers = 2
  MaxTasks = 4
SPECIFICATION Spec
INVARIANTS WorkersBounded IdleReachable
PROPERTIES TasksRun
CHECK_DEADLOCK FALSE
