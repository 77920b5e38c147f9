SPECIFICATION Spec
CONSTANTS
  c1 = c1
  c2 = c2
  w1 = w1
  w2 = w2
  j1 = j1
  j2 = j2
  Callers <- TwoCallers
  Workers <- TwoWorkers
  Jobs <- OneJob
  MetricsJob = j1
  HistoryLimit = 2
INVARIANT LiveLoopIsStoppable
CHECK_DEADLOCK FALSE
