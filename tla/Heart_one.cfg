SPECIFICATION Spec
CONSTANTS
  c1 = c1
  c2 = c2
  w1 = w1
  w2 = w2
  j1 = j1
  j2 = j2
  Callers <- OneCaller
  Workers <- TwoWorkers
  Jobs <- TwoJobs
  MetricsJob = j1
  HistoryLimit = 2
INVARIANT HeartTypeOK
INVARIANT LiveLoopIsStoppable
INVARIANT StatusIsTrue
PROPERTY StopSettles
PROPERTY DueJobsRun
CHECK_DEADLOCK FALSE
