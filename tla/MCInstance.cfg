\* Two processes, one with three goroutines, and the two locks of Froxy; two
\* commands, each with an instance it may start, and three attempts to get
\* the run lock back; two connections and two requests.
CONSTANTS
  Procs = {p1, p2}
  Goroutines <- MCGoroutines
  Of <- MCOf
  Locks = {run, keys}
  Waited = {keys}
  Adms = {a1, a2}
  MaxTries = 2
  NoOne = NoOne
  Conns = {c1, c2}
  MaxRequests = 2
SPECIFICATION MCSpec
INVARIANTS
  InstanceInv
  NotRunningMeansLocked
  RunReports
  NoForgottenWaiter
PROPERTIES
  ImplementsGlobalLock
  KillReturns
  TunnelEnds
CHECK_DEADLOCK FALSE
