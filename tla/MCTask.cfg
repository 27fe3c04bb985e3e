SPECIFICATION MCFairSpec
CONSTANTS
  Threads = {p1, p2, p3}
  Timers = {t1, t2}
  MaxFailures = 1
  MaxCloses = 2
  Tasks = {1, 2, 3}
  MaxUpdates = 2
  Callbacks = {f1, f2, f3, f4}
  MaxPuts = 4
  Jobs = {j1, j2, j3}
INVARIANTS OneChain TimeoutOnce ReturnsOutcome OneFate
PROPERTIES Settles ImplementsExecutor
CHECK_DEADLOCK FALSE
