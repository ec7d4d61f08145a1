SPECIFICATION Spec
CONSTANTS
  j1 = j1  j2 = j2  j3 = j3  j4 = j4  fa = fa  fb = fb
  None = None
  Jobs = {j1, j2, j3}
  Functions <- MCFunctions
  FnOf <- MCFnOf
  LimitOf <- MCLimitOf
  Workers = {w1, w2, w3}
  Closers = {c1}
  BadPolicy = {}
  Cancellable = {j1, j2, j3}
  MinWorkers = 1  MaxWorkers = 2  QueueSize = 1
INVARIANT ClosedMeansNotRun
