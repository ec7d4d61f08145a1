SPECIFICATION Spec
CONSTANTS
  j1 = j1  j2 = j2  j3 = j3  j4 = j4  fa = fa  fb = fb
  None = None
  Jobs = {j1, j2, j3}
  Functions <- MCFunctions
  FnOf <- RedeployedFnOf
  LimitOf <- RedeployedLimitOf
  Workers = {w1, w2, w3}
  Closers = {}
  BadPolicy = {}
  Cancellable = {}
  MinWorkers = 1  MaxWorkers = 2  QueueSize = 2
INVARIANT LimitBoundsOutstanding
