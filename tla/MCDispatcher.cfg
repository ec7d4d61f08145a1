SPECIFICATION Spec
CONSTANTS
  j1 = j1  j2 = j2  j3 = j3  j4 = j4  fa = fa  fb = fb
  None = None
  Jobs = {j1, j2, j3}
  Functions <- MCFunctions
  FnOf <- RedeployedFnOf
  LimitOf <- LimitRaised
  Workers = {w1, w2, w3}
  Closers = {c1, c2}
  BadPolicy = {}
  Cancellable = {j3}
  MinWorkers = 1  MaxWorkers = 2  QueueSize = 1
SYMMETRY Symmetry
INVARIANTS
  TypeOK ExactlyOnce NoSendOnClosedChannel WorkerAccounting
  FunctionLimit SlotsMatchOutstanding DrainedWhenDone
PROPERTIES ClosingOnlyShrinks
