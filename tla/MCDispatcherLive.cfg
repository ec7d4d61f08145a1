SPECIFICATION FairSpec
CONSTANTS
  j1 = j1  j2 = j2  j3 = j3  j4 = j4  fa = fa  fb = fb
  None = None
  Jobs = {j1, j2, j3}
  Functions <- MCFunctions
  FnOf <- MCFnOf
  LimitOf <- MCLimitOf
  Workers = {w1, w2}
  Closers = {c1}
  BadPolicy = {j3}
  Cancellable = {j1}
  MinWorkers = 1  MaxWorkers = 2  QueueSize = 1
PROPERTIES
  SubmitReturns AcceptedIsAnswered CloseReturns ImplementsService
