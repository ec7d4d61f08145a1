SPECIFICATION FairSpec
CONSTANTS
  Roots = {r1, r2}
  Functions <- MCFunctions
  PathOf <- MCPathOf
  Commands = {"cmd"}
  Size = 1
  MaxDepth = 3
  HalfWord = 2
  MaxHostCalls = 3
INVARIANTS
  TypeOK InstancesAccounted ChainIsAcyclic FailuresCounted
PROPERTIES ChainsEnd
