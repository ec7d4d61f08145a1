SPECIFICATION FairSpec
CONSTANTS
  c1 = c1  c2 = c2  c3 = c3  c4 = c4  p1 = p1  p2 = p2  fa = fa  fb = fb  r1 = r1
  None = None
  Calls = {c1, c2, c3}
  Preloads = {}
  Removers = {r1}
  Paths = {p1}
  PathOf <- SharedPathOf
  NameOf <- SharedNameOf
  TargetOf <- EvictPath
  Size = 1
PROPERTIES AcquireProceeds
CHECK_DEADLOCK FALSE
