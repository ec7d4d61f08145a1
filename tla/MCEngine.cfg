SPECIFICATION FairSpec
CONSTANTS
  c1 = c1  c2 = c2  c3 = c3  h = h  w = w  r1 = r1
  None = None
  Calls = {c1, c2, c3}
  Preloads = {c2}
  Evictors = {r1}
  Reaper = reaper
  Paths = {h, w}
  PathOf <- MCPathOf
  Handlers = {h}
  Malformed = {}
  Expires = {c1, c2}
INVARIANTS
  TypeOK ModulesAccounted TemplateIsBacked ReleasedForGood
PROPERTIES
  ImplementsCache CloseReturns IdleIsEvicted
