SPECIFICATION Spec
CONSTANTS
  d1 = d1
  d2 = d2
  d3 = d3
  d4 = d4
  fa = fa
  fb = fb
  fc = fc
  k1 = k1
  k2 = k2
  kbad = kbad
  None = None
  Deployers = {d1, d2, d3}
  Singles = {d2}
  Alongside = {d2}
  Names = {fa, fb, fc}
  Contents = {k1, k2}
  Compilable = {k1, k2}
  Before = {fb}
  OldContent = k1
  Manifest <- MCManifest
  Iterations = 3
  Capacity = 2
  Workers = {w1, w2}
  Wanted <- MCWanted
  ByRoute = {1}
INVARIANTS TypeOK RegisteredIsStored ManifestIsPrefix ServedOnOpenEngine GracefulEndAnswersAll MeasuredOnce
PROPERTIES LookupsEnd HostExits
