SPECIFICATION Spec
CONSTANTS
  c1 = c1  c2 = c2  c3 = c3  c4 = c4  p1 = p1  p2 = p2  fa = fa  fb = fb  r1 = r1
  None = None
  Calls = {c1, c2, c3, c4}
  Preloads = {c2}
  Removers = {r1}
  Paths = {p1, p2}
  PathOf <- RedeployedPathOf
  NameOf <- RedeployedNameOf
  TargetOf <- CloseAll
  Size = 1
SYMMETRY SameCalls
INVARIANTS
  TypeOK ExclusiveUse UsableIsOpen NothingLeaks CountsExactly
PROPERTIES ClosedOnlyDrains ImplementsLeases
\* After an eviction ensure may block for ever (AcquireProceeds).
CHECK_DEADLOCK FALSE
