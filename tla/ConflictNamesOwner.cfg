\* Two calls resolving one unknown address.
CONSTANTS
  c1 = c1
  c2 = c2
  k1 = k1
  k2 = k2
  Calls = {c1, c2}
  Keys = {k1, k2}
  None = None
  Requests <- TwoResolves
  MaxRemovals = 0
  MaxAttached = 0
  MaxDeaths = 0
SPECIFICATION Spec
INVARIANTS
  ConflictNamesOwner
CHECK_DEADLOCK FALSE
