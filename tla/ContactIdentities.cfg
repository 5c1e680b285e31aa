\* Three calls over two addresses; one address removed, one attached, one call cut short.
CONSTANTS
  c1 = c1
  c2 = c2
  c3 = c3
  k1 = k1
  k2 = k2
  Calls = {c1, c2, c3}
  Keys = {k1, k2}
  None = None
  Requests <- SmallRequests
  MaxRemovals = 1
  MaxAttached = 1
  MaxDeaths = 1
SPECIFICATION FairSpec
INVARIANTS
  ResolversAgree
  AnnouncedIfCreated
PROPERTIES
  AllOrNothing
  ImplementsRegistry
  EveryCallReturns
CHECK_DEADLOCK FALSE
