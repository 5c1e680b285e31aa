\* Two workers over one subscription's delivery.
CONSTANTS
  w1 = w1
  w2 = w2
  e1 = e1
  s1 = s1
  Workers = {w1, w2}
  Events = {e1}
  Subs = {s1}
  None = None
  Batch = 2
  Lease = 1
  Window = 2
  MaxBackoff = 2
  MaxFaults = 1
  MaxDowns = 2
  MaxToggles = 1
SPECIFICATION FairSpec
INVARIANTS
  TypeOK
  SecondOnlyIfUnsure
  VerdictsJustified
  FewLatePosts
PROPERTIES
  FinalStays
  ClaimExclusive
  EventuallySettled
CHECK_DEADLOCK FALSE
