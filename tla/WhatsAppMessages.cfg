\* Two requests at once, one sent message.
CONSTANTS
  r1 = r1
  r2 = r2
  Requests = {r1, r2}
  m1 = m1
  m2 = m2
  m3 = m3
  o1 = o1
  Outbound = {o1}
  Deliveries <- SmallDeliveries
  Times = {1, 2}
  ItemsMax = 2
  MaxFaults = 1
  MaxToggles = 1
SPECIFICATION FairSpec
INVARIANTS
  AnsweredStored
  AnnouncedOnce
  StatusFurthest
  ActivityLatest
PROPERTIES
  EventuallySettled
CHECK_DEADLOCK FALSE
