\* One worker, one delivery, retried.
CONSTANTS
  w1 = w1
  e1 = e1
  s1 = s1
  Workers = {w1}
  Events = {e1}
  Subs = {s1}
  None = None
  Batch = 2
  Lease = 1
  Window = 2
  MaxBackoff = 1
  MaxFaults = 1
  MaxDowns = 2
  MaxToggles = 1
SPECIFICATION Spec
PROPERTIES
  AttemptIdUnique
CHECK_DEADLOCK FALSE
