\* A task and two updates of it.
CONSTANTS
  c1 = c1
  c2 = c2
  c3 = c3
  Calls = {c1, c2, c3}
  o1 = o1
  Origins = {o1}
  x = x
  Titles = {x}
  None = None
  MaxDeaths = 0
SPECIFICATION Spec
INVARIANTS
  CompletedOnMove
CHECK_DEADLOCK FALSE
