\* Four calls, each a create or an update of a task another created.
CONSTANTS
  c1 = c1
  c2 = c2
  c3 = c3
  c4 = c4
  Calls = {c1, c2, c3, c4}
  o1 = o1
  Origins = {o1}
  x = x
  y = y
  Titles = {x, y}
  None = None
  MaxDeaths = 1
SPECIFICATION Spec
SYMMETRY Symmetry
INVARIANTS
  TypeOK
  OneTaskPerOrigin
PROPERTIES
  ExactUnlessRaced
CHECK_DEADLOCK FALSE
