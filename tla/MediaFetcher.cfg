\* Two fetchers, two workspaces with a row each, room for one row in a sweep.
CONSTANTS
  Fetchers = {f1, f2}
  Rows <- MCRows
  Workspaces = {W1, W2}
  W1 = W1
  W2 = W2
  WorkspaceOf <- MCWorkspaceOf
  Batch = 1
  MaxMediaFaults = 2
  MaxClosings = 2
SPECIFICATION MediaFairSpec
INVARIANTS ClosedUntouched
PROPERTIES SettledStays EveryRowEnds
CHECK_DEADLOCK FALSE
