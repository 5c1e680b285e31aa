\* Two commits of one import, two rows, three addresses; the mapping set twice, one commit cut short.
CONSTANTS
  Commits = {c1, c2}
  Rows <- MCRows
  Addresses = {A, B, C}
  A = A
  B = B
  C = C
  Sheets <- MCSheets
  Mappings <- MCMappings
  Outside = Outside
  None = None
  MaxMappings = 2
  MaxBreaks = 1
SPECIFICATION Spec
INVARIANTS OneContactPerRow OutcomesJustified CommittedSettled
CHECK_DEADLOCK FALSE
