\* Two writers, two identities, two servers and back; one reader restart.
CONSTANTS
  t1 = t1
  t2 = t2
  A = A
  B = B
  Txs = {t1, t2}
  Ids = {1, 2}
  Servers = {A, B}
  NoServer = NoServer
  PageBound = 2
  MaxMoves = 2
  MaxCrashes = 1
SPECIFICATION FairSpec
INVARIANTS
  TypeOK
  NoSkip
  OwnCursorAccepted
  AtMostOnceUndisturbed
PROPERTIES
  SavedCursorAdvances
  EventuallyHandled
CHECK_DEADLOCK FALSE
