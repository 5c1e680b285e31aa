\* One stream with the smallest buffers, a page past the first, the variables changed once.
CONSTANTS
  Streams = {1}
  Slots = 1
  HubBuffer = 1
  NameBuffer = 1
  MaxChanges = 2
  MaxPages = 1
  MaxKeys = 1
SPECIFICATION Spec
INVARIANTS OpenWhileKnown NothingForgotten PagesOfTheseVariables JobsServed
CHECK_DEADLOCK FALSE
