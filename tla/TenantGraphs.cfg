\* Two callers making three requests, one change, one fault.
CONSTANTS
  Callers = {a, b}
  Flights = {1, 2}
  Fields = {x}
  MaxChanges = 1
  MaxFaults = 1
  Locks = {1, 2}
  MaxCalls = 3
SPECIFICATION FairSpec
INVARIANTS AnswersCurrent GraphsCurrent OneBuildAtATime
PROPERTIES AllAnswered
CHECK_DEADLOCK FALSE
