SPECIFICATION FairSpec
CONSTANTS
  a = a
  b = b
  Types = {a}
  NoEvent = NoEvent
  NumSources = 2
  NumProcessors = 0
  NumSinks = 2
  Bounded = {1}
  Inputs <- OwnInputs
  Accepted <- FilteredTypes
  Faults = TRUE
  Codes <- OneCode
  Window = 1
  MaxEvents = 1
CHECK_DEADLOCK FALSE
INVARIANT VerdictTellsWhy
PROPERTY RefusalReapsLoops
