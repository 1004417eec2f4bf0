SPECIFICATION FairSpec
CONSTANTS
  a = a
  b = b
  Types = {a}
  NoEvent = NoEvent
  NumSources = 1
  NumProcessors = 2
  NumSinks = 1
  Bounded = {1}
  Inputs <- AllInputs
  Accepted <- FilteredTypes
  Faults = TRUE
  Codes = {}
  Window = 1
  MaxEvents = 2
CHECK_DEADLOCK FALSE
PROPERTIES
  LoopsAreReaped
  BoundedRunCompletes
