SPECIFICATION Spec
CONSTANTS
  a = a
  b = b
  Types = {a}
  NoEvent = NoEvent
  NumSources = 1
  NumProcessors = 0
  NumSinks = 1
  Bounded = {1}
  Inputs <- AllInputs
  Accepted <- FilteredTypes
  Faults = TRUE
  Codes <- AllCodes
  Window = 1
  MaxEvents = 1
CHECK_DEADLOCK FALSE
INVARIANT NilMeansDelivered
