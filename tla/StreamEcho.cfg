SPECIFICATION FairSpec
CONSTANTS
  a = a
  b = b
  Types = {a}
  NoEvent = NoEvent
  NumSources = 1
  NumProcessors = 1
  NumSinks = 1
  Bounded = {1}
  Inputs <- AllInputs
  Accepted <- FilteredTypes
  Faults = FALSE
  Codes <- AllCodes
  Window = 1
  MaxEvents = 1
CHECK_DEADLOCK FALSE
INVARIANT CancellationIsNotAFailure
