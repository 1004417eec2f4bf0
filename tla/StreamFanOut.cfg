SPECIFICATION Spec
CONSTANTS
  a = a
  b = b
  Types = {a, b}
  NoEvent = NoEvent
  NumSources = 1
  NumProcessors = 1
  NumSinks = 2
  Bounded = {1}
  Inputs <- AllInputs
  Accepted <- FilteredTypes
  Faults = TRUE
  Codes <- AllCodes
  Window = 1
  MaxEvents = 1
CHECK_DEADLOCK FALSE
INVARIANTS
  TypeOK
  VerdictIsSound
PROPERTY ImplementsPromise
