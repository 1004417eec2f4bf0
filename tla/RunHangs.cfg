SPECIFICATION FairSpec
CONSTANTS
  Operators = {o1}
  o1 = o1
  Embedded = TRUE
  Modes = {"supervised"}
  Startable = TRUE
  Kinds <- RealKinds
  Lossy = FALSE
CHECK_DEADLOCK FALSE
PROPERTY StopEndsRun
