SPECIFICATION ControlPlaneSpec
CONSTANTS
  MaxComponents = 2
  Setups <- SmallSetups
  Reporters <- TwoReporters
  Ranges <- OneRange
  RangeOf <- SameRange
  AttemptSetups <- Attempts
  Passed <- NoDetails
  DirectUpdates <- BareUpdates
  MaxReports <- ReportCounts
  MaxAttempt = 2
  Keys <- ThreeRuns
  Arguments <- Typed
  DefaultLimit = 1
  Ids = {"a", "b"}
  Backends = {"bolt", "memory"}
  MaxWrites = 3
INVARIANTS
  MarkedIsNotHealthy
  StoreMirrorsMemory
  VolatileWaitIsSound
  AcknowledgedIsKept
  StatusIsBacked
  DatabaseRollsBack
PROPERTIES
  MarkKept
  DeadIsNoticed
  StopHitsTheNamed
  DashboardCatchesUp
