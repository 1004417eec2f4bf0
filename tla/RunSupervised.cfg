SPECIFICATION MachineSpec
CONSTANTS
  Operators = {o1}
  o1 = o1
  Embedded = TRUE
  Modes = {"supervised", "registration"}
  Startable = FALSE
  Kinds <- AllKinds
  Lossy = FALSE
  Managed = {"a", "b"}
  Policies = {"no", "unless-stopped"}
  Topologies <- DagGraphs
  BufferSize = 1
  Pipelines <- AllPipelines
  Ports = {0, 8080}
  FreePort = 9
  MaxEvents = 2
  Keys = {"A", "PATH"}
  Host <- HostPath
  EnvValues <- UpToTwoWords
  MaxWords = 13
  LogOrder <- TwoComponents
  LineCount = 2
  LogCapacity = 1
  Services = {"a", "b", "c"}
  MaxDepth = 3
  MaxCommands = 2
  ScriptFiles <- SmallFiles
  MaxEnds = 2
CHECK_DEADLOCK FALSE
INVARIANTS
  ExitAgreesWithRecord
  StatusBeforeShutdown
  LossesAreTold
  StartupIsOrderly
  StreamsKeepOrder
  EnvironmentIsWhole
  ServicesFollowDependencies
  CleanupIsComplete
PROPERTIES
  TerminalStatusKept
  OnlySourcesPanic
  RunEnds
  StartsComeToAnEnd
  StreamsArrive
