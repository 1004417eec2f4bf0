SPECIFICATION OperatorSpec
CONSTANTS
  Operators = {o1, o2}
  o1 = o1
  o2 = o2
  Embedded = TRUE
  Modes = {"supervised", "registration"}
  Startable = FALSE
  Kinds <- AllKinds
  Lossy = TRUE
  Resolvers = {"p", "q"}
  Tries = 2
  Disturbances <- OneOrAll
  Paths <- TreePaths
  Images <- TwoLayers
  Hops = 3
  Letters <- SomeLetters
  Digits = {"1"}
  Upper <- Capitals
  DottedWords = {"ghcr.io", "docker.io"}
  TagWords = {"nginx", "ghcr.io", "localhost", "v1", "a", "b", "latest"}
CHECK_DEADLOCK FALSE
SYMMETRY OperatorSymmetry
INVARIANTS
  ComponentsOutliveDelivery
  EndsAreEarned
  FilesAreRunnable
  CommandsTellTheTruth
  ImagesAreWhatIsNamed
  CleanupSuffices
  LayerMeansWhatItSays
  ConfigurationArrives
