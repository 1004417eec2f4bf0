SPECIFICATION Spec
CONSTANTS
  MaxComponents = 2
  Setups <- DefaultSetup
INVARIANT WaitedMeansRegistered
