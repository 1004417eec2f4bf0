SPECIFICATION FairSpec
CONSTANTS
  Components <- MCComponents
  MaxStarts <- MCMaxStarts
CHECK_DEADLOCK FALSE
INVARIANT TableIsTrue
PROPERTY DeadStopsBeating
