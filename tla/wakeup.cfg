SPECIFICATION FairSpec
CONSTANTS
  NumPods = 2
  MaxUnavailable = 1
  MaxFlips = 2
  MaxFaults = 1
INVARIANT TypeOK
INVARIANT NoSleepWhileBehind
INVARIANT DeploymentFollows
PROPERTY StatusCatchesUp
PROPERTY ComesToRest
CHECK_DEADLOCK FALSE
