SPECIFICATION SteadyFairSpec
CONSTANTS
  s1 = s1  s2 = s2
  a = a  b = b  c = c
  p1 = p1  p2 = p2  p3 = p3  p4 = p4
  NoRevision = NoRevision
  Images <- TwoRevisions
  ImageOf <- OwnImage
  BurstReplicas = 2
  Structures <- OneStructure
  Revisions <- TwoRevisions
  Broken <- SecondImage
  Strategies <- OnlyUnavailable
  ReplicaChoices <- Pair
  PauseChoices <- Running
  PodIds <- TwoPods
  FaultKinds <- Nothing
  Lagging <- Nothing
  DeploymentLags = FALSE
  PodRank <- NameOrder
  MaxEdits = 2
  MaxFaults = 0
PROPERTY RolloutCompletes
