SPECIFICATION SteadyFairSpec
CONSTANTS
  s1 = s1  s2 = s2
  a = a  b = b  c = c
  p1 = p1  p2 = p2  p3 = p3  p4 = p4
  NoRevision = NoRevision
  Images <- OneRevision
  ImageOf <- OwnImage
  BurstReplicas = 2
  Structures <- TwoStructures
  Revisions <- OneRevision
  Broken <- Nothing
  Strategies <- OnlyDefault
  ReplicaChoices <- Single
  PauseChoices <- MayPause
  PodIds <- TwoPods
  FaultKinds <- Nothing
  Lagging <- Nothing
  DeploymentLags = TRUE
  PodRank <- AnyOrder
  MaxEdits = 2
  MaxFaults = 0
PROPERTY PausedKeepsScale
PROPERTY RolloutCompletes
