SPECIFICATION SteadyFairSpec
CONSTANTS
  s1 = s1  s2 = s2
  a = a  b = b  c = c
  p1 = p1  p2 = p2  p3 = p3  p4 = p4
  NoRevision = NoRevision
  Images <- TwoRevisions
  ImageOf <- OwnImage
  BurstReplicas = 2
  Structures <- TwoStructures
  Revisions <- TwoRevisions
  Broken <- Nothing
  Strategies <- EveryStrategy
  ReplicaChoices <- NoneOrOne
  PauseChoices <- Running
  PodIds <- ThreePods
  FaultKinds <- ApiFaults
  Lagging <- Nothing
  DeploymentLags = FALSE
  PodRank <- AnyOrder
  MaxEdits = 1
  MaxFaults = 1
INVARIANT TypeOK
PROPERTY RolloutCompletes
