SPECIFICATION SteadySpec
CONSTANTS
  s1 = s1  s2 = s2
  a = a  b = b  c = c
  p1 = p1  p2 = p2  p3 = p3  p4 = p4
  NoRevision = NoRevision
  Images <- OneRevision
  ImageOf <- OwnImage
  BurstReplicas = 2
  Structures <- TwoStructures
  Revisions <- OneRevision
  Broken <- Nothing
  Strategies <- ThreeStrategies
  ReplicaChoices <- Pair
  PauseChoices <- Running
  PodIds <- FourPods
  FaultKinds <- ApiFaults
  Lagging <- TwoStructures
  DeploymentLags = FALSE
  PodRank <- AnyOrder
  MaxEdits = 1
  MaxFaults = 1
SYMMETRY Symmetry
INVARIANT RecreatePodsExclusive
PROPERTY RecreateScalesUpAlone
INVARIANT NoPhantomAvailability
PROPERTY FloorKept
PROPERTY ScaleUpWithinSurge
