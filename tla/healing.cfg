SPECIFICATION Spec
CONSTANTS
  s1 = s1  s2 = s2
  a = a  b = b  c = c
  p1 = p1  p2 = p2  p3 = p3  p4 = p4
  NoRevision = NoRevision
  Images <- TwoRevisions
  ImageOf <- OwnImage
  BurstReplicas = 2
  Structures <- OneStructure
  Revisions <- TwoRevisions
  Broken <- Nothing
  Strategies <- OnlyUnavailable
  ReplicaChoices <- Pair
  PauseChoices <- Running
  PodIds <- ThreePods
  FaultKinds <- AnyFault
  Lagging <- OneStructure
  DeploymentLags = FALSE
  PodRank <- AnyOrder
  MaxEdits = 1
  MaxFaults = 1
SYMMETRY PodSymmetry
PROPERTY IdentityKept
