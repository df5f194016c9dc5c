SPECIFICATION Spec
CONSTANTS
  s1 = s1  s2 = s2
  a = a  b = b  c = c
  p1 = p1  p2 = p2  p3 = p3  p4 = p4
  NoRevision = NoRevision
  Images <- OneRevision
  ImageOf <- OwnImage
  BurstReplicas = 2
  Structures <- TwoStructures
  Revisions <- OneRevision
  Broken <- Nothing
  Strategies <- OnlyRecreate
  ReplicaChoices <- Single
  PauseChoices <- Running
  PodIds <- TwoPods
  FaultKinds <- Nothing
  Lagging <- Nothing
  DeploymentLags = FALSE
  PodRank <- AnyOrder
  MaxEdits = 1
  MaxFaults = 0
INVARIANT RecreatePodsExclusive
