SPECIFICATION FairSpec
CONSTANTS
  NumPods = 2
  MaxUid = 2
  MaxChanges = 3
  NoOwner = NoOwner
  Other = Other
INVARIANT NoneOverlooked
PROPERTY AdoptsOrphans
PROPERTY KeepsMembers
PROPERTY ClaimSettles
CHECK_DEADLOCK FALSE
PROPERTY ImplementsOwnership
