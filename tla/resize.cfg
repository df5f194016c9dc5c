SPECIFICATION FairSpec
CONSTANTS
  i1 = i1  i2 = i2  c1 = c1  c2 = c2  f1 = f1  f2 = f2  t1 = t1
  Nil = Nil
  Workloads <- SmallWorkloads
  Replicas = 2
  Annotation = Nil
  MaxEdits = 2
  MaxFaults = 1
INVARIANT MatchIsReplacement
PROPERTY BudgetKept
PROPERTY EditsChangeRevision
PROPERTY ReplacedOnlyIfRefused
PROPERTY UpdateSettles
