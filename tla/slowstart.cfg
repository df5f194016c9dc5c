SPECIFICATION Spec
CONSTANTS
  InitialBatchSize = 1
  MaxCount = 9
INVARIANT NeverTooMany
INVARIANT FailuresBounded
INVARIANT ResultIsExact
PROPERTY Terminates
