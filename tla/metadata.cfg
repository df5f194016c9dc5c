SPECIFICATION Spec
CONSTANTS
  k1 = k1  k2 = k2  k3 = k3
  Keys <- ThreeKeys
  Values = {v, empty}
  Empty = empty
  ManagedKey = managed
  TemplateKeys <- TwoKeys
  NoPod = nopod
INVARIANT NothingLeftBehind
PROPERTY PatchSettles
PROPERTY ForeignKeysKept
