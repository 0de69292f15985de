SPECIFICATION Spec
CONSTANTS
  empty = empty
  default = default
  Text = {empty, default}
  Empty <- empty
  Default <- default
  Missing = Missing
  Window = {w1, w2}
  MaxTabs = 4
  MaxOutside = 1
INVARIANTS
  AnyTabDirty
CHECK_DEADLOCK FALSE
