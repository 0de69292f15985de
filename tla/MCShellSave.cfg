SPECIFICATION ShellSpec
CONSTANTS
  Cap = 1
  empty = empty
  valid = valid
  NoText = NoText
  Missing = Missing
  Unreadable = Unreadable
  MaxOutside = 0
  MaxSaves = 0
  Text = {empty, valid}
  Empty <- empty
  Invalid = {}
  HasSections = TRUE
INVARIANTS
  SaveReturns
CHECK_DEADLOCK FALSE
