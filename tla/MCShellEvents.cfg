SPECIFICATION ShellSpec
CONSTANTS
  Cap = 1
  empty = empty
  valid = valid
  NoText = NoText
  Missing = Missing
  Unreadable = Unreadable
  MaxOutside = 1
  MaxSaves = 0
  Text = {empty, valid}
  Empty <- empty
  Invalid = {}
  HasSections = TRUE
INVARIANTS
  EventsAreHarmless
CHECK_DEADLOCK FALSE
