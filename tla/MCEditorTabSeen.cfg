SPECIFICATION SeenSpec
CONSTANTS
  Cap = 3
  empty = empty
  valid = valid
  other = other
  NoText = NoText
  Text <- MCText
  Empty <- empty
  Invalid = {}
  HasSections = TRUE
INVARIANT UndoRestoresSeen
CHECK_DEADLOCK FALSE
