SPECIFICATION FairShellSpec
CONSTANTS
  Cap = 1
  empty = empty
  valid = valid
  NoText = NoText
  Missing = Missing
  Unreadable = Unreadable
  MaxOutside = 1
  MaxSaves = 1
  Text = {empty, valid}
  Empty <- empty
  Invalid = {}
  HasSections = TRUE
INVARIANTS
  ShellTypeOK
  ReportedChangesShow
  OneReloadDialog
  ClosesSettled
PROPERTIES
  ImplementsTab
  ReloadAsksFirst
  EventsGetHandled
CHECK_DEADLOCK FALSE
