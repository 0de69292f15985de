SPECIFICATION FairSpec
CONSTANTS
  Cap = 3
  empty = empty
  valid = valid
  broken = broken
  NoText = NoText
  Text <- MCText
  Empty <- empty
  Invalid <- MCInvalid
  HasSections = TRUE
INVARIANTS
  TypeOK
  UndoChain
  HistoryBounded
  DirtyExact
  FallbackHoldsInvalid
  VerdictAboutBuffer
PROPERTIES
  EditsGetValidated
  ImplementsHistory
CHECK_DEADLOCK FALSE
