SPECIFICATION FairSpec
CONSTANTS
  empty = empty
  layout = layout
  binds = binds
  broken = broken
  Nothing = Nothing
  NoOne = NoOne
  Missing = Missing
  own = own
  other = other
  Path = {own, other}
  Own <- own
  TextsOf <- MCTextsOf
  Caller = {c1, c2}
  Text <- MCText
  Empty <- empty
  Invalid = {broken}
  Default <- broken
  Document <- MCDocument
  MaxOutside = 1
INVARIANTS
  TypeOK
  NoMixing
  IndexFindsNodes
PROPERTIES
  ImplementsDurableFile
  MutexIsReleased
