SPECIFICATION FairSpec
CONSTANTS
  Char <- MCChar
  Digits = {"1"}
  Letters = {"a", "e"}
  Brackets = {"{"}
  Keywords <- MCKeywords
  Opened <- MCOpened
  Fails <- MCFails
  SpanOf <- MCSpanOf
  Bytes <- MCBytes
  MaxLen = 4
INVARIANTS
  TypeOK
  TokensInOrder
  TokensReadRight
  NothingMissed
  ColoursAreCurrent
PROPERTIES
  HighlightingEnds
