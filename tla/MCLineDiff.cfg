SPECIFICATION MCSpec
CONSTANTS
  Blank = Blank
  a = a
  b = b
  Line = {a, b}
  Chars <- MCLength
  Bytes <- MCLength
  MaxLines = 4
INVARIANTS
  TypeOK
  ModifiedDiffers
  PanesReadAsTexts
  KeepsMost
  ColoursOnLines
