SPECIFICATION Spec
CONSTANTS
  Flag = Flag
  Default = Default
  NoProp = NoProp
  n1 = n1
  n2 = n2
  Num = {n1, n2}
  Stuck = "stuck"
  Joined = "modescale"
  Str = {"a", "a b", "scale", "true", "modescale"}
  Typed = {"a", "a b", "true"}
  Spaced = {"a b"}
  Broken = {"true", "stuck"}
  MaxEdits = 3
  Doc <- MCDoc
  Unparsed <- MCUnparsed
  Settings <- MCSettings
  Spins <- MCSpins
  Halves <- MCHalves
  Switches <- MCSwitches
PROPERTY SwitchesKeepDocument
