SPECIFICATION Spec
CONSTANTS
  Nodes <- Trio
  NoExpr = 0
  Names = {"f", "g"}
  Inputs <- Forests
  IdNames = {a, b}
  Dash = Dash
  Blank = Blank
  Garbled = Garbled
  Base = 2
  MaxDigits = 3
  MaxIndex = 4
  MaxParts = 2
  Failed = Failed
  Files <- GridFiles
  ArgumentNames = {"input"}
  Manifests <- SomeManifests
  PrintManifest <- PrintDeclared
CHECK_DEADLOCK FALSE
INVARIANT
  ShippedManifestLoads
