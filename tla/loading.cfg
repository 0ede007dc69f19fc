SPECIFICATION FairSpec
CONSTANTS
  m1 = m1
  m2 = m2
  g1 = g1
  g2 = g2
  ModuleFiles <- TwoModules
  GridFiles <- TwoGrids
  Good = {v1, v2}
  Bad = {b}
  Panicking = {x}
  Absent = Absent
  NoGrid = NoGrid
  Callers = {"run", "harness"}
  MaxEdits = 1
CHECK_DEADLOCK FALSE
INVARIANTS
  TypeOK
  GridIsAllOrNothing
  RegistryHoldsWholeFiles
  NoStepIsLost
PROPERTIES
  LoadNearsItsEnd
  LoadingEnds
