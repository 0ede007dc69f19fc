SPECIFICATION Spec
CONSTANTS
  m1 = m1
  m2 = m2
  g1 = g1
  g2 = g2
  ModuleFiles <- OneModule
  GridFiles <- TwoGrids
  Good = {v1}
  Bad = {b}
  Panicking = {x}
  Absent = Absent
  NoGrid = NoGrid
  Callers = {"run"}
  MaxEdits = 0
CHECK_DEADLOCK FALSE
INVARIANTS
  NoGridWithoutModules
