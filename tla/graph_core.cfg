SPECIFICATION Watched
CONSTANTS
  a = a
  b = b
  c = c
  d = d
  e = e
  cfg1 = cfg1
  cfg2 = cfg2
  Absent = Absent
  Nil = Nil
  Ids = {a, b, c, d, e}
  Configs = {cfg1, cfg2}
  Outputs = {o1, Nil}
  Errors = {e1}
  Reread <- Misread
  Links <- DiamondLinks
  Workers = {w1, w2}
  Readers = {r1}
  Observers = {s1}
  Retry = FALSE
SYMMETRY WorkerSymmetry
INVARIANTS
  TypeOK
  OutputOnlyOfCompleted
  ErrorOnlyOfFailed
  ObservationsStayTrue
  LookupsFindTheirNode
  CollectedNodesAreCurrent
PROPERTIES
  ImplementsAtomicGraph
