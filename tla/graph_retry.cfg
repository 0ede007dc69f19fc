SPECIFICATION FairSpec
CONSTANTS
  a = a
  b = b
  c = c
  d = d
  e = e
  cfg1 = cfg1
  cfg2 = cfg2
  Absent = Absent
  Nil = Nil
  Ids = {a, b}
  Configs = {cfg1}
  Outputs = {o1}
  Errors = {e1}
  Reread <- AsWritten
  Links <- ChainLinks
  Workers = {w1, w2}
  Readers = {}
  Observers = {}
  Retry = TRUE
INVARIANTS
  VerdictHasItsValue
PROPERTIES
  ResultsAreStored
