SPECIFICATION Spec
CONSTANTS
  a = a
  b = b
  c = c
  d = d
  e = e
  cfg1 = cfg1
  cfg2 = cfg2
  Absent = Absent
  Nil = Nil
  Ids = {a}
  Configs = {cfg1}
  Outputs = {o1}
  Errors = {e1}
  Reread <- AsWritten
  Links <- NoLinks
  Workers = {w1}
  Readers = {}
  Observers = {s1}
  Retry = FALSE
INVARIANTS
  CompletedOutputIsVisible
