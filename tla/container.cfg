SPECIFICATION FairSpec
CONSTANTS
  Exprs = {e1, e2}
  Nil = Nil
  Getters = {g1, g2, g3}
  Adders = {a1}
  NoOne = NoOne
  Overlap = FALSE
INVARIANTS
  TypeOK
  AnswersAreComplete
  AnalysedOnce
  SomeoneMoves
PROPERTIES
  ImplementsAtomicContainer
  CallsReturn
