SPECIFICATION Spec
CONSTANTS
  t1 = t1
  t2 = t2
  d1 = d1
  d2 = d2
  Asks <- MCAsks
  Trees <- MCTrees
  Thread = {t1, t2}
  Dir = {d1, d2}
  NoDir = NoDir
  Place = {p1, p2, p3}
  InSystem = {"mkdirat"}
  Private = FALSE
  Readable = {d1}
  Limit = 2
  MaxCalls = 1
  MaxMoves = 0
  MaxChdirs = 1
  NoResult = NoResult
PROPERTIES ImplementsAtomic
CHECK_DEADLOCK FALSE
