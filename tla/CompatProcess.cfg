SPECIFICATION MCSpec
CONSTANTS
  t1 = t1
  t2 = t2
  d1 = d1
  d2 = d2
  p1 = p1
  p2 = p2
  p3 = p3
  f1 = f1
  f2 = f2
  lnk = lnk
  owner = owner
  caller = caller
  Thread = {t1, t2}
  Dir = {d1, d2}
  Place = {p1, p2, p3}
  File = {f1, f2, lnk}
  Link = {lnk}
  NoFile = NoFile
  Cwd = d2
  Owner <- MCOwner
  Asks <- MCAsks
  Trees <- MCTrees
  Ids <- MCIds
  MaxCalls <- MCMaxCalls
  MaxMoves = 1
INVARIANTS ActsOnNamed IdsBack RightIds
CHECK_DEADLOCK FALSE
