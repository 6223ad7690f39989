SPECIFICATION FairSpec
CONSTANTS
  a = a
  nl = nl
  Thread = {t1, t2}
  Char = {a, nl}
  delim = nl
  File <- MCFile
  Sizes = {0, 1, 3}
  BUFSIZ = 2
  SSIZE_MAX = 6
  MaxCalls = 3
  Nobody = Nobody
INVARIANTS InBounds LinesWhole
PROPERTIES CallsReturn
CHECK_DEADLOCK FALSE
