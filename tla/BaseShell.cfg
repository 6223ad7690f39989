SPECIFICATION MCSpec
CONSTANTS
  u2 = u2
  c1 = c1
  c2 = c2
  User = {u1, u2}
  Changer = {c1, c2}
  Wants <- MCWants
  Kills = 1
  Tries = 2
INVARIANTS FilesKept Installed ShellStarts LinkIsLast
CHECK_DEADLOCK FALSE
