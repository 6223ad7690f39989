SPECIFICATION MCSpec
CONSTANTS
  Run = {r1, r2, r3}
  SecondRun = r2
  ThirdRun = r3
  ThirdTriple = arm64
  Triple = {armv6, i386, arm64}
  DefaultTarget = armv6
  NoFile = NoFile
  Empty = Empty
  Crashes = 1
INVARIANTS Exclusive LockSeen TmpOwn ToolsReady OneCircle
PROPERTIES EveryRunEnds
CHECK_DEADLOCK FALSE
