SPECIFICATION MCSpec
CONSTANTS
  Targets <- MCTargets
  Opener = {t1, t2}
  Table = {3, 4, 5}
  MaxOpens = 1
  MaxExecs = 1
  Timebases <- MCTimebases
  Showing <- MCShowing
  TimePairs <- MCTimePairs
  Files <- MCFiles
  Garbage <- MCGarbage
  Strings <- MCStrings
  Needles <- MCNeedles
  Letters = {"a", "b"}
  Places = {0, 1, 3, 4, 7}
  Rooms = {0, 3, 7, 8, 11, 12, 15, 16, 17, 22, 23, 24}
  Lengths = {0, 1, 2, 4, 5}
  Aligns <- MCAligns
  Page = 4096
  Precision = 1000000000
INVARIANTS FlagsKept OwnDescriptors AnswersRight TargetsRight
CHECK_DEADLOCK FALSE
