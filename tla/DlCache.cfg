SPECIFICATION Spec
CONSTANTS
  Run = {armv6, i386}
  Blocks = 2
  Longest = 2
  Tries = 3
INVARIANTS UnpackedGenuine
PROPERTIES SettledStays EveryFetchEnds
