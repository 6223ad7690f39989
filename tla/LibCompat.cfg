SPECIFICATION Spec
CONSTANTS
  arc4random_buf = arc4random_buf
  CCRandomGenerateBytes = CCRandomGenerateBytes
  getentropy = getentropy
  realpath_header = realpath_header
  misspelt = misspelt
  Func <- MCFunc
  Sourced <- MCSourced
  Deps <- MCDeps
  Requests <- MCRequests
  Packages = 3
INVARIANTS BuiltOnce HeadersFirst ArchiveExact
CHECK_DEADLOCK FALSE
