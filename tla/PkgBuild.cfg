SPECIFICATION MCSpec
CONSTANTS
  zlib = zlib
  openssl = openssl
  curl = curl
  git = git
  sdkpkg = sdkpkg
  BaseSdk = BaseSdk
  Pkg <- MCPkg
  Deps <- MCDeps
  HasFetch = {zlib, curl, git}
  HasPatches = {zlib, git}
  HasCompat = {openssl, git}
  SdkPkg = sdkpkg
  NotInAll = {sdkpkg}
  Commands <- SomeCommands
  MaxRuns = 3
  Crashes = 1
INVARIANTS StagedExact LibOwn NoHalfBuilt ReleasedOnce AskedFor PristineWhenPatched DryrunOrdered
PROPERTIES Terminates PackagesKept ImplementsTopo
CHECK_DEADLOCK FALSE
