SPECIFICATION FairSpec
CONSTANTS
  zlib = zlib
  openssl = openssl
  curl = curl
  git = git
  sdkpkg = sdkpkg
  BaseSdk = BaseSdk
  Pkg <- MCPkg
  Deps <- MCDeps
  HasFetch = {zlib, curl, git}
  HasPatches = {zlib, git}
  HasCompat = {openssl, git}
  SdkPkg = sdkpkg
  NotInAll = {sdkpkg}
  Commands <- SomeCommands
  MaxRuns = 1
  Crashes = 0
PROPERTIES DryrunPretends
CHECK_DEADLOCK FALSE
