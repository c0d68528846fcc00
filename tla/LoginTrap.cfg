SPECIFICATION Spec
CONSTANTS
  p1 = p1
  p2 = p2
  alice = alice
  bob = bob
  some = some
  other = other
  Production = Production
  Development = Development
  Default = Default
  Absent = Absent
  Blank = Blank
  Bad = Bad
  NoFile = NoFile
  Broken = Broken
  Failed = Failed
  NoEnv = NoEnv
  NoConfig = NoConfig
  NoSession = NoSession
  Nobody = Nobody
  Value <- mcValue
  Process <- mcProcess
  Environments <- mcLogins
  DotEnvs <- mcNoDotEnv
  MaxLaunches = 2
INVARIANT
  OwnersLoginSucceeds
CHECK_DEADLOCK FALSE
