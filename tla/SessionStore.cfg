SPECIFICATION Spec
CONSTANTS
  a1 = a1
  a2 = a2
  right = right
  wrong = wrong
  d1 = d1
  d2 = d2
  NoSession = NoSession
  Actor <- mcActor
  Passphrase <- mcPassphrase
  Pass <- mcPass
  Data <- mcData
  MaxStores = 3
  MaxLoads = 2
INVARIANTS
  TypeOK
  FileIsComplete
  OnlyKilledLeaveTemps
PROPERTY
  IsRegister
CHECK_DEADLOCK FALSE
