SPECIFICATION FairSpec

CONSTANTS
  UseAuth = TRUE
  MaxDrops = 2

INVARIANTS
  TypeOK
  NoMissedWakeup

PROPERTIES
  LoginEndsWait
  WaitReturns
