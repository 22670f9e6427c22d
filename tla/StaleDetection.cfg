SPECIFICATION Spec

CONSTANTS
  AgeLimit = 1
  LoopLimit = 6
  Interval = 6
  Lag = 1
  HostUptime = 2
  Modulus = 64
  MaxClock = 22

INVARIANTS
  TypeOK
  SilenceIsFlagged
  FlagTracksFeed
