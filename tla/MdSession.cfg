SPECIFICATION FairSpec

CONSTANTS
  Lists = {{}, {a}, {b}}
  MaxSets = 2
  MaxDrops = 2

INVARIANTS
  TypeOK
  LoginFlagAgrees
  LatestListSubscribed

PROPERTIES
  SessionRecovers
