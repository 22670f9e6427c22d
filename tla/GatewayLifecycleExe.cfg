SPECIFICATION FairSpec

CONSTANT Driver = "exe"

INVARIANTS
  LifecycleInv
  DllOutlivesApi
  DispatchInsideSession
  NothingLeftBehind

PROPERTIES
  StopHonoured
  MdDespiteTd
