SPECIFICATION FairSpec

CONSTANTS
  BadValue = bad_value
  Empty = empty
  None = none
  Documents <- MCDocuments
  QueueNames = {queue_a, queue_b}
  MaxInits = 3

INVARIANTS
  HostInv
  WriterHasQueue

PROPERTIES
  StopEndsRun
