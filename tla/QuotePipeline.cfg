SPECIFICATION FairSpec

CONSTANTS
  Instruments = {future, option, noid}
  OptionSet = {option}
  EmptyId = noid
  SendMayThrow = TRUE
  Capacity = 2
  BatchSize = 2
  SlotCount = 2
  MaxTicks = 4

INVARIANTS
  PipelineInv
  EveryTickAccounted
  CountersMatch
  DroppedCoversEvictions
  ShmWriterExclusive
  NoDispatchAfterRelease

PROPERTIES
  OptionsKeepOrder
  FuturesKeepOrder
  QueuedTicksLeave
  StopCompletes
