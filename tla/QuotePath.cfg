SPECIFICATION Spec
CHECK_DEADLOCK FALSE

CONSTANTS
  IdWidth = 4
  TextWidth = 4
  NoTick = none
  Depths <- MCDepths
  OptionSet <- MCOptionSet
  Chars <- MCChars
  OtherTopics <- MCOtherTopics
  Quote <- MCQuote
  Greeks <- MCGreeks
  SlotCount = 2
  MaxMsgSize = 320
  MaxQuotes = 3

INVARIANTS
  TypeOK
  EventsFaithful
  TransportsAgree
  FramesDecode
  DayInOrder
