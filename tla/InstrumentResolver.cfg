SPECIFICATION Spec

CONSTANTS
  Products <- MCProducts
  Listed <- MCListed
  PreLists <- MCPreLists
  PreOptions <- MCPreOptions
  MaxRetries = 2
  Interval = 3
  Timeout = 2

INVARIANTS
  TypeOK
  ListOfLastRound
  OptionsClassified
  StartupBounded

PROPERTIES
  Resolves
