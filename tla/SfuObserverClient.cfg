SPECIFICATION FairSpec
CONSTANTS
  Calls = {"disconnect", "close"}
  MaxSamples = 4
CHECK_DEADLOCK FALSE
PROPERTIES
  ImplementsChannel
  CloseIsFinal
