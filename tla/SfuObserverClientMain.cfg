SPECIFICATION FairSpec
CONSTANTS
  Calls = {}
  MaxSamples = 4
CHECK_DEADLOCK FALSE
PROPERTIES
  Reconnects
