SPECIFICATION FairSpec
CONSTANTS
  Socket = {1, 2, 3}
  Calls = {"disconnect", "close"}
  Reconnect = TRUE
  MaxAttempt = 1
  MaxConnects = 2
  MaxSamples = 3
CHECK_DEADLOCK FALSE
INVARIANTS
  OneSocket
PROPERTIES
  ImplementsChannel
  Reconnects
  CloseIsFinal
