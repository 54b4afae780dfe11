SPECIFICATION FairSpec
CONSTANTS
  m1 = m1
  m2 = m2
  m3 = m3
  Message = {m1, m2, m3}
  TypeOf <- MCTypeOf
  MaxRetry = 1
  MaxBufferSize = 2
  MaxBufferTime = 1
  MaxCalls = 2
  MaxFailures = 3
  MaxNow = 2
CHECK_DEADLOCK FALSE
INVARIANTS
  OneChain
  Accounted
  OnlyBufferedOvertaken
  RetryLimit
PROPERTIES
  RequestsResolve
