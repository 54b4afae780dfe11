SPECIFICATION Spec
CONSTANTS
  c1 = c1
  c2 = c2
  c3 = c3
  i1 = i1
  i2 = i2
  Conn = {c1, c2}
  ClientId = {i1, i2}
  IdOf <- MCIdOf
  Request <- Pair
  From <- MCFrom
  Type <- MCType
  NoConn = NoConn
  NoReq = NoReq
CHECK_DEADLOCK FALSE
INVARIANTS
  AtMostOneConsumer
