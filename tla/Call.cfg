SPECIFICATION CallSpec
CONSTANTS
  c1 = c1
  c2 = c2
  i1 = i1
  i2 = i2
  Conn = {c1, c2}
  ClientId = {i1, i2}
  IdOf <- MCIdOf
  Request <- Messages
  From <- MCFrom
  Type <- MCType
  NoConn = NoConn
  NoReq = NoReq
  me = c2
  Media <- MCMedia
CHECK_DEADLOCK FALSE
PROPERTIES
  ImplementsMediaClient
  Connects
  TracksShown
  TracksVanish
