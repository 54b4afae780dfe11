SPECIFICATION FairSpec
CONSTANTS
  c1 = c1
  c2 = c2
  c3 = c3
  c4 = c4
  c5 = c5
  c6 = c6
  r1 = r1
  r2 = r2
  i1 = i1
  i2 = i2
  i3 = i3
  Conn = {c1, c2, c3, c4, c5, c6}
  RoomId = {r1, r2}
  ClientId = {i1, i2, i3}
  RoomOf <- MCRoomOf
  IdOf <- MCIdOf
  NoRoom = NoRoom
  NoConn = NoConn
CHECK_DEADLOCK FALSE
INVARIANTS
  OneRoomPerId
  ListedIsOpen
  MembersMeet
  RoomsEmptyOut
PROPERTIES
  EveryoneJoins
