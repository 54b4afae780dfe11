SPECIFICATION ObserverSpec
CONSTANTS
  c1 = c1
  c2 = c2
  c3 = c3
  c4 = c4
  o1 = o1
  o2 = o2
  x1 = x1
  x2 = x2
  Conn = {c1, c2, c3, c4}
  Id = {x1, x2}
  IdOf <- MCIdOf
  NoId = NoId
  NoConn = NoConn
  MaxDisconnectingTime = 1
  MaxNow = 3
  Other = {o1, o2}
  KindOf <- MCKindOf
  MaxStarts = 2
CHECK_DEADLOCK FALSE
INVARIANTS
  OneOpenSource
  UndisturbedIsObserved
  StoppedIsStamped
  IdleHoldsNothing
PROPERTIES
  SigintExits
