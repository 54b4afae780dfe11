SPECIFICATION Spec
CONSTANTS
  k1 = k1
  k2 = k2
  k3 = k3
  p1 = p1
  p2 = p2
  Consumer = {k1, k2, k3}
  Remote = {p1, p2}
  OwnerOf <- MCOwnerOf
  KindOf <- MCKindOf
  NoTrack = NoTrack
CHECK_DEADLOCK FALSE
INVARIANTS
  NothingAnnouncedTooEarly
  StoreMatchesStreams
  ShownExact
