SPECIFICATION FairSpec
CHECK_DEADLOCK FALSE
INVARIANTS
  MutedIsSilent
  MutableIsSent
PROPERTIES
  GetMediaEnds
