SPECIFICATION FairSpec
CONSTANTS
  SndCap = 2
  MaxSize = 3
  MaxData = 3
INVARIANTS
  BacklogWatched
  ClosedOnce
  DeliveredBeforeEnd
PROPERTIES
  ImplementsLife
  Drains
  ShutdownCarriedOut
  PeerEndNoticed
CHECK_DEADLOCK FALSE
