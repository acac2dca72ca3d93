CONSTANTS
  Clients = {c1, c2}
  BroadcastCap = 1
  SendCap = 1
  MaxMsg = 2
SPECIFICATION FairSpec
INVARIANT TypeOK
INVARIANT NoPanic
INVARIANT EndedMeansReleased
INVARIANT InOrder
PROPERTY OnlyFullQueuesDrop
PROPERTY ImplementsLossyStream
PROPERTY DeadPeerIsReleased
PROPERTY HubNeverStuck
CHECK_DEADLOCK FALSE
