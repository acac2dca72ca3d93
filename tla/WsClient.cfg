CONSTANTS
  Slots = {1, 2}
  MaxDelay = 3
  MaxBlips = 2
SPECIFICATION FairSpec
INVARIANT TypeOK
INVARIANT OneAttempt
INVARIANT StatusFollowsSocket
PROPERTY Reconnects
PROPERTY QuietAfterLogout
