SPECIFICATION Spec
CONSTANTS
  Initiator = ini
  Acceptor = acc
  Senders = {ini}
  Limit <- MCLimit
  Apps = 2
  Skips = 2
  Holes = 1
  Beats = 1
  Logoffs = 0
  Connects = 1
  Lates = 0
  Drops = 0
  Crashes = 0
  NewDays = 0
INVARIANTS
  TypeOK
  NothingLost
  NeverAhead
PROPERTIES
  BothStreams
CHECK_DEADLOCK FALSE
