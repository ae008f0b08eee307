SPECIFICATION Spec
CONSTANTS
  Initiator = ini
  Acceptor = acc
  Senders = {ini}
  Limit <- MCLimit
  Apps = 0
  Skips = 1
  Holes = 0
  Beats = 0
  Logoffs = 0
  Connects = 2
  Lates = 0
  Drops = 1
  Crashes = 0
  NewDays = 0
INVARIANTS
  NothingLost
CHECK_DEADLOCK FALSE
