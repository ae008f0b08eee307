SPECIFICATION FairSpec
CONSTANTS
  Initiator = ini
  Acceptor = acc
  Senders = {ini}
  Limit <- MCLimit
  Apps = 0
  Skips = 1
  Holes = 0
  Beats = 0
  Logoffs = 1
  Connects = 1
  Lates = 0
  Drops = 0
  Crashes = 0
  NewDays = 0
PROPERTIES
  LogoffEnds
CHECK_DEADLOCK FALSE
