SPECIFICATION FairSpec
CONSTANTS
  Initiator = ini
  Acceptor = acc
  Senders = {ini, acc}
  Limit <- MCLimit
  Apps = 1
  Skips = 1
  Holes = 0
  Beats = 1
  Logoffs = 0
  Connects = 2
  Lates = 0
  Drops = 0
  Crashes = 0
  NewDays = 1
PROPERTIES
  GapHeals
  Arrives
CHECK_DEADLOCK FALSE
