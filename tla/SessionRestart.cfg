SPECIFICATION Spec
CONSTANTS
  Initiator = ini
  Acceptor = acc
  Senders = {ini}
  Limit <- MCLimit
  Apps = 1
  Skips = 0
  Holes = 1
  Beats = 0
  Logoffs = 1
  Connects = 3
  Lates = 2
  Drops = 1
  Crashes = 1
  NewDays = 0
INVARIANTS
  
  WasSent
  AheadOfForgottenOnly
  PersistAssertion
PROPERTIES
  OnlyLateLogonLowers
CONSTRAINT HoleOrLate
CHECK_DEADLOCK FALSE
