SPECIFICATION FairSpec
CONSTANTS
  ini = ini
  acc = acc
  mux = mux
  Program <- MCProgram
  Setup <- MCSetup
  File <- MCFile
  Extra <- MCExtra
  MaxSession = 3
  Adds = 2
  Logons = 1
  Logoffs = 1
  Faults = 1
  Exits = 1
  Limit <- MCLimit
  MaxEvents = 2
INVARIANTS
  TypeOK
  RightCounterparty
  OneSessionPerIdentity
  TablesAgree
PROPERTIES
  LoggedOffStaysOff
  EventuallyLoggedOn
CHECK_DEADLOCK FALSE
