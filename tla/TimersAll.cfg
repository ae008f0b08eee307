SPECIFICATION Spec
CONSTANTS
  Interval = 4
  Delays = {3, 4, 5}
  MaxDelay = 5
  AckWait = 10
  BeatEvery = 5
  AnswerWithin = 9
INVARIANTS
  TypeOK
  DeadPeerNoticed
  CleanUnlessTimedOut
  NoNeedlessTest
PROPERTIES
  DeadStaysDead
  LivePeerKept
