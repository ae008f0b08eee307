SPECIFICATION Spec
CONSTANTS
  Streams <- NoisyStreams
  MinSize = 5
INVARIANTS
  SyncedOnPreamble
CHECK_DEADLOCK FALSE
