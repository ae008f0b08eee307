SPECIFICATION Spec
CONSTANTS
  Streams <- CleanStreams
  MinSize = 5
INVARIANTS
  TypeOK
  ChunksDoNotMatter
  EveryByteAccounted
  NeverUndercounts
CHECK_DEADLOCK FALSE
