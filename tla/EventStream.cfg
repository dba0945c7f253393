\* Two publishers of three frames each, a queue of two, a watchdog of one tick. A closed stream is the end.
SPECIFICATION FairSpec
CONSTANTS
  upload = upload  rerun = rerun
  Publishers = {upload, rerun}
  MaxFrames = 3
  MaxQueue = 2
  Watchdog = 1
CHECK_DEADLOCK FALSE
INVARIANTS
  TypeOK
  NoSilentHole
  ReadInOrder
  QueueBounded
PROPERTIES
  LossClosesTheStream
  FramesMoveOn
