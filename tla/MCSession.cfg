SPECIFICATION MCSpec
CONSTANTS
  Clients = {c1, c2}
  BrokenPipe = {"kill"}
  MaxBuf = 2
  MaxGet = 1
  Turn = 2
  Size = 2
  Pipe = 4
  MaxMsg = 2
INVARIANTS LockOutlivesServer  FramesKept
PROPERTIES EverythingStops BothGetThrough
CHECK_DEADLOCK FALSE
