SPECIFICATION MCSpec
CONSTANTS
  MaxAhead = 2
  MaxPost = 2
  MaxText = 3
  MaxSwitch = 3
  MaxQueue = 2
  SampleRate = 84
  BufLen = 6
  Speeds = {25, 80}
  MaxChars = 4
  MaxSpeed = 2
INVARIANTS AheadBounded  KeyedAsTyped
PROPERTIES MarkerNeverEarly 
CHECK_DEADLOCK FALSE
