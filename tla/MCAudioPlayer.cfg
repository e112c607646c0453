SPECIFICATION MCSpec
CONSTANTS
  FrameLen = 2
  ReadLen = 3
  PlayLen = 8
  RecordLen = 3
  MaxSlack = 2
  CheckEvery = 2
  DeviceReads = {1, 3}
  SocketLen = 4
  MaxSent = 10
  Lengths = {1, 2, 4}
  Blocks = {7, 8, 14}
  RfBlocks = {625, 600}
  AudioBlocks = {48, 50, 96}
  MaxBlocks = 3
  InLens = {35, 41, 50}
  MaxBuffers = 3
  Modes = {"USB", "CW_L", "AM", "NBFM"}
  AFFilters = {"BW_500", "BW_2000"}
  HangTime = 3
  Uninitialised <- AnyCount
  MaxCmd = 3
  FeFreqs = {1, 2}
  MaxIF = 3
  MaxRec = 3
INVARIANTS LatencyBounded  RecordingWhole  Continuous
PROPERTY PlayIsFifo
CHECK_DEADLOCK FALSE
