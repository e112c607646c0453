SPECIFICATION MCSpec
CONSTANTS
  Order <- MCOrder
  FileBands <- MCFileBands
  NewLimits <- MCNewLimits
  Freqs = {3, 12}
  HlFreqs = {5, 13}
  Clients = {c1, c2}
  Modes = {"USB", "CW"}
  Garbage = {0, 7}
  StartFreq = 2
  MaxEvents = 4
  LastCol = 1
  Texts = {"a", "b"}
  StartRows = 3
  Margin = 1
  Grow = 1
  StartNames <- MCStartNames
  SaveNames = {"saved"}
  MaxOps = 4
  Targets = {22, 27, 61}
  Spans = {4, 8, 16}
  SpectrumSpan = 16
  NarrowSpan = 4
  Shapes <- MCShapes
  StartAt = 20
  PlotAt = 60
  Unset = {0, 12}
  MaxSteps = 4
  MaxDims = 2
  Users = {c1, c2}
  Requests <- MCRequests
  Told = {"5"}
  VFOs = {"VFOA", "VFOB"}
  Numbers = {"1e9", "5", "7", "8", "9"}
  MaxLines = 3
INVARIANTS   LogKept 
 
CHECK_DEADLOCK FALSE
