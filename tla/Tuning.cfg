SPECIFICATION Spec
CONSTANTS
  Grid = 3
  RxLow = 8
  RxHigh = 22
  TxLow = 5
  TxHigh = 30
  Park = 7
  StartFreq = 15
  RxFreqs = {16, 17, 23}
  TxFreqs = {18, 26}
  CheckFreqs = {12}
  Garbage = {0, 13}
  Sensors = {"r"}
  MaxRequests = 3
INVARIANT OscillatorsAgree
PROPERTY RequestObeyed
CHECK_DEADLOCK FALSE
