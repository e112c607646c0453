\* 1500 is 50 MHz, which all steps of integer-N share.
SPECIFICATION MCSpec
CONSTANTS
  MaxSet = 3
  MaxFault = 3
  Offers <- MCOffers
  Radios <- MCRadios
  BandAnts <- MCBandAnts
  Settings <- MCSettings
  ClockArgs = {"internal"}
  MaxEvents = 2
  RxWishes = {5, 100, 896, 904, 1470, 1493, 1497, 1500, 1503, 1504, 1534, 70000}
  TxWishes = {100, 300, 896, 900, 904, 1470, 1500, 1503, 1534, 70000}
  RxRange <- MCRange
  TxRange <- MCRange
  MaxTunes = 3
INVARIANTS  ShownIsUsed OverEndsWithServer SpursAvoided
PROPERTY MovesAsTold
CHECK_DEADLOCK FALSE
