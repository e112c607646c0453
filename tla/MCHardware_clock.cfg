\* An unset clock parameter may be anything.
SPECIFICATION MCSpec
CONSTANTS
  MaxSet = 3
  MaxFault = 3
  Offers <- MCOffers
  Radios <- MCRadios
  BandAnts <- MCBandAnts
  Settings <- MCSettings
  ClockArgs = {"internal", "external"}
  MaxEvents = 2
  RxWishes = {5, 100, 896, 904, 1470, 1493, 1497, 1500, 1503, 1504, 1534, 70000}
  TxWishes = {100, 300, 896, 900, 904, 1470, 1500, 1503, 1534, 70000}
  RxRange <- MCRange
  TxRange <- MCRange
  MaxTunes = 3
INVARIANT ClockAsShown
CHECK_DEADLOCK FALSE
