\* An operator who never waits, over a T/R switch that may stop answering.
SPECIFICATION FairSpec
CONSTANTS
  Listening <- Switching
  TxFeHasEnable = TRUE
  TrCanTimeOut = TRUE
  GainRange = 2
  Knobs <- SomeKnobs
  Modes <- Neither
  Duplex <- Both
  Patient = FALSE
  MaxPtt = 3
  MaxKnob = 1
INVARIANTS RelayLeadsPower RxGainProtected GainsFollowSwitch
PROPERTIES NoHotSwitch EventuallyObeyed
CHECK_DEADLOCK FALSE
