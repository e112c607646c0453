\* An operator who lets the radio come to rest, all the threads, and the voice.
SPECIFICATION VoiceSpec
CONSTANTS
  Listening <- Everyone
  TxFeHasEnable = TRUE
  TrCanTimeOut = FALSE
  GainRange = 2
  Knobs <- NoKnobs
  Modes <- Both
  Duplex <- Both
  Patient = TRUE
  MaxPtt = 4
  MaxKnob = 2
  MaxMic = 2
  MaxTx = 3
INVARIANTS BasebandFollows VoiceFresh
CHECK_DEADLOCK FALSE
