------------------------------- MODULE Voice --------------------------------
(***************************************************************************)
(* What is said into the microphone, on its way to the antenna: the sound  *)
(* card's capture buffer, BaseBandTX, the TX mailbox and USRPTX, each      *)
(* steered by the TX_STATE conversation of TRSwitch, which this module     *)
(* extends.  The microphone never stops: BaseBandTX reads it in receive    *)
(* too, and throws it away.  A buffer carries the number of the PTT        *)
(* command it was captured after; its samples, their filter, modulation    *)
(* and resampling are left out, and so is the noise source.                *)
(***************************************************************************)
EXTENDS TRSwitch

CONSTANTS MaxMic,  \* buffers that the capture device holds (500 ms)
          MaxTx    \* bound: buffers in the TX mailbox

ASSUME VoiceAssumption == /\ {"BBRX", "BBTX", "CWTX"} \subseteq Listening /\ Patient
                          /\ {MaxMic, MaxTx} \subseteq Nat \ {0}

VARIABLES mic,   \* captured and not yet read
          hand,  \* BaseBandTX: the buffer it is modulating, if any
          txq    \* TX mailbox: USRPTX's queue

voice == <<mic, hand, txq>>
voiceVars == <<vars, voice>>

\* A device that is full stops in an overrun, and is emptied to go on.
Capture ==
  /\ mic' = IF Len(mic) = MaxMic THEN <<>> ELSE Append(mic, n_ptt)
  /\ UNCHANGED <<vars, hand, txq>>

\* BaseBandTX is at the top of its loop, and no command awaits it.
NoCommand == hand = <<>> /\ queue["BBTX"] = <<>>

\* The device has a whole buffer, or recv() returns at once with nothing.
Read == mic # <<>> /\ mic' = Tail(mic)

Discard ==
  /\ NoCommand /\ (~tx_stream_on \/ cw_tx_mode)
  /\ Read
  /\ UNCHANGED <<vars, hand, txq>>

Receive ==
  /\ NoCommand /\ tx_stream_on /\ ~cw_tx_mode
  /\ Read
  /\ hand' = <<Head(mic)>>
  /\ UNCHANGED <<vars, txq>>

\* modulateAM or modulateFM, and the put.
Modulate ==
  /\ hand # <<>> /\ Len(txq) < MaxTx
  /\ txq' = txq \o hand
  /\ hand' = <<>>
  /\ UNCHANGED <<vars, mic>>

\* USRPTX sends when it has no command, and is not in CW (its copy of the mode
\* is left out: it may send).
Send ==
  /\ tx_enabled /\ queue["TX"] = <<>> /\ outbox["TX"] = {}
  /\ txq # <<>>
  /\ txq' = Tail(txq)
  /\ UNCHANGED <<vars, mic, hand>>

\* Slip: the transmitter is switched off with its queue as it is.
NotFlushed(q) == q
Flushed(q) == <<>>

\* transmitSwitch(false) flushes; when the transmitter is off already it returns.
Switch ==
  /\ TxHandles
  /\ txq' = IF tx_enabled /\ ~tx_enabled' THEN Flushed(txq) ELSE txq
  /\ UNCHANGED <<mic, hand>>

\* Time that passes unsaid: between two PTT commands BaseBandTX reads what the
\* microphone holds, and a key-up takes USRPCtrl longer than BaseBandTX needs to
\* finish a buffer and look at its commands.
Rested == mic = <<>>
SlowKeyUp == cpc = "post2" => ~tx_stream_on

\* The rest of the radio is as TRSwitch has it.
Conversation ==
  /\ \/ Gui /\ (n_ptt' # n_ptt => Rested)
     \/ Ctrl /\ SlowKeyUp
     \/ BbtxHandles /\ hand = <<>>
     \/ Label \/ RxHandles \/ BbrxHandles \/ CwtxHandles
     \/ \E p \in Producers : Push(p)
  /\ UNCHANGED voice

VoiceInit == Init /\ mic = <<>> /\ hand = <<>> /\ txq = <<>>

VoiceNext == \/ Conversation \/ Switch
             \/ Capture \/ Discard \/ Receive \/ Modulate \/ Send

VoiceSpec == VoiceInit /\ [][VoiceNext]_voiceVars

-----------------------------------------------------------------------------
\* The key-down that the transmitter, when it is on, is on for.
Over == IF ptt THEN n_ptt ELSE n_ptt - 1

\* While the transmitter is on, all that is queued for it was captured since the
\* key went down: neither what was said off the air, which BaseBandTX throws
\* away, nor the end of the over before, which transmitSwitch flushes.
VoiceFresh == tx_enabled => \A i \in DOMAIN txq : txq[i] >= Over
=============================================================================
