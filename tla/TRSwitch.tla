------------------------------ MODULE TRSwitch ------------------------------
(***************************************************************************)
(* Transmit/receive switching, the conversation the threads of SoDaServer  *)
(* hold over the CMD mailbox when the operator presses push-to-talk.       *)
(*                                                                         *)
(* TX_STATE carries a number.  UI posts 1 (key down) or 0 (key up) for the *)
(* GUI.  USRPCtrl hears them, moves gains, relays and front end one after  *)
(* the other, then posts 3 (transmit set up) or 2 (receive set up).        *)
(* USRPTX and USRPRX act on 3 and 2, and USRPRX answers 2 with 4.          *)
(* BaseBandRX listens to 1 and 2, BaseBandTX to 3 and 0, CWTX to all five. *)
(* Every thread has its own queue, and put() fills the queues one by one,  *)
(* so two threads need not see two producers' messages in the same order.  *)
(***************************************************************************)
EXTENDS Integers, Sequences

CONSTANTS Listening,      \* subscribers followed (see TRAssumption)
          TxFeHasEnable,  \* tx_fe_has_enable: the front end has an "enabled"
          TrCanTimeOut,   \* the T/R switch's socket may stop answering
          GainRange,      \* stop() of the gain ranges, whose start() is 0
          Knobs,          \* dparms of the gain commands: dB from full gain
          Modes, Duplex,  \* modes (TRUE for CW) and duplex flags GUI may send
          Patient,        \* the operator waits for the radio and never repeats
          MaxPtt, MaxKnob \* bounds: PTT commands, other commands

ASSUME TRAssumption ==
  /\ {"CTRL", "RX", "TX", "UI"} \subseteq Listening
  /\ Listening \subseteq {"CTRL", "RX", "TX", "BBRX", "BBTX", "CWTX", "UI"}
  /\ {TxFeHasEnable, TrCanTimeOut, Patient} \subseteq BOOLEAN
  /\ Modes \cup Duplex \subseteq BOOLEAN
  /\ GainRange \in Nat \ {0}
  /\ Knobs \subseteq Int
  /\ {MaxPtt, MaxKnob} \subseteq Nat

Producers == {"CTRL", "RX", "TX", "UI"}

VARIABLES
  queue,        \* CMD mailbox: per subscriber, what it has not yet taken
  outbox,       \* per producer, the pushes its current put()s still owe
  cpc, cdx,     \* USRPCtrl: next hardware operation, iparms[1] of the key-down
  tx_on, rx_rf_gain, tx_rf_gain,                  \* USRPCtrl's members
  rx_gain, tx_gain, gpio, relay, tr_ok, fe_enabled,  \* the hardware
  spectrum,                                       \* USRPRX
  tx_enabled,                                     \* USRPTX
  audio_rx_stream_enabled, sidetone, af_is_sidetone,  \* BaseBandRX
  tx_stream_on, cw_tx_mode,                       \* BaseBandTX
  cw_tx_on,                                       \* CWTX's tx_on
  ptt, dx, cw, over_cw, label,  \* GUI: last PTT request, its duplex flag, the
                                \* last mode, the mode at key-down, TXState_lab
  n_ptt, n_knob                 \* commands sent, for the bounds

posts  == <<queue, outbox>>
ctrl   == <<cpc, cdx, tx_on, rx_rf_gain, tx_rf_gain>>
gains  == <<rx_gain, tx_gain>>
switches == <<gpio, relay, tr_ok, fe_enabled>>
bbrx   == <<audio_rx_stream_enabled, sidetone, af_is_sidetone>>
bbtx   == <<tx_stream_on, cw_tx_mode>>
gui    == <<ptt, dx, cw, over_cw, label, n_ptt, n_knob>>
baseband == <<spectrum, tx_enabled, bbrx, bbtx, cw_tx_on>>
vars == <<posts, ctrl, gains, switches, baseband, gui>>

-----------------------------------------------------------------------------
(* Messages, and who acts on them: what a thread ignores is not queued.    *)

State(v, d) == [t |-> "TX_STATE", v |-> v, dx |-> d]
Mode(c)     == [t |-> "TX_MODE", cw |-> c]
RxGain(k)   == [t |-> "RX_RF_GAIN", k |-> k]
TxGain(k)   == [t |-> "TX_RF_GAIN", k |-> k]
Report(on)  == [t |-> "REP", on |-> on]

Messages == [t : {"TX_STATE"}, v : 0 .. 4, dx : BOOLEAN]
              \cup [t : {"TX_MODE"}, cw : BOOLEAN]
              \cup [t : {"RX_RF_GAIN", "TX_RF_GAIN"}, k : Knobs \cup {0}]
              \cup [t : {"REP"}, on : BOOLEAN]

Heeders(m) ==
  CASE m.t = "TX_STATE" ->
         (IF m.v \in {0, 1} THEN {"CTRL"} ELSE {})
           \cup (IF m.v \in {2, 3} THEN {"RX", "TX"} ELSE {})
           \cup (IF m.v \in {1, 2} THEN {"BBRX"} ELSE {})
           \cup (IF m.v \in {0, 3} THEN {"BBTX"} ELSE {})
           \cup {"CWTX"}
    [] m.t = "TX_MODE" -> {"BBRX", "BBTX"}
    [] m.t = "REP" -> {"UI"}
    [] OTHER -> {"CTRL"}

\* Where a subscriber is in the order of subscriptions, which is the order in
\* which SoDaServer creates the threads.
Place == [CTRL |-> 1, RX |-> 2, TX |-> 3, BBRX |-> 4, BBTX |-> 5, CWTX |-> 6,
          UI |-> 7]

\* The pushes of put(m).
Route(m) == {<<s, m>> : s \in Heeders(m) \cap Listening}

\* p posts m, and is busy until Push has emptied its outbox.
Post(p, m) == outbox' = [outbox EXCEPT ![p] = Route(m)]

\* One turn of put()'s loop over the subscribers: the first that is still owed.
Push(p) == \E x \in outbox[p] :
  /\ \A y \in outbox[p] : Place[x[1]] =< Place[y[1]]
  /\ queue' = [queue EXCEPT ![x[1]] = Append(@, x[2])]
  /\ outbox' = [outbox EXCEPT ![p] = @ \ {x}]
  /\ UNCHANGED <<ctrl, gains, switches, baseband, gui>>

\* Thread r is not in the middle of put(), and Msg(r) awaits it.
Ready(r) == /\ r \in Listening /\ queue[r] # <<>>
            /\ r \in Producers => outbox[r] = {}
Msg(r)   == Head(queue[r])
Take(r)  == queue' = [queue EXCEPT ![r] = Tail(@)]

\* The radio is at rest: nothing is queued, owed or half done.
Settled == /\ \A s \in Listening : queue[s] = <<>>
           /\ \A p \in Producers : outbox[p] = {}
           /\ cpc = "idle"

-----------------------------------------------------------------------------
(* The GUI, through UI: push-to-talk, the mode and the gain knobs.         *)

GuiMay(p, n, max) == outbox[p] = {} /\ n < max /\ (Patient => Settled)

Ptt(on, d) ==
  /\ GuiMay("UI", n_ptt, MaxPtt)
  /\ Patient => on # ptt
  /\ Post("UI", State(IF on THEN 1 ELSE 0, d))
  /\ ptt' = on
  /\ dx' = d
  /\ over_cw' = IF on THEN cw ELSE over_cw
  /\ n_ptt' = n_ptt + 1
  /\ UNCHANGED <<queue, ctrl, gains, switches, baseband, cw, label, n_knob>>

Knob(m) ==
  /\ GuiMay("UI", n_knob, MaxKnob)
  /\ Post("UI", m)
  /\ cw' = IF m.t = "TX_MODE" THEN m.cw ELSE cw
  /\ n_knob' = n_knob + 1
  /\ UNCHANGED <<queue, ctrl, gains, switches, baseband, ptt, dx, over_cw,
                 label, n_ptt>>

\* UI hands USRPTX's report to the GUI, which relabels TXState_lab.
Label ==
  /\ Ready("UI")
  /\ Take("UI")
  /\ label' = Msg("UI").on
  /\ UNCHANGED <<outbox, ctrl, gains, switches, baseband, ptt, dx, cw,
                 over_cw, n_ptt, n_knob>>

-----------------------------------------------------------------------------
(* USRPCtrl.  A key-down or key-up is a sequence of hardware operations;   *)
(* Then gives the operation that follows each, tail-called setTXEna        *)
(* included, and "post3"/"post2" the message that ends it.                 *)

\* Slip: the front end is enabled before the external relay has moved.
ThenEnableFirst ==
  [mute |-> "drive", drive |-> "gpioOn", gpioOn |-> "feOn", feOn |-> "relayOn",
   relayOn |-> "drive2", drive2 |-> "post3", post3 |-> "idle",
   undrive |-> "listen", listen |-> "gpioOff", gpioOff |-> "feOff",
   feOff |-> "relayOff", relayOff |-> "post2", post2 |-> "idle"]

\* Slip: the receivers are not told that the radio is back.
ThenSilent ==
  [mute |-> "drive", drive |-> "gpioOn", gpioOn |-> "relayOn",
   relayOn |-> "feOn", feOn |-> "drive2", drive2 |-> "post3", post3 |-> "idle",
   undrive |-> "listen", listen |-> "gpioOff", gpioOff |-> "feOff",
   feOff |-> "relayOff", relayOff |-> "idle", post2 |-> "idle"]

Then ==
  [mute |-> "drive", drive |-> "gpioOn", gpioOn |-> "relayOn",
   relayOn |-> "feOn", feOn |-> "drive2", drive2 |-> "post3", post3 |-> "idle",
   undrive |-> "listen", listen |-> "gpioOff", gpioOff |-> "feOff",
   feOff |-> "relayOff", relayOff |-> "post2", post2 |-> "idle"]

\* Does the operation cpc = pc, whose effect is stated by the caller.
At(pc) == /\ cpc = pc
          /\ cpc' = Then[pc]
          /\ UNCHANGED <<queue, cdx, tx_on, rx_rf_gain, tx_rf_gain, baseband,
                         gui>>

CtrlReady(t) == cpc = "idle" /\ Ready("CTRL") /\ Msg("CTRL").t = t

\* A gain is dparm dB above the top of the range, clamped to the range.
Clamped(k) == LET g == GainRange + k
              IN  IF g > GainRange THEN GainRange ELSE IF g < 0 THEN 0 ELSE g

\* Slip: the receiver's gain is set even while the transmitter is on.
CtrlRxGainAlways ==
  /\ CtrlReady("RX_RF_GAIN")
  /\ Take("CTRL")
  /\ rx_rf_gain' = Clamped(Msg("CTRL").k)
  /\ rx_gain' = rx_rf_gain'
  /\ UNCHANGED <<outbox, cpc, cdx, tx_on, tx_rf_gain, tx_gain, switches,
                 baseband, gui>>

CtrlRxGain ==
  /\ CtrlReady("RX_RF_GAIN")
  /\ Take("CTRL")
  /\ rx_rf_gain' = Clamped(Msg("CTRL").k)
  /\ rx_gain' = IF tx_on THEN rx_gain ELSE rx_rf_gain'
  /\ UNCHANGED <<outbox, cpc, cdx, tx_on, tx_rf_gain, tx_gain, switches,
                 baseband, gui>>

CtrlTxGain ==
  /\ CtrlReady("TX_RF_GAIN")
  /\ Take("CTRL")
  /\ tx_rf_gain' = Clamped(Msg("CTRL").k)
  /\ tx_gain' = IF tx_on THEN tx_rf_gain' ELSE tx_gain
  /\ UNCHANGED <<outbox, cpc, cdx, tx_on, rx_rf_gain, rx_gain, switches,
                 baseband, gui>>

\* Slip: the receiver is never muted, as if every over were full duplex.
FirstDownDuplex(d) == "drive"
FirstDown(d) == IF d THEN "drive" ELSE "mute"

CtrlKeyDown ==
  /\ CtrlReady("TX_STATE") /\ Msg("CTRL").v = 1
  /\ Take("CTRL")
  /\ tx_on' = TRUE
  /\ cdx' = Msg("CTRL").dx
  /\ cpc' = FirstDown(Msg("CTRL").dx)
  /\ UNCHANGED <<outbox, rx_rf_gain, tx_rf_gain, gains, switches, baseband, gui>>

\* Slip: key-up goes straight to setTXEna(false), the gains left up.
FirstUpHot == "gpioOff"
FirstUp == "undrive"

CtrlKeyUp ==
  /\ CtrlReady("TX_STATE") /\ Msg("CTRL").v = 0
  /\ Take("CTRL")
  /\ tx_on' = FALSE
  /\ cpc' = FirstUp
  /\ UNCHANGED <<outbox, cdx, rx_rf_gain, tx_rf_gain, gains, switches,
                 baseband, gui>>

\* usrp->set_rx_gain and set_tx_gain.
CtrlGains ==
  /\ \/ At("mute") /\ rx_gain' = 0 /\ UNCHANGED tx_gain
     \/ At("listen") /\ rx_gain' = rx_rf_gain /\ UNCHANGED tx_gain
     \/ At("undrive") /\ tx_gain' = 0 /\ UNCHANGED rx_gain
     \/ (At("drive") \/ At("drive2")) /\ tx_gain' = tx_rf_gain /\ UNCHANGED rx_gain
  /\ UNCHANGED <<outbox, switches>>

\* The daughterboard's relay output, and setTXFrontEndEnable.
CtrlGpio ==
  /\ \/ At("gpioOn") /\ gpio' = TRUE
     \/ At("gpioOff") /\ gpio' = FALSE
  /\ UNCHANGED <<outbox, gains, relay, tr_ok, fe_enabled>>

CtrlFrontEnd ==
  /\ \/ At("feOn") /\ fe_enabled' = TRUE
     \/ At("feOff") /\ fe_enabled' = ~TxFeHasEnable
  /\ UNCHANGED <<outbox, gains, gpio, relay, tr_ok>>

\* tr_control->setTXOn/Off.  A switch that once fails to answer in time is given
\* up (skt = NULL), the command it was sent having been obeyed or not.
MoveRelay(on) ==
  \/ tr_ok /\ relay' = on /\ UNCHANGED tr_ok
  \/ tr_ok /\ TrCanTimeOut /\ tr_ok' = FALSE /\ relay' \in {relay, on}
  \/ ~tr_ok /\ UNCHANGED <<relay, tr_ok>>

CtrlRelay ==
  /\ \/ At("relayOn") /\ MoveRelay(TRUE)
     \/ At("relayOff") /\ MoveRelay(FALSE)
  /\ UNCHANGED <<outbox, gains, gpio, fe_enabled>>

CtrlPost ==
  /\ \/ At("post3") /\ Post("CTRL", State(3, cdx))
     \/ At("post2") /\ Post("CTRL", State(2, FALSE))
  /\ UNCHANGED <<gains, switches>>

-----------------------------------------------------------------------------
(* USRPRX, USRPTX, and the baseband threads.                               *)

RxHandles ==
  /\ Ready("RX")
  /\ Take("RX")
  /\ IF Msg("RX").v = 3
       THEN spectrum' = Msg("RX").dx /\ UNCHANGED outbox
       ELSE /\ spectrum' = TRUE
            /\ Post("RX", State(4, FALSE))
  /\ UNCHANGED <<ctrl, gains, switches, tx_enabled, bbrx, bbtx, cw_tx_on, gui>>

\* transmitSwitch, then the report of what it left.
TxHandles ==
  /\ Ready("TX")
  /\ Take("TX")
  /\ tx_enabled' = (Msg("TX").v = 3)
  /\ Post("TX", Report(tx_enabled'))
  /\ UNCHANGED <<ctrl, gains, switches, spectrum, bbrx, bbtx, cw_tx_on, gui>>

\* Slip: key-up leaves the sidetone's gain on the receiver's audio.
BbrxListenQuiet == audio_rx_stream_enabled' = TRUE /\ UNCHANGED af_is_sidetone
BbrxListen == audio_rx_stream_enabled' = TRUE /\ af_is_sidetone' = FALSE

\* In full duplex the receiver is left alone; in CW the sidetone's gain is used.
BbrxMute(d) ==
  /\ af_is_sidetone' = (af_is_sidetone \/ (~d /\ sidetone))
  /\ audio_rx_stream_enabled' = (audio_rx_stream_enabled /\ (d \/ sidetone))

BbrxHandles ==
  /\ Ready("BBRX")
  /\ Take("BBRX")
  /\ LET m == Msg("BBRX")
     IN  \/ /\ m.t = "TX_MODE"
            /\ sidetone' = m.cw
            /\ UNCHANGED <<audio_rx_stream_enabled, af_is_sidetone>>
         \/ /\ m.t = "TX_STATE" /\ m.v = 1
            /\ BbrxMute(m.dx)
            /\ UNCHANGED sidetone
         \/ /\ m.t = "TX_STATE" /\ m.v = 2
            /\ BbrxListen
            /\ UNCHANGED sidetone
  /\ UNCHANGED <<outbox, ctrl, gains, switches, spectrum, tx_enabled, bbtx,
                 cw_tx_on, gui>>

BbtxOn(v) == v = 3 /\ (tx_stream_on \/ ~cw_tx_mode)

BbtxHandles ==
  /\ Ready("BBTX")
  /\ Take("BBTX")
  /\ LET m == Msg("BBTX")
     IN  IF m.t = "TX_MODE"
           THEN cw_tx_mode' = m.cw /\ UNCHANGED tx_stream_on
           ELSE tx_stream_on' = BbtxOn(m.v) /\ UNCHANGED cw_tx_mode
  /\ UNCHANGED <<outbox, ctrl, gains, switches, spectrum, tx_enabled, bbrx,
                 cw_tx_on, gui>>

CwtxOn(v) == v = 3

CwtxHandles ==
  /\ Ready("CWTX")
  /\ Take("CWTX")
  /\ cw_tx_on' = CwtxOn(Msg("CWTX").v)
  /\ UNCHANGED <<outbox, ctrl, gains, switches, spectrum, tx_enabled, bbrx,
                 bbtx, gui>>

-----------------------------------------------------------------------------
\* At rest in receive: the start-up commands of CTRL (gains to the top of their
\* ranges, TX_STATE 0), of UI (TX_STATE 0) and of the GUI (TX_MODE) are done, the
\* receiver streams, and what the constructors left uninitialized has been set.
Init ==
  /\ queue = [s \in Listening |-> <<>>]
  /\ outbox = [p \in Producers |-> {}]
  /\ cpc = "idle" /\ cdx = FALSE /\ tx_on = FALSE
  /\ rx_rf_gain = GainRange /\ tx_rf_gain = GainRange
  /\ rx_gain = GainRange /\ tx_gain = 0
  /\ gpio = FALSE /\ relay = FALSE /\ tr_ok = TRUE /\ fe_enabled = ~TxFeHasEnable
  /\ spectrum = TRUE /\ tx_enabled = FALSE
  /\ cw \in Modes
  /\ audio_rx_stream_enabled = TRUE /\ sidetone = cw /\ af_is_sidetone = FALSE
  /\ tx_stream_on = FALSE /\ cw_tx_mode = cw
  /\ cw_tx_on = FALSE
  /\ ptt = FALSE /\ dx = FALSE /\ over_cw = cw /\ label = FALSE
  /\ n_ptt = 0 /\ n_knob = 0

Gui == \/ \E on \in BOOLEAN, d \in Duplex : Ptt(on, d)
       \/ \E c \in Modes : Knob(Mode(c))
       \/ \E k \in Knobs : Knob(RxGain(k)) \/ Knob(TxGain(k))

Ctrl == \/ CtrlRxGain \/ CtrlTxGain \/ CtrlKeyDown \/ CtrlKeyUp
        \/ CtrlGains \/ CtrlGpio \/ CtrlFrontEnd \/ CtrlRelay \/ CtrlPost

\* The threads that carry an over out.  The baseband threads change nothing that
\* these look at; they take their steps in Voice.
Next == \/ Gui
        \/ Label
        \/ Ctrl
        \/ \E p \in Producers : Push(p)
        \/ RxHandles \/ TxHandles

Spec == Init /\ [][Next]_vars

\* Every thread's run loop polls its queue for ever, and put() and the handlers
\* return; the operator owes nothing.
Fairness == /\ WF_vars(Ctrl) /\ WF_vars(RxHandles) /\ WF_vars(TxHandles)
            /\ WF_vars(Label)
            /\ \A p \in Producers : WF_vars(Push(p))

FairSpec == Spec /\ Fairness

-----------------------------------------------------------------------------
\* The radio puts power out: samples are sent, amplified and let through.
Power == tx_enabled /\ tx_gain > 0 /\ fe_enabled

\* "switch the relay BEFORE transmit on" (USRPCtrl.cxx): no power leaves the
\* radio before its relays have moved to transmit, unless the external one has
\* stopped answering, which nobody waits for.
RelayLeadsPower == Power => gpio /\ (tr_ok => relay)

\* The receiver of a half-duplex radio is muted whenever there is power, but
\* for the moment a key-down takes to turn a full-duplex over into another.
RxGainProtected == Power /\ ~cdx /\ cpc # "mute" => rx_gain = 0

\* Between two commands the gains are the operator's in the direction in use,
\* zero in the other one, however gain commands and key-downs were interleaved.
GainsFollowSwitch ==
  cpc = "idle" =>
    IF tx_on THEN tx_gain = tx_rf_gain /\ (cdx \/ rx_gain = 0)
             ELSE tx_gain = 0 /\ rx_gain = rx_rf_gain

\* A relay never moves under power: hot-switching destroys its contacts.
NoHotSwitch == [][<<gpio, relay>>' # <<gpio, relay>> => ~Power /\ ~Power']_vars

\* At rest the baseband threads are where the last push-to-talk command and the
\* mode want them.  BaseBandRX is silenced, or down to the sidetone's gain, exactly
\* in a half-duplex over ("if we're in TX mode, we should just pend silence and
\* ignore the incoming buffer"); BaseBandTX modulates exactly in an over that is
\* not CW; CWTX holds its text back in receive, though USRPRX's 4 and CTRL's 2
\* reach it in either order.
BasebandFollows ==
  Settled => /\ (~audio_rx_stream_enabled \/ af_is_sidetone) <=> (ptt /\ ~dx)
             /\ tx_stream_on <=> (ptt /\ ~over_cw)
             /\ ~ptt => ~cw_tx_on

\* Once the operator stops, relays, transmitter, waterfall and the label on the
\* screen come to where the last push-to-talk command wants them, for good,
\* whatever went on when it was given.
EventuallyObeyed ==
  <>[](/\ tx_on = ptt /\ tx_enabled = ptt /\ label = ptt /\ gpio = ptt
       /\ tr_ok => relay = ptt
       /\ TxFeHasEnable => fe_enabled = ptt
       /\ spectrum = (~ptt \/ dx))
=============================================================================
