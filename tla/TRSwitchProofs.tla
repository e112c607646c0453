--------------------------- MODULE TRSwitchProofs ---------------------------
(***************************************************************************)
(* What USRPCtrl's order of hardware operations guarantees, for any number *)
(* of push-to-talk and gain commands in any order, and any gain range.     *)
(*                                                                         *)
(* The invariant says, operation by operation, where a key-down or key-up  *)
(* has got to; it says nothing of the queues, because USRPCtrl never leaves*)
(* a sequence half done, and nothing of USRPTX, whose streaming may lag    *)
(* behind by any amount.  The front end's enable is what the relays rely   *)
(* on, hence the hypothesis TxFeHasEnable.                                 *)
(*                                                                         *)
(* Then what an over leaves behind in the baseband threads, and what voice *)
(* it lets through, for an operator who lets the radio come to rest: what  *)
(* Voice assumes is used for that half alone.                              *)
(***************************************************************************)
EXTENDS Voice, TLAPS

Down == {"mute", "drive", "gpioOn", "relayOn", "feOn", "drive2", "post3"}
Up   == {"undrive", "listen", "gpioOff", "feOff", "relayOff", "post2"}

\* The members are truth values, and cpc belongs to the state of tx_on.
Shape == /\ tx_on \in BOOLEAN /\ gpio \in BOOLEAN /\ relay \in BOOLEAN
         /\ tr_ok \in BOOLEAN /\ fe_enabled \in BOOLEAN
         /\ cpc \in Down \cup Up \cup {"idle"}
         /\ cpc \in Down => tx_on
         /\ cpc \in Up => ~tx_on

\* The relays stand on transmit, as far as CTRL can tell.
RelaysOn == gpio /\ (tr_ok => relay)

\* While the front end is enabled the relays are on, until a key-up that has
\* taken the gain away moves them; after feOn and feOff, which is certain.
FrontEndLine ==
  /\ fe_enabled /\ cpc \notin {"feOff", "relayOff", "post2"} => RelaysOn
  /\ cpc \in {"relayOn", "feOn"} => gpio
  /\ cpc = "feOn" => RelaysOn
  /\ cpc \in {"drive2", "post3"} => fe_enabled
  /\ cpc = "idle" => fe_enabled = tx_on
  /\ cpc \in {"relayOff", "post2"} => ~fe_enabled

\* The transmit gain is zero from undrive to the next key-down, and is the
\* operator's from the first drive on.
TxGainLine ==
  /\ cpc \in Up \ {"undrive"} => tx_gain = 0
  /\ cpc \in Down \ {"mute", "drive"} => tx_gain = tx_rf_gain
  /\ cpc = "idle" => tx_gain = IF tx_on THEN tx_rf_gain ELSE 0

\* The receive gain is zero in a half-duplex over, from mute on and as long as
\* there is transmit gain, and is the operator's from listen to the next key-down.
RxGainLine ==
  /\ cpc \in Down \ {"mute"} => cdx \/ rx_gain = 0
  /\ cpc = "undrive" => cdx \/ rx_gain = 0 \/ tx_gain = 0
  /\ cpc \in Up \ {"undrive", "listen"} => rx_gain = rx_rf_gain
  /\ cpc = "idle" => IF tx_on THEN cdx \/ rx_gain = 0 ELSE rx_gain = rx_rf_gain

IInv == Shape /\ FrontEndLine /\ TxGainLine /\ RxGainLine

-----------------------------------------------------------------------------
\* The order of the hardware operations.
LEMMA ThenIs ==
  /\ Then["mute"] = "drive" /\ Then["drive"] = "gpioOn"
  /\ Then["gpioOn"] = "relayOn" /\ Then["relayOn"] = "feOn"
  /\ Then["feOn"] = "drive2" /\ Then["drive2"] = "post3"
  /\ Then["post3"] = "idle"
  /\ Then["undrive"] = "listen" /\ Then["listen"] = "gpioOff"
  /\ Then["gpioOff"] = "feOff" /\ Then["feOff"] = "relayOff"
  /\ Then["relayOff"] = "post2" /\ Then["post2"] = "idle"
  BY DEF Then

\* The steps that leave USRPCtrl and the hardware alone, those of every other
\* thread, of put() and of the operator among them.
LEMMA OthersKeepHardware ==
  ASSUME \/ Gui \/ Label \/ \E p \in Producers : Push(p)
         \/ RxHandles \/ TxHandles
         \/ UNCHANGED vars
  PROVE  UNCHANGED <<ctrl, gains, switches>>
  BY DEF Gui, Ptt, Knob, Label, Push, RxHandles, TxHandles, vars

LEMMA InitHolds ==
  ASSUME Init, TxFeHasEnable
  PROVE  IInv
  <1>1. fe_enabled = FALSE
    BY DEF Init
  <1>2. QED
    BY <1>1 DEF Init, IInv, Shape, FrontEndLine, TxGainLine, RxGainLine,
                RelaysOn, Down, Up

\* A gain command, taken between two sequences.
LEMMA GainCommandsKeep ==
  ASSUME IInv, CtrlRxGain \/ CtrlTxGain
  PROVE  IInv'
  <1>1. /\ cpc = "idle" /\ cpc' = "idle"
        /\ UNCHANGED <<cdx, tx_on, switches>>
    BY DEF CtrlRxGain, CtrlTxGain, CtrlReady
  <1>2. Shape' /\ FrontEndLine'
    BY <1>1 DEF IInv, Shape, FrontEndLine, RelaysOn, switches
  <1>3. CASE CtrlRxGain
    <2>1. rx_gain' = (IF tx_on THEN rx_gain ELSE rx_rf_gain')
          /\ UNCHANGED <<tx_rf_gain, tx_gain>>
      BY <1>3 DEF CtrlRxGain
    <2>2. QED
      BY <1>1, <1>2, <2>1 DEF IInv, TxGainLine, RxGainLine, Down, Up
  <1>4. CASE CtrlTxGain
    <2>1. tx_gain' = (IF tx_on THEN tx_rf_gain' ELSE tx_gain)
          /\ UNCHANGED <<rx_rf_gain, rx_gain>>
      BY <1>4 DEF CtrlTxGain
    <2>2. QED
      BY <1>1, <1>2, <2>1 DEF IInv, TxGainLine, RxGainLine, Down, Up
  <1>5. QED
    BY <1>3, <1>4

\* Taking a key-down or a key-up starts its sequence.
LEMMA KeyingKeeps ==
  ASSUME IInv, CtrlKeyDown \/ CtrlKeyUp
  PROVE  IInv'
  <1>1. cpc = "idle" /\ UNCHANGED <<rx_rf_gain, tx_rf_gain, gains, switches>>
    BY DEF CtrlKeyDown, CtrlKeyUp, CtrlReady
  <1>2. CASE CtrlKeyDown
    <2>1. /\ tx_on' = TRUE
          /\ cpc' = (IF cdx' THEN "drive" ELSE "mute")
      BY <1>2 DEF CtrlKeyDown, FirstDown
    <2>2. QED
      BY <1>1, <2>1 DEF IInv, Shape, FrontEndLine, TxGainLine, RxGainLine,
                        RelaysOn, Down, Up, gains, switches
  <1>3. CASE CtrlKeyUp
    <2>1. tx_on' = FALSE /\ cpc' = "undrive" /\ UNCHANGED cdx
      BY <1>3 DEF CtrlKeyUp, FirstUp
    <2>2. QED
      BY <1>1, <2>1 DEF IInv, Shape, FrontEndLine, TxGainLine, RxGainLine,
                        RelaysOn, Down, Up, gains, switches
  <1>4. QED
    BY <1>2, <1>3

\* One hardware operation of a sequence.
LEMMA OperationsKeep ==
  ASSUME IInv, TxFeHasEnable,
         CtrlGains \/ CtrlGpio \/ CtrlFrontEnd \/ CtrlRelay \/ CtrlPost
  PROVE  IInv'
  <1>0. /\ cpc' = Then[cpc]
        /\ UNCHANGED <<cdx, tx_on, rx_rf_gain, tx_rf_gain>>
    BY DEF CtrlGains, CtrlGpio, CtrlFrontEnd, CtrlRelay, CtrlPost, At
  <1> USE ThenIs
  <1>1. CASE CtrlGains
    <2>1. /\ UNCHANGED switches
          /\ \/ cpc = "mute" /\ rx_gain' = 0 /\ UNCHANGED tx_gain
             \/ cpc = "listen" /\ rx_gain' = rx_rf_gain /\ UNCHANGED tx_gain
             \/ cpc = "undrive" /\ tx_gain' = 0 /\ UNCHANGED rx_gain
             \/ cpc = "drive" /\ tx_gain' = tx_rf_gain /\ UNCHANGED rx_gain
             \/ cpc = "drive2" /\ tx_gain' = tx_rf_gain /\ UNCHANGED rx_gain
      BY <1>1 DEF CtrlGains, At
    <2>2. QED
      BY <1>0, <2>1 DEF IInv, Shape, FrontEndLine, TxGainLine, RxGainLine,
                        RelaysOn, Down, Up, switches
  <1>2. CASE CtrlGpio
    <2>1. /\ UNCHANGED <<gains, relay, tr_ok, fe_enabled>>
          /\ \/ cpc = "gpioOn" /\ gpio' = TRUE
             \/ cpc = "gpioOff" /\ gpio' = FALSE
      BY <1>2 DEF CtrlGpio, At
    <2>2. QED
      BY <1>0, <2>1 DEF IInv, Shape, FrontEndLine, TxGainLine, RxGainLine,
                        RelaysOn, Down, Up, gains
  <1>3. CASE CtrlFrontEnd
    <2>1. /\ UNCHANGED <<gains, gpio, relay, tr_ok>>
          /\ \/ cpc = "feOn" /\ fe_enabled' = TRUE
             \/ cpc = "feOff" /\ fe_enabled' = FALSE
      BY <1>3 DEF CtrlFrontEnd, At
    <2>2. QED
      BY <1>0, <2>1 DEF IInv, Shape, FrontEndLine, TxGainLine, RxGainLine,
                        RelaysOn, Down, Up, gains
  <1>4. CASE CtrlRelay
    <2>1. /\ UNCHANGED <<gains, gpio, fe_enabled>>
          /\ \/ cpc = "relayOn" /\ MoveRelay(TRUE)
             \/ cpc = "relayOff" /\ MoveRelay(FALSE)
      BY <1>4 DEF CtrlRelay, At
    <2>2. /\ relay' \in BOOLEAN /\ tr_ok' \in BOOLEAN
          /\ cpc = "relayOn" => (tr_ok' => relay')
      <3>1. ASSUME NEW on \in BOOLEAN, MoveRelay(on)
            PROVE  /\ relay' \in {relay, on} /\ tr_ok' \in {tr_ok, FALSE}
                   /\ ~tr_ok' \/ relay' = on
        BY <3>1 DEF MoveRelay, IInv, Shape
      <3>2. relay \in BOOLEAN /\ tr_ok \in BOOLEAN
        BY DEF IInv, Shape
      <3>3. CASE cpc = "relayOn" /\ MoveRelay(TRUE)
        BY <3>1, <3>2, <3>3
      <3>4. CASE cpc = "relayOff" /\ MoveRelay(FALSE)
        BY <3>1, <3>2, <3>4
      <3>5. QED
        BY <2>1, <3>3, <3>4
    <2>3. QED
      BY <1>0, <2>1, <2>2 DEF IInv, Shape, FrontEndLine, TxGainLine,
                              RxGainLine, RelaysOn, Down, Up, gains
  <1>5. CASE CtrlPost
    <2>1. /\ UNCHANGED <<gains, switches>>
          /\ cpc \in {"post2", "post3"}
      BY <1>5 DEF CtrlPost, At
    <2>2. QED
      BY <1>0, <2>1 DEF IInv, Shape, FrontEndLine, TxGainLine, RxGainLine,
                        RelaysOn, Down, Up, gains, switches
  <1>6. QED
    BY <1>1, <1>2, <1>3, <1>4, <1>5

LEMMA StepKeeps ==
  ASSUME IInv, TxFeHasEnable, [Next]_vars
  PROVE  IInv'
  <1>1. CASE Ctrl
    BY <1>1, GainCommandsKeep, KeyingKeeps, OperationsKeep DEF Ctrl
  <1>2. CASE UNCHANGED <<ctrl, gains, switches>>
    BY <1>2 DEF IInv, Shape, FrontEndLine, TxGainLine, RxGainLine, RelaysOn,
                ctrl, gains, switches
  <1>3. QED
    BY <1>1, <1>2, OthersKeepHardware DEF Next

-----------------------------------------------------------------------------
\* USRPCtrl always knows how far it has got: the invariant holds of every
\* behaviour of a radio whose front end has an enable.
THEOREM SequenceInvariant ==
  ASSUME TxFeHasEnable
  PROVE  Spec => []IInv
  <1>1. Init => IInv
    BY InitHolds
  <1>2. IInv /\ [Next]_vars => IInv'
    BY StepKeeps
  <1>3. QED
    BY <1>1, <1>2, PTL DEF Spec

\* No power before the relays, whatever the operator and the threads do
\* (USRPCtrl::setTXEna).
THEOREM RelaysLead ==
  ASSUME TxFeHasEnable
  PROVE  Spec => []RelayLeadsPower
  <1>1. IInv => RelayLeadsPower
    BY DEF IInv, Shape, FrontEndLine, TxGainLine, RelayLeadsPower, Power, RelaysOn, Up
  <1>2. QED
    BY <1>1, SequenceInvariant, PTL

\* Half-duplex overs never open the receiver under power (TX_STATE and
\* RX_RF_GAIN of USRPCtrl::execSetCommand).
THEOREM ReceiverIsProtected ==
  ASSUME TxFeHasEnable
  PROVE  Spec => []RxGainProtected
  <1>1. IInv => RxGainProtected
    BY DEF IInv, Shape, FrontEndLine, TxGainLine, RxGainLine, RxGainProtected,
           Power, Down, Up
  <1>2. QED
    BY <1>1, SequenceInvariant, PTL

\* Gain commands are never lost and never take effect in the wrong direction.
THEOREM GainsAreTheOperators ==
  ASSUME TxFeHasEnable
  PROVE  Spec => []GainsFollowSwitch
  <1>1. IInv => GainsFollowSwitch
    BY DEF IInv, TxGainLine, RxGainLine, GainsFollowSwitch
  <1>2. QED
    BY <1>1, SequenceInvariant, PTL

\* No relay moves under power: those that move to transmit do so before the
\* front end is enabled, those that move back when the gain is gone.
THEOREM RelaysSwitchCold ==
  ASSUME TxFeHasEnable
  PROVE  Spec => NoHotSwitch
  <1>1. IInv /\ [Next]_vars => [<<gpio, relay>>' # <<gpio, relay>> => ~Power /\ ~Power']_vars
    <2> SUFFICES ASSUME IInv, Next, <<gpio, relay>>' # <<gpio, relay>>
                 PROVE  ~Power /\ ~Power'
      OBVIOUS
    <2>1. ~UNCHANGED switches
      BY DEF switches
    <2>2. CtrlGpio \/ CtrlRelay
      BY <2>1, OthersKeepHardware
         DEF Next, Ctrl, CtrlRxGain, CtrlTxGain, CtrlKeyDown, CtrlKeyUp,
             CtrlGains, CtrlFrontEnd, CtrlPost
    <2>3. UNCHANGED <<tx_gain, fe_enabled>>
      BY <2>2 DEF CtrlGpio, CtrlRelay, gains
    <2>4. ~(tx_gain > 0 /\ fe_enabled)
      <3>1. CASE cpc \in {"gpioOff", "relayOff"}
        BY <3>1 DEF IInv, TxGainLine, Up
      <3>2. CASE CtrlGpio /\ cpc = "gpioOn"
        BY <3>2 DEF CtrlGpio, At, IInv, Shape, FrontEndLine, RelaysOn
      <3>3. CASE CtrlRelay /\ cpc = "relayOn"
        BY <3>3 DEF CtrlRelay, At, MoveRelay, IInv, Shape, FrontEndLine, RelaysOn
      <3>4. QED
        BY <2>2, <3>1, <3>2, <3>3 DEF CtrlGpio, CtrlRelay, At
    <2>5. QED
      BY <2>3, <2>4 DEF Power
  <1>2. QED
    BY <1>1, SequenceInvariant, PTL DEF Spec, NoHotSwitch

-----------------------------------------------------------------------------
(* What an over leaves at rest, of an operator who waits for the radio.    *)

\* What s has yet to act on: what is queued for it, and what a put() that is
\* under way owes it.
InQueue(s) == {queue[s][i] : i \in 1 .. Len(queue[s])}
Owed(s)    == {m \in Messages : \E p \in Producers : <<s, m>> \in outbox[p]}
Waiting(s) == InQueue(s) \cup Owed(s)

\* A TX_STATE v waits for s.
Has(s, v) == \E m \in Waiting(s) : m.t = "TX_STATE" /\ m.v = v

MailOK == /\ queue \in [Listening -> Seq(Messages)]
          /\ outbox \in [Producers -> SUBSET (Listening \X Messages)]
          /\ cpc \in Down \cup Up \cup {"idle"}
          /\ cpc # "idle" => outbox["CTRL"] = {}

\* Every message is of the last command, and only who heeds it gets it.
Fits(s, m) ==
  /\ s \in Heeders(m)
  /\ m.t = "TX_STATE" => /\ ptt <=> m.v \in {1, 3}
                         /\ m.v = 1 => m.dx = dx
  /\ m.t = "TX_MODE" => m.cw = cw

MailFits == /\ \A s \in Listening : \A m \in Waiting(s) : Fits(s, m)
            /\ cpc \in Down => ptt
            /\ cpc \in Up => ~ptt

\* USRPCtrl's 3, or its 2, is still to come to s.
ToCome3(s) == Has("CTRL", 1) \/ cpc \in Down \/ Has(s, 3)
ToCome2(s) == Has("CTRL", 0) \/ cpc \in Up \/ Has(s, 2)

\* BaseBandRX is muted when it should be, or will be told.
Muted == ~audio_rx_stream_enabled \/ af_is_sidetone
BbrxDoes == /\ Muted => (ptt /\ ~dx) \/ (~ptt /\ ToCome2("BBRX"))
            /\ ptt /\ ~dx => Muted \/ Has("BBRX", 1)

ModeWaits == \E m \in Waiting("BBTX") : m.t = "TX_MODE"

\* BaseBandTX knows the mode unless it will be told, and then no over begins.
ModeKnown == /\ cw_tx_mode = cw \/ ModeWaits
             /\ ModeWaits => ~ToCome3("BBTX")
             /\ ToCome3("BBTX") => cw_tx_mode = over_cw

BbtxDoes == /\ ptt /\ tx_stream_on => ~over_cw
            /\ ptt /\ ~over_cw => tx_stream_on \/ ToCome3("BBTX")
            /\ ~ptt /\ tx_stream_on => Has("BBTX", 0)

CwtxDoes == ~ptt /\ cw_tx_on => Has("CWTX", 0)

TxDoes == /\ ptt => tx_enabled \/ ToCome3("TX")
          /\ ~ptt => ~tx_enabled \/ ToCome2("TX")

Flags == /\ {ptt, dx, cw, over_cw, cdx, tx_enabled, tx_stream_on, cw_tx_mode, cw_tx_on,
             audio_rx_stream_enabled, af_is_sidetone, sidetone} \subseteq BOOLEAN
         /\ n_ptt \in Nat

RestInv == MailOK /\ Flags /\ MailFits /\ BbrxDoes /\ ModeKnown /\ BbtxDoes
           /\ CwtxDoes /\ TxDoes

-----------------------------------------------------------------------------
\* The first of a queue, and the rest.
LEMMA HeadAndTail ==
  ASSUME NEW S, NEW q \in Seq(S), q # <<>>
  PROVE  /\ Head(q) \in S /\ Tail(q) \in Seq(S)
         /\ {q[i] : i \in 1 .. Len(q)}
              = {Head(q)} \cup {Tail(q)[i] : i \in 1 .. Len(Tail(q))}
  <1>1. /\ Len(q) \in Nat \ {0} /\ Len(Tail(q)) = Len(q) - 1
        /\ Head(q) = q[1]
        /\ \A i \in 1 .. Len(Tail(q)) : Tail(q)[i] = q[i + 1]
        /\ \A i \in 1 .. Len(q) : q[i] \in S
    OBVIOUS
  <1>2. ASSUME NEW i \in 1 .. Len(q)
        PROVE  q[i] \in {Head(q)} \cup {Tail(q)[j] : j \in 1 .. Len(Tail(q))}
    <2>1. CASE i = 1
      BY <1>1, <2>1
    <2>2. CASE i # 1
      <3>1. i - 1 \in 1 .. Len(Tail(q)) /\ Tail(q)[i - 1] = q[i]
        BY <1>1, <2>2
      <3>2. QED
        BY <3>1
    <2>3. QED
      BY <2>1, <2>2
  <1>3. ASSUME NEW j \in 1 .. Len(Tail(q))
        PROVE  Tail(q)[j] \in {q[i] : i \in 1 .. Len(q)}
    <2>1. j + 1 \in 1 .. Len(q) /\ Tail(q)[j] = q[j + 1]
      BY <1>1
    <2>2. QED
      BY <2>1
  <1>4. Head(q) \in {q[i] : i \in 1 .. Len(q)}
    BY <1>1
  <1>5. Tail(q) \in Seq(S)
    OBVIOUS
  <1>6. QED
    BY <1>1, <1>2, <1>3, <1>4, <1>5

LEMMA Appended ==
  ASSUME NEW S, NEW q \in Seq(S), NEW e \in S
  PROVE  /\ Append(q, e) \in Seq(S)
         /\ {Append(q, e)[i] : i \in 1 .. Len(Append(q, e))}
              = {q[i] : i \in 1 .. Len(q)} \cup {e}
  <1>1. /\ Len(q) \in Nat /\ Len(Append(q, e)) = Len(q) + 1
        /\ \A i \in 1 .. Len(q) : Append(q, e)[i] = q[i]
        /\ Append(q, e)[Len(q) + 1] = e
    OBVIOUS
  <1>2. QED
    BY <1>1

\* A thread that takes its first message has that one less, or another like it.
LEMMA Taking ==
  ASSUME MailOK, NEW r \in Listening, queue[r] # <<>>, Take(r)
  PROVE  /\ queue' \in [Listening -> Seq(Messages)]
         /\ Msg(r) \in Messages
         /\ InQueue(r) = {Msg(r)} \cup InQueue(r)'
         /\ \A s \in Listening \ {r} : InQueue(s)' = InQueue(s)
  <1>1. queue[r] \in Seq(Messages)
    BY DEF MailOK
  <1>2. /\ queue'[r] = Tail(queue[r])
        /\ \A s \in Listening \ {r} : queue'[s] = queue[s]
    BY DEF Take, MailOK
  <1>3. queue' \in [Listening -> Seq(Messages)]
    BY <1>1, HeadAndTail DEF Take, MailOK
  <1>4. /\ Msg(r) \in Messages
        /\ {queue[r][i] : i \in 1 .. Len(queue[r])}
             = {Msg(r)} \cup {Tail(queue[r])[i] : i \in 1 .. Len(Tail(queue[r]))}
    BY <1>1, HeadAndTail DEF Msg
  <1>5. InQueue(r) = {Msg(r)} \cup InQueue(r)'
    BY <1>2, <1>4 DEF InQueue
  <1>6. \A s \in Listening \ {r} : InQueue(s)' = InQueue(s)
    BY <1>2 DEF InQueue
  <1>7. QED
    BY <1>3, <1>4, <1>5, <1>6

\* A put() that begins owes its message to those who heed it.
LEMMA Posting ==
  ASSUME MailOK, NEW p \in Producers, NEW m \in Messages, outbox[p] = {}, Post(p, m)
  PROVE  /\ outbox' \in [Producers -> SUBSET (Listening \X Messages)]
         /\ \A s \in Listening :
              Owed(s)' = Owed(s) \cup (IF s \in Heeders(m) THEN {m} ELSE {})
         /\ p # "CTRL" => outbox'["CTRL"] = outbox["CTRL"]
  <1>1. /\ outbox' = [outbox EXCEPT ![p] = Route(m)]
        /\ outbox \in [Producers -> SUBSET (Listening \X Messages)]
    BY DEF Post, MailOK
  <1>2. Route(m) \in SUBSET (Listening \X Messages)
    BY DEF Route
  <1>3. /\ outbox' \in [Producers -> SUBSET (Listening \X Messages)]
        /\ outbox'[p] = Route(m)
        /\ \A q \in Producers \ {p} : outbox'[q] = outbox[q]
        /\ "CTRL" \in Producers
    BY <1>1, <1>2 DEF Producers
  <1>4. ASSUME NEW s \in Listening, NEW x \in Messages
        PROVE  <<s, x>> \in Route(m) <=> x = m /\ s \in Heeders(m)
    BY <1>4 DEF Route
  <1>5. ASSUME NEW s \in Listening, NEW x
        PROVE  x \in Owed(s)' <=> x \in Owed(s) \/ (x = m /\ s \in Heeders(m))
    BY <1>3, <1>4, <1>5 DEF Owed
  <1>6. QED
    BY <1>3, <1>5

\* A push moves a message from the one to the other.
LEMMA Pushing ==
  ASSUME MailOK, NEW p \in Producers, Push(p)
  PROVE  /\ MailOK'
         /\ \A s \in Listening : Waiting(s)' = Waiting(s)
  <1>1. PICK x \in outbox[p] :
             /\ queue' = [queue EXCEPT ![x[1]] = Append(@, x[2])]
             /\ outbox' = [outbox EXCEPT ![p] = @ \ {x}]
             /\ UNCHANGED cpc
    BY DEF Push, ctrl
  <1>2. PICK r \in Listening, m \in Messages : x = <<r, m>>
    BY <1>1 DEF MailOK
  <1>3. /\ queue' = [queue EXCEPT ![r] = Append(@, m)]
        /\ queue \in [Listening -> Seq(Messages)]
        /\ outbox \in [Producers -> SUBSET (Listening \X Messages)]
    BY <1>1, <1>2 DEF MailOK
  <1>4. /\ queue' \in [Listening -> Seq(Messages)]
        /\ InQueue(r)' = InQueue(r) \cup {m}
        /\ \A s \in Listening \ {r} : InQueue(s)' = InQueue(s)
    BY <1>3, Appended DEF InQueue
  <1>5. /\ outbox' \in [Producers -> SUBSET (Listening \X Messages)]
        /\ outbox'[p] = outbox[p] \ {<<r, m>>}
        /\ \A q \in Producers \ {p} : outbox'[q] = outbox[q]
        /\ "CTRL" \in Producers
    BY <1>1, <1>2, <1>3 DEF Producers
  <1>6. MailOK'
    BY <1>1, <1>4, <1>5 DEF MailOK
  <1>7. ASSUME NEW s \in Listening, NEW y
        PROVE  y \in Waiting(s)' <=> y \in Waiting(s)
    <2>1. <<r, m>> \in outbox[p]
      BY <1>1, <1>2
    <2>2. m \in Owed(r)
      BY <2>1 DEF Owed
    <2>3. CASE <<s, y>> = <<r, m>>
      BY <2>2, <2>3, <1>4 DEF Waiting
    <2>4. CASE <<s, y>> # <<r, m>>
      <3>1. y \in Owed(s)' <=> y \in Owed(s)
        BY <1>5, <2>4 DEF Owed
      <3>2. y \in InQueue(s)' <=> y \in InQueue(s)
        BY <1>4, <2>4
      <3>3. QED
        BY <3>1, <3>2 DEF Waiting
    <2>5. QED
      BY <2>3, <2>4
  <1>8. QED
    BY <1>6, <1>7

-----------------------------------------------------------------------------
\* Who heeds what (the cases of their execSetCommand and execRepCommand).
LEMMA WhoHeeds ==
  ASSUME NEW m \in Messages, NEW s \in Heeders(m)
  PROVE  /\ m.t = "TX_STATE" =>
              /\ s = "CTRL" => m.v \in {0, 1}
              /\ s \in {"RX", "TX"} => m.v \in {2, 3}
              /\ s = "BBRX" => m.v \in {1, 2}
              /\ s = "BBTX" => m.v \in {0, 3}
              /\ s # "UI"
         /\ m.t = "TX_MODE" => s \in {"BBRX", "BBTX"}
         /\ s \in {"RX", "TX", "CWTX"} => m.t = "TX_STATE"
         /\ s \in {"BBRX", "BBTX"} => m.t \in {"TX_STATE", "TX_MODE"}
  BY DEF Heeders, Messages

\* A thread takes a message: it is gone for that thread, all else still waits.
LEMMA Took ==
  ASSUME MailOK, NEW r \in Listening, queue[r] # <<>>, Take(r), UNCHANGED outbox
  PROVE  /\ queue' \in [Listening -> Seq(Messages)]
         /\ outbox' \in [Producers -> SUBSET (Listening \X Messages)]
         /\ Msg(r) \in Messages /\ Msg(r) \in Waiting(r)
         /\ \A s \in Listening : Waiting(s)' \subseteq Waiting(s)
         /\ \A s \in Listening : s # r => Waiting(s)' = Waiting(s)
         /\ \A x \in Waiting(r) : x = Msg(r) \/ x \in Waiting(r)'
  <1>1. \A s \in Listening : Owed(s)' = Owed(s)
    BY DEF Owed
  <1>2. QED
    BY <1>1, Taking DEF Waiting, MailOK

\* A thread, or the GUI through UI, posts m.
LEMMA Posted ==
  ASSUME MailOK, NEW p \in Producers, NEW m \in Messages, outbox[p] = {}, Post(p, m),
         UNCHANGED queue
  PROVE  /\ queue' \in [Listening -> Seq(Messages)]
         /\ outbox' \in [Producers -> SUBSET (Listening \X Messages)]
         /\ \A s \in Listening :
              Waiting(s)' = Waiting(s) \cup (IF s \in Heeders(m) THEN {m} ELSE {})
         /\ p # "CTRL" => outbox'["CTRL"] = outbox["CTRL"]
  <1>1. \A s \in Listening : InQueue(s)' = InQueue(s)
    BY DEF InQueue
  <1>2. QED
    BY <1>1, Posting DEF Waiting, MailOK

\* A thread answers what it takes.
LEMMA Answered ==
  ASSUME MailOK, NEW r \in Listening, r \in Producers, r # "CTRL", Ready(r), Take(r),
         NEW m \in Messages, Post(r, m)
  PROVE  /\ queue' \in [Listening -> Seq(Messages)]
         /\ outbox' \in [Producers -> SUBSET (Listening \X Messages)]
         /\ Msg(r) \in Messages /\ Msg(r) \in Waiting(r)
         /\ \A s \in Listening : \A x \in Waiting(s)' :
               x \in Waiting(s) \/ (x = m /\ s \in Heeders(m))
         /\ \A s \in Listening : \A x \in Waiting(s) :
               x \in Waiting(s)' \/ (s = r /\ x = Msg(r))
         /\ outbox'["CTRL"] = outbox["CTRL"]
  <1>1. outbox[r] = {} /\ queue[r] # <<>>
    BY DEF Ready
  <1>2. QED
    BY <1>1, Taking, Posting DEF Waiting

-----------------------------------------------------------------------------
\* Those the invariant is about listen.
LEMMA AllListen == {"CTRL", "RX", "TX", "BBRX", "BBTX", "CWTX", "UI"} \subseteq Listening
  BY TRAssumption, VoiceAssumption DEF TRAssumption, VoiceAssumption

\* A step that takes nothing away from what is to come to whom, and brings no
\* over or mode to BaseBandTX that was not to come.
Told == /\ ToCome2("BBRX") => ToCome2("BBRX")'
        /\ ToCome2("TX") => ToCome2("TX")'
        /\ ToCome3("TX") => ToCome3("TX")'
        /\ ToCome3("BBTX") <=> ToCome3("BBTX")'
        /\ Has("BBRX", 1) => Has("BBRX", 1)'
        /\ Has("BBTX", 0) => Has("BBTX", 0)'
        /\ Has("CWTX", 0) => Has("CWTX", 0)'
        /\ ModeWaits <=> ModeWaits'

\* Such a step, if the baseband threads, USRPTX and the GUI do nothing in it.
LEMMA ToldKeeps ==
  ASSUME RestInv, Told, UNCHANGED <<tx_enabled, bbrx, bbtx, cw_tx_on, gui>>
  PROVE  BbrxDoes' /\ ModeKnown' /\ BbtxDoes' /\ CwtxDoes' /\ TxDoes'
  <1>1. UNCHANGED <<ptt, dx, cw, over_cw, tx_enabled, audio_rx_stream_enabled,
                    af_is_sidetone, tx_stream_on, cw_tx_mode, cw_tx_on>>
    BY DEF bbrx, bbtx, gui
  <1>2. BbrxDoes'
    BY <1>1 DEF RestInv, BbrxDoes, Told, Muted
  <1>3. ModeKnown'
    BY <1>1 DEF RestInv, ModeKnown, Told
  <1>4. BbtxDoes'
    BY <1>1 DEF RestInv, BbtxDoes, Told
  <1>5. CwtxDoes'
    BY <1>1 DEF RestInv, CwtxDoes, Told
  <1>6. TxDoes'
    BY <1>1 DEF RestInv, TxDoes, Told
  <1>7. QED
    BY <1>2, <1>3, <1>4, <1>5, <1>6

\* If the same waits as before, nobody is told anything new.
LEMMA SameMail ==
  ASSUME UNCHANGED cpc,
         \A s \in {"CTRL", "TX", "BBRX", "BBTX", "CWTX"} : Waiting(s)' = Waiting(s)
  PROVE  Told
  <1>1. \A s \in {"CTRL", "TX", "BBRX", "BBTX", "CWTX"} :
          \A v \in 0 .. 4 : Has(s, v)' <=> Has(s, v)
    BY DEF Has
  <1>2. ModeWaits' <=> ModeWaits
    BY DEF ModeWaits
  <1>3. QED
    BY <1>1, <1>2 DEF Told, ToCome2, ToCome3

\* put()'s loop.
LEMMA PushRests ==
  ASSUME RestInv, NEW p \in Producers, Push(p)
  PROVE  RestInv'
  <1>1. MailOK' /\ \A s \in Listening : Waiting(s)' = Waiting(s)
    BY Pushing DEF RestInv
  <1>2. UNCHANGED <<cpc, cdx, tx_enabled, bbrx, bbtx, cw_tx_on, gui>>
    BY DEF Push, ctrl, baseband
  <1>3. Told
    BY <1>1, <1>2, SameMail, AllListen
  <1>4. Flags' /\ MailFits'
    BY <1>1, <1>2 DEF RestInv, Flags, MailFits, Fits, gui, bbrx, bbtx
  <1>5. QED
    BY <1>1, <1>2, <1>3, <1>4, ToldKeeps DEF RestInv

\* UI tells the GUI.
LEMMA LabelRests ==
  ASSUME RestInv, Label
  PROVE  RestInv'
  <1>1. /\ queue["UI"] # <<>> /\ Take("UI")
        /\ UNCHANGED <<outbox, cpc, cdx, tx_enabled, bbrx, bbtx, cw_tx_on, ptt, dx, cw,
                       over_cw, n_ptt>>
    BY DEF Label, Ready, ctrl, baseband
  <1>2. /\ queue' \in [Listening -> Seq(Messages)]
        /\ outbox' \in [Producers -> SUBSET (Listening \X Messages)]
        /\ \A s \in Listening : Waiting(s)' \subseteq Waiting(s)
        /\ \A s \in Listening \ {"UI"} : Waiting(s)' = Waiting(s)
    BY <1>1, Took, AllListen DEF RestInv
  <1>3. MailOK'
    BY <1>1, <1>2 DEF RestInv, MailOK
  <1>4. Told
    BY <1>1, <1>2, SameMail, AllListen
  <1>5. Flags' /\ MailFits'
    BY <1>1, <1>2 DEF RestInv, Flags, MailFits, Fits, bbrx, bbtx
  <1>6. BbrxDoes'
    BY <1>1, <1>4 DEF RestInv, BbrxDoes, Told, Muted, bbrx
  <1>7. ModeKnown' /\ BbtxDoes' /\ CwtxDoes' /\ TxDoes'
    BY <1>1, <1>4 DEF RestInv, ModeKnown, BbtxDoes, CwtxDoes, TxDoes, Told, bbtx
  <1>8. QED
    BY <1>3, <1>5, <1>6, <1>7 DEF RestInv

\* USRPRX answers 2 with 4.
LEMMA RxRests ==
  ASSUME RestInv, RxHandles
  PROVE  RestInv'
  <1>1. /\ Ready("RX") /\ Take("RX")
        /\ UNCHANGED outbox \/ Post("RX", State(4, FALSE))
        /\ Msg("RX").v = 3 => UNCHANGED outbox
        /\ UNCHANGED <<cpc, cdx, tx_enabled, bbrx, bbtx, cw_tx_on, gui>>
    BY DEF RxHandles, ctrl
  <1>2. State(4, FALSE) \in Messages /\ Heeders(State(4, FALSE)) = {"CWTX"}
    BY DEF State, Messages, Heeders
  <1>3. /\ queue' \in [Listening -> Seq(Messages)]
        /\ outbox' \in [Producers -> SUBSET (Listening \X Messages)]
        /\ Msg("RX") \in Messages /\ Msg("RX") \in Waiting("RX")
        /\ \A s \in Listening : \A x \in Waiting(s)' :
              x \in Waiting(s) \/ (Msg("RX").v # 3 /\ x = State(4, FALSE) /\ s = "CWTX")
        /\ \A s \in Listening : \A x \in Waiting(s) : s # "RX" => x \in Waiting(s)'
        /\ outbox'["CTRL"] = outbox["CTRL"]
    <2>1. CASE UNCHANGED outbox
      BY <1>1, <2>1, Took, AllListen DEF RestInv, Ready
    <2>2. CASE Post("RX", State(4, FALSE)) /\ Msg("RX").v # 3
      <3>1. "RX" \in Listening /\ "RX" \in Producers /\ MailOK
        BY AllListen DEF RestInv, Producers
      <3>2. /\ queue' \in [Listening -> Seq(Messages)]
            /\ outbox' \in [Producers -> SUBSET (Listening \X Messages)]
            /\ Msg("RX") \in Messages /\ Msg("RX") \in Waiting("RX")
            /\ \A s \in Listening : \A x \in Waiting(s)' :
                  x \in Waiting(s)
                    \/ (x = State(4, FALSE) /\ s \in Heeders(State(4, FALSE)))
            /\ \A s \in Listening : \A x \in Waiting(s) :
                  x \in Waiting(s)' \/ (s = "RX" /\ x = Msg("RX"))
            /\ outbox'["CTRL"] = outbox["CTRL"]
        BY <1>1, <1>2, <2>2, <3>1, Answered
      <3>3. QED
        BY <1>2, <2>2, <3>2
    <2>3. QED
      BY <1>1, <2>1, <2>2
  <1>4. Msg("RX").v # 3 => ~ptt
    <2>1. Fits("RX", Msg("RX"))
      BY <1>3, AllListen DEF RestInv, MailFits
    <2>2. Msg("RX").t = "TX_STATE" /\ Msg("RX").v \in {2, 3}
      BY <1>3, <2>1, WhoHeeds DEF Fits
    <2>3. QED
      BY <2>1, <2>2 DEF Fits
  <1>5. MailOK'
    BY <1>1, <1>3 DEF RestInv, MailOK
  <1>6. MailFits'
    <2>1. UNCHANGED <<ptt, dx, cw, cpc>>
      BY <1>1 DEF gui
    <2>2. ASSUME NEW s \in Listening, NEW x \in Waiting(s)' PROVE Fits(s, x)'
      <3>1. CASE x \in Waiting(s)
        BY <2>1, <3>1 DEF RestInv, MailFits, Fits
      <3>2. CASE x \notin Waiting(s)
        <4>1. Msg("RX").v # 3 /\ x = State(4, FALSE) /\ s = "CWTX"
          BY <1>3, <2>2, <3>2
        <4>2. ~ptt'
          BY <1>4, <2>1, <4>1
        <4>3. x.t = "TX_STATE" /\ x.v = 4 /\ s \in Heeders(x)
          BY <1>2, <4>1 DEF State
        <4>4. QED
          BY <4>2, <4>3 DEF Fits
      <3>3. QED
        BY <3>1, <3>2
    <2>3. QED
      BY <2>1, <2>2 DEF RestInv, MailFits
  <1>7. Told
    <2>1. ASSUME NEW s \in {"CTRL", "TX", "BBRX", "BBTX"}
          PROVE  Waiting(s)' = Waiting(s)
      <3>1. s \in Listening /\ s # "RX" /\ s # "CWTX"
        BY AllListen
      <3>2. QED
        BY <1>3, <3>1
    <2>2. \A s \in {"CTRL", "TX", "BBRX", "BBTX"} :
            \A v \in 0 .. 4 : Has(s, v)' <=> Has(s, v)
      BY <2>1 DEF Has
    <2>3. ModeWaits' <=> ModeWaits
      BY <2>1 DEF ModeWaits
    <2>4. Has("CWTX", 0) => Has("CWTX", 0)'
      BY <1>3, AllListen DEF Has
    <2>5. QED
      BY <1>1, <2>2, <2>3, <2>4 DEF Told, ToCome2, ToCome3
  <1>8. Flags'
    BY <1>1 DEF RestInv, Flags, gui, bbrx, bbtx
  <1>9. QED
    BY <1>1, <1>5, <1>6, <1>7, <1>8, ToldKeeps DEF RestInv

\* USRPTX switches and reports.
LEMMA TxRests ==
  ASSUME RestInv, TxHandles
  PROVE  RestInv'
  <1>1. /\ Ready("TX") /\ Take("TX")
        /\ tx_enabled' = (Msg("TX").v = 3)
        /\ Post("TX", Report(tx_enabled'))
        /\ UNCHANGED <<cpc, cdx, bbrx, bbtx, cw_tx_on, gui>>
    BY DEF TxHandles, ctrl
  <1>2. /\ Report(tx_enabled') \in Messages
        /\ Heeders(Report(tx_enabled')) = {"UI"}
        /\ Report(tx_enabled').t = "REP"
    BY <1>1 DEF Report, Messages, Heeders
  <1>3. /\ queue' \in [Listening -> Seq(Messages)]
        /\ outbox' \in [Producers -> SUBSET (Listening \X Messages)]
        /\ Msg("TX") \in Messages /\ Msg("TX") \in Waiting("TX")
        /\ \A s \in Listening : \A x \in Waiting(s)' :
              x \in Waiting(s) \/ (x.t = "REP" /\ s = "UI" /\ s \in Heeders(x))
        /\ \A s \in Listening : \A x \in Waiting(s) :
              x \in Waiting(s)' \/ (s = "TX" /\ x = Msg("TX"))
        /\ outbox'["CTRL"] = outbox["CTRL"]
    <2>1. "TX" \in Listening /\ "TX" \in Producers /\ MailOK
      BY AllListen DEF RestInv, Producers
    <2>2. /\ queue' \in [Listening -> Seq(Messages)]
          /\ outbox' \in [Producers -> SUBSET (Listening \X Messages)]
          /\ Msg("TX") \in Messages /\ Msg("TX") \in Waiting("TX")
          /\ \A s \in Listening : \A x \in Waiting(s)' :
                x \in Waiting(s)
                  \/ (x = Report(tx_enabled') /\ s \in Heeders(Report(tx_enabled')))
          /\ \A s \in Listening : \A x \in Waiting(s) :
                x \in Waiting(s)' \/ (s = "TX" /\ x = Msg("TX"))
          /\ outbox'["CTRL"] = outbox["CTRL"]
      BY <1>1, <1>2, <2>1, Answered
    <2>3. QED
      BY <1>2, <2>2
  <1>4. /\ Msg("TX").t = "TX_STATE" /\ Msg("TX").v \in {2, 3}
        /\ Msg("TX").v = 3 <=> ptt
    <2>1. Fits("TX", Msg("TX"))
      BY <1>3, AllListen DEF RestInv, MailFits
    <2>2. Msg("TX").t = "TX_STATE" /\ Msg("TX").v \in {2, 3}
      BY <1>3, <2>1, WhoHeeds DEF Fits
    <2>3. QED
      BY <2>1, <2>2 DEF Fits
  <1>5. MailOK'
    BY <1>1, <1>3 DEF RestInv, MailOK
  <1>6. UNCHANGED <<ptt, dx, cw, over_cw, n_ptt, cpc, cdx, bbrx, bbtx, cw_tx_on>>
    BY <1>1 DEF gui
  <1>7. MailFits'
    <2>1. ASSUME NEW s \in Listening, NEW x \in Waiting(s)' PROVE Fits(s, x)'
      <3>1. CASE x \in Waiting(s)
        BY <1>6, <3>1 DEF RestInv, MailFits, Fits
      <3>2. CASE x \notin Waiting(s)
        BY <1>3, <2>1, <3>2 DEF Fits
      <3>3. QED
        BY <3>1, <3>2
    <2>2. QED
      BY <1>6, <2>1 DEF RestInv, MailFits
  <1>8. Flags'
    BY <1>1, <1>6 DEF RestInv, Flags, bbrx, bbtx
  <1>9. /\ \A s \in {"CTRL", "BBRX", "BBTX", "CWTX"} :
              \A v \in 0 .. 4 : Has(s, v)' <=> Has(s, v)
        /\ ModeWaits' <=> ModeWaits
    <2>1. ASSUME NEW s \in {"CTRL", "BBRX", "BBTX", "CWTX"}
          PROVE  Waiting(s)' = Waiting(s)
      <3>1. s \in Listening /\ s # "TX" /\ s # "UI"
        BY AllListen
      <3>2. QED
        BY <1>3, <3>1
    <2>2. QED
      BY <2>1 DEF Has, ModeWaits
  <1>10. TxDoes'
    BY <1>1, <1>4, <1>6 DEF TxDoes
  <1>11. BbrxDoes'
    BY <1>6, <1>9 DEF RestInv, BbrxDoes, Muted, ToCome2, bbrx
  <1>12. ModeKnown' /\ BbtxDoes' /\ CwtxDoes'
    BY <1>6, <1>9 DEF RestInv, ModeKnown, BbtxDoes, CwtxDoes, ToCome3, bbtx
  <1>13. QED
    BY <1>5, <1>7, <1>8, <1>10, <1>11, <1>12 DEF RestInv

\* A baseband thread takes a command: what is common to the three.
LEMMA BasebandTook ==
  ASSUME RestInv, NEW r \in {"BBRX", "BBTX", "CWTX"}, queue[r] # <<>>, Take(r),
         UNCHANGED <<outbox, cpc, cdx, tx_enabled, gui>>
  PROVE  /\ MailOK' /\ MailFits'
         /\ Msg(r) \in Messages /\ Fits(r, Msg(r)) /\ Msg(r) \in Waiting(r)
         /\ \A s \in Listening : s # r => Waiting(s)' = Waiting(s)
         /\ \A x \in Waiting(r) : x = Msg(r) \/ x \in Waiting(r)'
         /\ Waiting(r)' \subseteq Waiting(r)
         /\ \A s \in {"CTRL", "TX", "BBRX", "BBTX", "CWTX"} : s # r =>
              \A v \in 0 .. 4 : Has(s, v)' <=> Has(s, v)
         /\ r # "BBTX" => (ModeWaits' <=> ModeWaits)
  <1>1. r \in Listening /\ MailOK
    BY AllListen DEF RestInv
  <1>2. /\ queue' \in [Listening -> Seq(Messages)]
        /\ outbox' \in [Producers -> SUBSET (Listening \X Messages)]
        /\ Msg(r) \in Messages /\ Msg(r) \in Waiting(r)
        /\ \A s \in Listening : Waiting(s)' \subseteq Waiting(s)
        /\ \A s \in Listening : s # r => Waiting(s)' = Waiting(s)
        /\ \A x \in Waiting(r) : x = Msg(r) \/ x \in Waiting(r)'
    BY <1>1, Took
  <1>3. MailOK'
    BY <1>1, <1>2 DEF MailOK
  <1>4. MailFits'
    BY <1>2 DEF RestInv, MailFits, Fits, gui
  <1>5. Fits(r, Msg(r))
    BY <1>1, <1>2 DEF RestInv, MailFits
  <1>6. \A s \in {"CTRL", "TX", "BBRX", "BBTX", "CWTX"} : s # r => Waiting(s)' = Waiting(s)
    BY <1>2, AllListen
  <1>7. QED
    BY <1>1, <1>2, <1>3, <1>4, <1>5, <1>6 DEF Has, ModeWaits

\* BaseBandRX.
LEMMA BbrxRests ==
  ASSUME RestInv, BbrxHandles
  PROVE  RestInv'
  <1> DEFINE m == Msg("BBRX")
  <1>1. /\ queue["BBRX"] # <<>> /\ Take("BBRX")
        /\ \/ /\ m.t = "TX_MODE" /\ sidetone' = m.cw
              /\ UNCHANGED <<audio_rx_stream_enabled, af_is_sidetone>>
           \/ /\ m.t = "TX_STATE" /\ m.v = 1 /\ BbrxMute(m.dx) /\ UNCHANGED sidetone
           \/ /\ m.t = "TX_STATE" /\ m.v = 2
              /\ audio_rx_stream_enabled' = TRUE /\ af_is_sidetone' = FALSE
              /\ UNCHANGED sidetone
        /\ UNCHANGED <<outbox, cpc, cdx, tx_enabled, gui, bbtx, cw_tx_on>>
    BY DEF BbrxHandles, BbrxListen, Ready, ctrl
  <1>2. /\ MailOK' /\ MailFits'
        /\ m \in Messages /\ Fits("BBRX", m)
        /\ \A x \in Waiting("BBRX") : x = m \/ x \in Waiting("BBRX")'
        /\ \A s \in {"CTRL", "TX", "BBTX", "CWTX"} :
              \A v \in 0 .. 4 : Has(s, v)' <=> Has(s, v)
        /\ ModeWaits' <=> ModeWaits
    BY <1>1, BasebandTook
  <1>3. UNCHANGED <<ptt, dx, cw, over_cw, n_ptt, cpc, cdx, bbtx, cw_tx_on, tx_enabled>>
    BY <1>1 DEF gui
  <1>4. ModeKnown' /\ BbtxDoes' /\ CwtxDoes' /\ TxDoes'
    BY <1>2, <1>3 DEF RestInv, ModeKnown, BbtxDoes, CwtxDoes, TxDoes, ToCome2, ToCome3, bbtx
  <1>5. /\ m.t = "TX_MODE" => m.cw \in BOOLEAN
        /\ m.t = "TX_STATE" => m.dx \in BOOLEAN
    BY <1>2 DEF Messages
  <1>6. Flags'
    BY <1>1, <1>3, <1>5 DEF RestInv, Flags, bbtx, BbrxMute
  <1>7. BbrxDoes'
    <2>1. CASE m.t = "TX_MODE"
      <3>1. UNCHANGED Muted
        BY <1>1, <2>1 DEF Muted
      <3>2. \A v \in 0 .. 4 : Has("BBRX", v) => Has("BBRX", v)'
        BY <1>2, <2>1 DEF Has
      <3>3. QED
        BY <1>2, <1>3, <3>1, <3>2 DEF RestInv, BbrxDoes, ToCome2
    <2>2. CASE m.t = "TX_STATE" /\ m.v = 1
      <3>1. ptt /\ m.dx = dx
        BY <1>2, <2>2 DEF Fits
      <3>2. Muted' <=> Muted \/ ~dx
        BY <1>1, <2>2, <3>1 DEF RestInv, Flags, BbrxMute, Muted
      <3>3. QED
        BY <1>3, <3>1, <3>2 DEF RestInv, BbrxDoes
    <2>3. CASE m.t = "TX_STATE" /\ m.v = 2
      <3>1. ~ptt /\ ~Muted'
        BY <1>1, <1>2, <2>3 DEF Fits, Muted
      <3>2. QED
        BY <1>3, <3>1 DEF BbrxDoes
    <2>4. QED
      BY <1>1, <2>1, <2>2, <2>3
  <1>8. QED
    BY <1>2, <1>4, <1>6, <1>7 DEF RestInv

\* BaseBandTX.
LEMMA BbtxRests ==
  ASSUME RestInv, BbtxHandles
  PROVE  RestInv'
  <1> DEFINE m == Msg("BBTX")
  <1>1. /\ queue["BBTX"] # <<>> /\ Take("BBTX")
        /\ m.t = "TX_MODE" => cw_tx_mode' = m.cw /\ UNCHANGED tx_stream_on
        /\ m.t # "TX_MODE" =>
             /\ tx_stream_on' = (m.v = 3 /\ (tx_stream_on \/ ~cw_tx_mode))
             /\ UNCHANGED cw_tx_mode
        /\ UNCHANGED <<outbox, cpc, cdx, tx_enabled, gui, bbrx, cw_tx_on>>
    BY DEF BbtxHandles, BbtxOn, Ready, ctrl
  <1>2. /\ MailOK' /\ MailFits'
        /\ m \in Messages /\ Fits("BBTX", m) /\ m \in Waiting("BBTX")
        /\ \A x \in Waiting("BBTX") : x = m \/ x \in Waiting("BBTX")'
        /\ Waiting("BBTX")' \subseteq Waiting("BBTX")
        /\ \A s \in {"CTRL", "TX", "BBRX", "CWTX"} :
              \A v \in 0 .. 4 : Has(s, v)' <=> Has(s, v)
    BY <1>1, BasebandTook
  <1>3. UNCHANGED <<ptt, dx, cw, over_cw, n_ptt, cpc, cdx, bbrx, cw_tx_on, tx_enabled>>
    BY <1>1 DEF gui
  <1>4. BbrxDoes' /\ CwtxDoes' /\ TxDoes'
    BY <1>2, <1>3 DEF RestInv, BbrxDoes, CwtxDoes, TxDoes, ToCome2, ToCome3, bbrx, Muted
  <1>5. m.t = "TX_MODE" => m.cw \in BOOLEAN
    BY <1>2 DEF Messages
  <1>6. Flags'
    BY <1>1, <1>3, <1>5 DEF RestInv, Flags, bbrx
  <1>7. /\ \A v \in 0 .. 4 : Has("BBTX", v)' => Has("BBTX", v)
        /\ ModeWaits' => ModeWaits
        /\ ToCome3("BBTX")' => ToCome3("BBTX")
    BY <1>2, <1>3 DEF Has, ModeWaits, ToCome3
  <1>8. CASE m.t = "TX_MODE"
    <2>1. ModeWaits /\ ~ToCome3("BBTX") /\ m.cw = cw
      BY <1>2, <1>8 DEF ModeWaits, RestInv, ModeKnown, Fits
    <2>2. Has("BBTX", 0) => Has("BBTX", 0)'
      BY <1>2, <1>8 DEF Has
    <2>3. QED
      BY <1>1, <1>2, <1>3, <1>4, <1>6, <1>7, <1>8, <2>1, <2>2
         DEF RestInv, ModeKnown, BbtxDoes
  <1>9. CASE m.t # "TX_MODE"
    <2>1. m.t = "TX_STATE" /\ m.v \in {0, 3} /\ (m.v = 3 <=> ptt)
      <3>1. m.t = "TX_STATE" /\ m.v \in {0, 3}
        BY <1>2, <1>9, WhoHeeds DEF Fits
      <3>2. QED
        BY <1>2, <3>1 DEF Fits
    <2>2. ModeWaits => ModeWaits'
      BY <1>2, <1>9 DEF ModeWaits
    <2>3. m.v = 3 => ToCome3("BBTX")
      BY <1>2, <2>1 DEF ToCome3, Has
    <2>4. ModeKnown'
      BY <1>1, <1>3, <1>7, <1>9, <2>2 DEF RestInv, ModeKnown
    <2>5. CASE ptt
      <3>1. cw_tx_mode = over_cw
        BY <2>1, <2>3, <2>5 DEF RestInv, ModeKnown
      <3>2. tx_stream_on' <=> ~over_cw
        BY <1>1, <1>9, <2>1, <2>5, <3>1 DEF RestInv, Flags, BbtxDoes
      <3>3. QED
        BY <1>2, <1>3, <1>4, <1>6, <2>4, <2>5, <3>2 DEF RestInv, BbtxDoes
    <2>6. CASE ~ptt
      <3>1. tx_stream_on' = FALSE
        BY <1>1, <1>9, <2>1, <2>6
      <3>2. QED
        BY <1>2, <1>3, <1>4, <1>6, <2>4, <2>6, <3>1 DEF RestInv, BbtxDoes
    <2>7. QED
      BY <2>5, <2>6
  <1>10. QED
    BY <1>8, <1>9

\* CWTX.
LEMMA CwtxRests ==
  ASSUME RestInv, CwtxHandles
  PROVE  RestInv'
  <1> DEFINE m == Msg("CWTX")
  <1>1. /\ queue["CWTX"] # <<>> /\ Take("CWTX")
        /\ cw_tx_on' = (m.v = 3)
        /\ UNCHANGED <<outbox, cpc, cdx, tx_enabled, gui, bbrx, bbtx>>
    BY DEF CwtxHandles, CwtxOn, Ready, ctrl
  <1>2. /\ MailOK' /\ MailFits'
        /\ m \in Messages /\ Fits("CWTX", m)
        /\ \A s \in {"CTRL", "TX", "BBRX", "BBTX"} :
              \A v \in 0 .. 4 : Has(s, v)' <=> Has(s, v)
        /\ ModeWaits' <=> ModeWaits
    BY <1>1, BasebandTook
  <1>3. UNCHANGED <<ptt, dx, cw, over_cw, n_ptt, cpc, cdx, bbrx, bbtx, tx_enabled>>
    BY <1>1 DEF gui
  <1>4. BbrxDoes' /\ TxDoes'
    BY <1>2, <1>3 DEF RestInv, BbrxDoes, TxDoes, ToCome2, ToCome3, bbrx, Muted
  <1>5. ModeKnown' /\ BbtxDoes'
    BY <1>2, <1>3 DEF RestInv, ModeKnown, BbtxDoes, ToCome3, bbtx
  <1>6. m.t = "TX_STATE" /\ (m.v = 3 => ptt)
    <2>1. m.t = "TX_STATE"
      BY <1>2, WhoHeeds DEF Fits
    <2>2. QED
      BY <1>2, <2>1 DEF Fits
  <1>7. CwtxDoes'
    BY <1>1, <1>3, <1>6 DEF CwtxDoes
  <1>8. Flags'
    BY <1>1, <1>3 DEF RestInv, Flags, bbrx, bbtx
  <1>9. QED
    BY <1>2, <1>4, <1>5, <1>7, <1>8 DEF RestInv

\* USRPCtrl takes a command, to move knobs or to begin a sequence.
LEMMA CtrlTakesRests ==
  ASSUME RestInv, CtrlRxGain \/ CtrlTxGain \/ CtrlKeyDown \/ CtrlKeyUp
  PROVE  RestInv'
  <1> DEFINE m == Msg("CTRL")
  <1>1. /\ Ready("CTRL") /\ Take("CTRL") /\ cpc = "idle"
        /\ \/ m.t # "TX_STATE" /\ cpc' = "idle" /\ UNCHANGED cdx
           \/ m.t = "TX_STATE" /\ m.v = 1 /\ cpc' \in Down /\ cdx' = m.dx
           \/ m.t = "TX_STATE" /\ m.v = 0 /\ cpc' \in Up /\ UNCHANGED cdx
        /\ UNCHANGED <<outbox, tx_enabled, bbrx, bbtx, cw_tx_on, gui>>
    BY DEF CtrlRxGain, CtrlTxGain, CtrlKeyDown, CtrlKeyUp, CtrlReady, FirstDown, FirstUp,
           Down, Up, baseband
  <1>2. "CTRL" \in Listening /\ queue["CTRL"] # <<>> /\ outbox["CTRL"] = {} /\ MailOK
    BY <1>1, AllListen DEF Ready, Producers, RestInv
  <1>3. /\ queue' \in [Listening -> Seq(Messages)]
        /\ outbox' \in [Producers -> SUBSET (Listening \X Messages)]
        /\ m \in Messages /\ m \in Waiting("CTRL")
        /\ \A s \in Listening : Waiting(s)' \subseteq Waiting(s)
        /\ \A s \in Listening : s # "CTRL" => Waiting(s)' = Waiting(s)
        /\ \A x \in Waiting("CTRL") : x = m \/ x \in Waiting("CTRL")'
    BY <1>1, <1>2, Took
  <1>4. Fits("CTRL", m)
    BY <1>2, <1>3 DEF RestInv, MailFits
  <1>5. cpc' \in Down \cup Up \cup {"idle"}
    BY <1>1
  <1>6. MailOK'
    BY <1>1, <1>2, <1>3, <1>5 DEF MailOK
  <1>7. UNCHANGED <<ptt, dx, cw, over_cw, n_ptt>>
    BY <1>1 DEF gui
  <1>8. "idle" \notin Down /\ "idle" \notin Up /\ Down \cap Up = {}
    BY DEF Down, Up
  <1>9. MailFits'
    <2>1. \A s \in Listening : \A x \in Waiting(s)' : Fits(s, x)'
      BY <1>3, <1>7 DEF RestInv, MailFits, Fits
    <2>2. (cpc' \in Down => ptt) /\ (cpc' \in Up => ~ptt)
      BY <1>1, <1>4, <1>8 DEF Fits
    <2>3. QED
      BY <1>7, <2>1, <2>2 DEF MailFits
  <1>10. m.t = "TX_STATE" => m.dx \in BOOLEAN
    BY <1>3 DEF Messages
  <1>11. Flags'
    BY <1>1, <1>10 DEF RestInv, Flags, gui, bbrx, bbtx
  <1>12. Told
    <2>1. ASSUME NEW s \in {"TX", "BBRX", "BBTX", "CWTX"}
          PROVE  \A v \in 0 .. 4 : Has(s, v)' <=> Has(s, v)
      <3>1. Waiting(s)' = Waiting(s)
        BY <1>3, AllListen
      <3>2. QED
        BY <3>1 DEF Has
    <2>2. ModeWaits' <=> ModeWaits
      <3>1. Waiting("BBTX")' = Waiting("BBTX")
        BY <1>3, AllListen
      <3>2. QED
        BY <3>1 DEF ModeWaits
    <2>3. /\ \A v \in 0 .. 4 : Has("CTRL", v)' => Has("CTRL", v)
          /\ Has("CTRL", 1) => Has("CTRL", 1)' \/ cpc' \in Down
          /\ Has("CTRL", 0) => Has("CTRL", 0)' \/ cpc' \in Up
          /\ cpc' \in Down => Has("CTRL", 1)
      BY <1>1, <1>2, <1>3, <1>8 DEF Has
    <2>4. QED
      BY <1>1, <1>8, <2>1, <2>2, <2>3 DEF Told, ToCome2, ToCome3
  <1>13. QED
    BY <1>1, <1>6, <1>9, <1>11, <1>12, ToldKeeps DEF RestInv

\* One of its operations on the hardware.
LEMMA CtrlMovesRests ==
  ASSUME RestInv, CtrlGains \/ CtrlGpio \/ CtrlFrontEnd \/ CtrlRelay
  PROVE  RestInv'
  <1>1. /\ cpc' = Then[cpc] /\ cpc \notin {"idle", "post3", "post2"}
        /\ UNCHANGED <<queue, outbox, cdx, tx_enabled, bbrx, bbtx, cw_tx_on, gui>>
    BY DEF CtrlGains, CtrlGpio, CtrlFrontEnd, CtrlRelay, At, baseband
  <1>2. /\ cpc \in Down => cpc' \in Down /\ cpc' \notin Up
        /\ cpc \in Up => cpc' \in Up /\ cpc' \notin Down
        /\ cpc \in Down \cup Up
    BY <1>1, ThenIs DEF Down, Up, RestInv, MailOK
  <1>3. \A s \in Listening : Waiting(s)' = Waiting(s)
    BY <1>1 DEF Waiting, InQueue, Owed
  <1>4. MailOK'
    BY <1>1, <1>2 DEF RestInv, MailOK, Down, Up
  <1>5. Flags' /\ MailFits'
    BY <1>1, <1>2, <1>3 DEF RestInv, Flags, MailFits, Fits, gui, bbrx, bbtx
  <1>6. Told
    <2>1. /\ \A s \in {"CTRL", "TX", "BBRX", "BBTX", "CWTX"} :
                \A v \in 0 .. 4 : Has(s, v)' <=> Has(s, v)
          /\ ModeWaits' <=> ModeWaits
      BY <1>3, AllListen DEF Has, ModeWaits
    <2>2. (cpc \in Down <=> cpc' \in Down) /\ (cpc \in Up <=> cpc' \in Up)
      BY <1>2
    <2>3. QED
      BY <2>1, <2>2 DEF Told, ToCome2, ToCome3
  <1>7. QED
    BY <1>1, <1>4, <1>5, <1>6, ToldKeeps DEF RestInv

\* Its post of 3 or 2, with which a sequence ends.
LEMMA CtrlPostRests ==
  ASSUME RestInv, CtrlPost
  PROVE  RestInv'
  <1>1. PICK v \in {2, 3}, d \in {FALSE, cdx} :
             /\ Post("CTRL", State(v, d))
             /\ v = 3 => cpc = "post3"
             /\ v = 2 => cpc = "post2"
    <2>1. CASE At("post3") /\ Post("CTRL", State(3, cdx))
      <3> WITNESS 3 \in {2, 3}, cdx \in {FALSE, cdx}
      <3> QED
        BY <2>1 DEF At
    <2>2. CASE At("post2") /\ Post("CTRL", State(2, FALSE))
      <3>1. cpc = "post2"
        BY <2>2 DEF At
      <3>2. Post("CTRL", State(2, FALSE))
        BY <2>2
      <3>3. 2 # 3
        OBVIOUS
      <3> WITNESS 2 \in {2, 3}, FALSE \in {FALSE, cdx}
      <3> QED
        BY <3>1, <3>2, <3>3, Zenon
    <2>3. QED
      BY <2>1, <2>2 DEF CtrlPost
  <1>2. /\ cpc' = "idle"
        /\ UNCHANGED <<queue, cdx, tx_enabled, bbrx, bbtx, cw_tx_on, gui>>
    BY ThenIs DEF CtrlPost, At, baseband
  <1> DEFINE m == State(v, d)
  <1>3. /\ m \in Messages /\ m.t = "TX_STATE" /\ m.v = v
        /\ Heeders(m) = (IF v = 3 THEN {"RX", "TX", "BBTX", "CWTX"}
                                  ELSE {"RX", "TX", "BBRX", "CWTX"})
    <2>1. d \in BOOLEAN
      BY <1>1 DEF RestInv, Flags
    <2>2. QED
      BY <2>1, <1>1 DEF State, Messages, Heeders
  <1>4. "CTRL" \in Producers /\ outbox["CTRL"] = {} /\ MailOK
    BY <1>1 DEF RestInv, MailOK, Producers
  <1>5. /\ queue' \in [Listening -> Seq(Messages)]
        /\ outbox' \in [Producers -> SUBSET (Listening \X Messages)]
        /\ \A s \in Listening :
             Waiting(s)' = Waiting(s) \cup (IF s \in Heeders(m) THEN {m} ELSE {})
    <2> HIDE DEF m
    <2> QED
      BY <1>1, <1>2, <1>3, <1>4, Posted DEF m
  <1>6. MailOK'
    BY <1>2, <1>5 DEF MailOK
  <1>7. UNCHANGED <<ptt, dx, cw, over_cw, n_ptt>>
    BY <1>2 DEF gui
  <1>8. "idle" \notin Down /\ "idle" \notin Up /\ "post3" \in Down /\ "post2" \in Up
    BY DEF Down, Up
  <1>9. v = 3 <=> ptt
    BY <1>1, <1>8 DEF RestInv, MailFits
  <1>10. MailFits'
    <2>1. ASSUME NEW s \in Listening, NEW x \in Waiting(s)' PROVE Fits(s, x)'
      <3>1. CASE x \in Waiting(s)
        BY <1>7, <3>1 DEF RestInv, MailFits, Fits
      <3>2. CASE x \notin Waiting(s)
        <4>1. x = m /\ s \in Heeders(m)
          BY <1>5, <2>1, <3>2
        <4>2. x.t = "TX_STATE" /\ x.v = v /\ s \in Heeders(x)
          BY <1>3, <4>1
        <4>3. QED
          BY <1>1, <1>7, <1>9, <4>2 DEF Fits
      <3>3. QED
        BY <3>1, <3>2
    <2>2. QED
      BY <1>2, <1>8, <2>1 DEF MailFits
  <1>11. Flags'
    BY <1>2 DEF RestInv, Flags, gui, bbrx, bbtx
  <1>12. Told
    <2>1. /\ \A s \in {"CTRL", "TX", "BBRX", "BBTX", "CWTX"} :
                \A u \in 0 .. 4 : Has(s, u) => Has(s, u)'
          /\ ModeWaits' <=> ModeWaits
          /\ \A u \in 0 .. 4 : Has("CTRL", u)' => Has("CTRL", u)
      BY <1>3, <1>5, AllListen DEF Has, ModeWaits
    <2>2. /\ v = 3 => Has("TX", 3)' /\ Has("BBTX", 3)'
          /\ v = 2 => Has("TX", 2)' /\ Has("BBRX", 2)'
          /\ v = 2 => (Has("BBTX", 3)' => Has("BBTX", 3))
      BY <1>3, <1>5, AllListen DEF Has
    <2>3. /\ v = 3 => ToCome3("BBTX") /\ ToCome3("BBTX")' /\ ToCome3("TX")'
          /\ v = 2 => ToCome2("TX")' /\ ToCome2("BBRX")'
      BY <1>1, <1>8, <2>2 DEF ToCome2, ToCome3
    <2>4. v = 3 => (ToCome2("TX") => ToCome2("TX")') /\ (ToCome2("BBRX") => ToCome2("BBRX")')
      BY <1>1, <2>1 DEF ToCome2, Up
    <2>5. v = 2 => (ToCome3("TX") => ToCome3("TX")') /\ (ToCome3("BBTX") <=> ToCome3("BBTX")')
      BY <1>1, <1>2, <1>8, <2>1, <2>2 DEF ToCome3, Down
    <2>6. QED
      BY <1>1, <2>1, <2>3, <2>4, <2>5 DEF Told
  <1>13. QED
    BY <1>2, <1>6, <1>10, <1>11, <1>12, ToldKeeps DEF RestInv

\* At rest nothing is to come to anybody, and everybody is where he should be.
LEMMA AtRest ==
  ASSUME RestInv, Settled
  PROVE  /\ \A s \in Listening : Waiting(s) = {}
         /\ \A s \in Listening : \A v : ~Has(s, v) /\ ~ToCome2(s) /\ ~ToCome3(s)
         /\ ~ModeWaits
         /\ cpc = "idle" /\ outbox = [p \in Producers |-> {}]
         /\ queue = [s \in Listening |-> <<>>]
  <1>1. /\ queue = [s \in Listening |-> <<>>] /\ outbox = [p \in Producers |-> {}]
        /\ cpc = "idle"
    BY DEF Settled, RestInv, MailOK
  <1>2. ASSUME NEW s \in Listening
        PROVE  Waiting(s) = {}
    <2>1. queue[s] = <<>> /\ Len(queue[s]) = 0
      BY <1>1
    <2>2. InQueue(s) = {}
      BY <2>1 DEF InQueue
    <2>3. Owed(s) = {}
      BY <1>1 DEF Owed
    <2>4. QED
      BY <2>2, <2>3 DEF Waiting
  <1>3. "idle" \notin Down /\ "idle" \notin Up
    BY DEF Down, Up
  <1>4. QED
    BY <1>1, <1>2, <1>3, AllListen DEF Has, ModeWaits, ToCome2, ToCome3

\* What rest means for the flags.
LEMMA RestIsInOrder ==
  ASSUME RestInv, Settled
  PROVE  /\ Muted <=> ptt /\ ~dx
         /\ tx_stream_on <=> ptt /\ ~over_cw
         /\ cw_tx_mode = cw
         /\ ~ptt => ~cw_tx_on
         /\ tx_enabled = ptt
  <1>1. /\ \A v : ~Has("BBRX", v) /\ ~Has("BBTX", v) /\ ~Has("CWTX", v)
        /\ ~ToCome2("BBRX") /\ ~ToCome2("TX") /\ ~ToCome3("TX") /\ ~ToCome3("BBTX")
        /\ ~ModeWaits
    BY AtRest, AllListen
  <1>2. Muted <=> ptt /\ ~dx
    BY <1>1 DEF RestInv, BbrxDoes
  <1>3. tx_stream_on <=> ptt /\ ~over_cw
    BY <1>1 DEF RestInv, BbtxDoes
  <1>4. cw_tx_mode = cw
    BY <1>1 DEF RestInv, ModeKnown
  <1>5. ~ptt => ~cw_tx_on
    BY <1>1 DEF RestInv, CwtxDoes
  <1>6. tx_enabled = ptt
    BY <1>1 DEF RestInv, TxDoes, Flags
  <1>7. QED
    BY <1>2, <1>3, <1>4, <1>5, <1>6

\* The operator presses or releases, the radio being at rest.
LEMMA PttRests ==
  ASSUME RestInv, Settled, NEW on \in BOOLEAN, NEW d \in Duplex, Ptt(on, d)
  PROVE  RestInv'
  <1> DEFINE m == State(IF on THEN 1 ELSE 0, d)
  <1>1. /\ on # ptt
        /\ Post("UI", m) /\ outbox["UI"] = {}
        /\ ptt' = on /\ dx' = d /\ n_ptt' = n_ptt + 1
        /\ over_cw' = IF on THEN cw ELSE over_cw
        /\ UNCHANGED <<queue, cpc, cdx, tx_enabled, bbrx, bbtx, cw_tx_on, cw>>
    BY VoiceAssumption DEF Ptt, GuiMay, VoiceAssumption, ctrl, baseband
  <1>2. d \in BOOLEAN
    BY TRAssumption DEF TRAssumption
  <1>3. /\ m \in Messages /\ m.t = "TX_STATE" /\ m.v = (IF on THEN 1 ELSE 0) /\ m.dx = d
        /\ Heeders(m) = (IF on THEN {"CTRL", "BBRX", "CWTX"} ELSE {"CTRL", "BBTX", "CWTX"})
    BY <1>2 DEF State, Messages, Heeders
  <1>4. "UI" \in Producers /\ MailOK
    BY DEF RestInv, Producers
  <1>5. /\ queue' \in [Listening -> Seq(Messages)]
        /\ outbox' \in [Producers -> SUBSET (Listening \X Messages)]
        /\ \A s \in Listening :
             Waiting(s)' = Waiting(s) \cup (IF s \in Heeders(m) THEN {m} ELSE {})
    <2> HIDE DEF m
    <2> QED
      BY <1>1, <1>3, <1>4, Posted DEF m
  <1> HIDE DEF m
  <1>6. cpc = "idle" /\ cpc' = "idle" /\ "idle" \notin Down /\ "idle" \notin Up
    BY <1>1, AtRest DEF Down, Up
  <1>7. MailOK'
    BY <1>5, <1>6 DEF MailOK
  <1>8. \A s \in Listening :
          Waiting(s)' = IF s \in Heeders(m) THEN {m} ELSE {}
    BY <1>5, AtRest
  <1>9. MailFits'
    <2>1. \A s \in Listening : \A x \in Waiting(s)' : x = m /\ s \in Heeders(m)
      BY <1>8
    <2>2. QED
      BY <1>1, <1>3, <1>6, <2>1 DEF MailFits, Fits
  <1>10. Flags'
    BY <1>1, <1>2 DEF RestInv, Flags, bbrx, bbtx
  <1>11. UNCHANGED <<Muted, tx_stream_on, cw_tx_mode>>
    BY <1>1 DEF Muted, bbrx, bbtx
  <1>12. /\ Muted <=> ptt /\ ~dx
         /\ tx_stream_on <=> ptt /\ ~over_cw
         /\ cw_tx_mode = cw
         /\ tx_enabled = ptt
    BY RestIsInOrder
  <1>13. /\ on => Has("BBRX", 1)' /\ Has("CTRL", 1)' /\ ToCome3("BBTX")' /\ ToCome3("TX")'
         /\ ~on => Has("CTRL", 0)' /\ Has("BBTX", 0)' /\ Has("CWTX", 0)'
         /\ ~on => ToCome2("BBRX")' /\ ToCome2("TX")' /\ ~ToCome3("BBTX")'
         /\ ~ModeWaits'
    <2>1. Waiting("BBTX")' = (IF on THEN {} ELSE {m})
      BY <1>3, <1>8, AllListen
    <2>2. Waiting("CTRL")' = {m} /\ Waiting("CWTX")' = {m}
      BY <1>3, <1>8, AllListen
    <2>3. Waiting("BBRX")' = (IF on THEN {m} ELSE {})
      BY <1>3, <1>8, AllListen
    <2>4. QED
      BY <1>3, <1>6, <2>1, <2>2, <2>3 DEF Has, ToCome2, ToCome3, ModeWaits
  <1>14. BbrxDoes' /\ ModeKnown' /\ BbtxDoes' /\ CwtxDoes' /\ TxDoes'
    <2>1. CASE on
      <3>1. BbrxDoes'
        BY <1>1, <1>11, <1>12, <1>13, <2>1 DEF BbrxDoes
      <3>2. ModeKnown' /\ BbtxDoes'
        BY <1>1, <1>11, <1>12, <1>13, <2>1 DEF ModeKnown, BbtxDoes
      <3>3. CwtxDoes' /\ TxDoes'
        BY <1>1, <1>13, <2>1 DEF CwtxDoes, TxDoes
      <3>4. QED
        BY <3>1, <3>2, <3>3
    <2>2. CASE ~on
      <3>1. BbrxDoes'
        BY <1>1, <1>11, <1>12, <1>13, <2>2 DEF BbrxDoes
      <3>2. ModeKnown' /\ BbtxDoes'
        BY <1>1, <1>11, <1>12, <1>13, <2>2 DEF ModeKnown, BbtxDoes
      <3>3. CwtxDoes' /\ TxDoes'
        BY <1>1, <1>13, <2>2 DEF CwtxDoes, TxDoes
      <3>4. QED
        BY <3>1, <3>2, <3>3
    <2>3. QED
      BY <2>1, <2>2
  <1>15. QED
    BY <1>7, <1>9, <1>10, <1>14 DEF RestInv

\* The operator turns a knob, or changes the mode, the radio being at rest.
LEMMA KnobRests ==
  ASSUME RestInv, Settled,
         NEW m \in Messages, m.t \in {"TX_MODE", "RX_RF_GAIN", "TX_RF_GAIN"}, Knob(m)
  PROVE  RestInv'
  <1>1. /\ Post("UI", m) /\ outbox["UI"] = {}
        /\ cw' = IF m.t = "TX_MODE" THEN m.cw ELSE cw
        /\ UNCHANGED <<queue, cpc, cdx, tx_enabled, bbrx, bbtx, cw_tx_on, ptt, dx,
                       over_cw, n_ptt>>
    BY DEF Knob, GuiMay, ctrl, baseband
  <1>2. "UI" \in Producers /\ MailOK
    BY DEF RestInv, Producers
  <1>3. /\ queue' \in [Listening -> Seq(Messages)]
        /\ outbox' \in [Producers -> SUBSET (Listening \X Messages)]
        /\ \A s \in Listening :
             Waiting(s)' = Waiting(s) \cup (IF s \in Heeders(m) THEN {m} ELSE {})
    BY <1>1, <1>2, Posted
  <1>4. cpc = "idle" /\ cpc' = "idle" /\ "idle" \notin Down /\ "idle" \notin Up
    BY <1>1, AtRest DEF Down, Up
  <1>5. MailOK'
    BY <1>3, <1>4 DEF MailOK
  <1>6. \A s \in Listening : Waiting(s)' = IF s \in Heeders(m) THEN {m} ELSE {}
    BY <1>3, AtRest
  <1>7. MailFits'
    <2>1. \A s \in Listening : \A x \in Waiting(s)' : x = m /\ s \in Heeders(m)
      BY <1>6
    <2>2. QED
      BY <1>1, <1>4, <2>1 DEF MailFits, Fits
  <1>8. m.t = "TX_MODE" => m.cw \in BOOLEAN /\ "BBTX" \in Heeders(m)
    BY DEF Messages, Heeders
  <1>9. Flags'
    BY <1>1, <1>8 DEF RestInv, Flags, bbrx, bbtx
  <1>10. UNCHANGED <<Muted, tx_stream_on, cw_tx_mode>>
    BY <1>1 DEF Muted, bbrx, bbtx
  <1>11. /\ Muted <=> ptt /\ ~dx
         /\ tx_stream_on <=> ptt /\ ~over_cw
         /\ cw_tx_mode = cw
         /\ tx_enabled = ptt
         /\ ~ptt => ~cw_tx_on
    BY RestIsInOrder
  <1>12. ~ToCome3("BBTX")'
    <2>1. \A s \in Listening : \A x \in Waiting(s)' : x.t # "TX_STATE"
      BY <1>6
    <2>2. QED
      BY <1>4, <2>1, AllListen DEF Has, ToCome3
  <1>13. m.t = "TX_MODE" => ModeWaits'
    BY <1>6, <1>8, AllListen DEF ModeWaits
  <1>14. BbrxDoes' /\ BbtxDoes' /\ CwtxDoes' /\ TxDoes'
    BY <1>1, <1>10, <1>11 DEF BbrxDoes, BbtxDoes, CwtxDoes, TxDoes
  <1>15. ModeKnown'
    BY <1>1, <1>10, <1>11, <1>12, <1>13 DEF ModeKnown
  <1>16. QED
    BY <1>5, <1>7, <1>9, <1>14, <1>15 DEF RestInv

LEMMA GuiRests ==
  ASSUME RestInv, Gui
  PROVE  RestInv' /\ Settled
  <1>1. Settled
    BY VoiceAssumption DEF Gui, Ptt, Knob, GuiMay, VoiceAssumption
  <1>2. CASE \E on \in BOOLEAN, d \in Duplex : Ptt(on, d)
    BY <1>1, <1>2, PttRests
  <1>3. ASSUME NEW c \in Modes, Knob(Mode(c))
        PROVE  RestInv'
    <2>1. Mode(c) \in Messages /\ Mode(c).t = "TX_MODE"
      BY TRAssumption DEF TRAssumption, Mode, Messages
    <2>2. QED
      BY <1>1, <1>3, <2>1, KnobRests
  <1>4. ASSUME NEW k \in Knobs, Knob(RxGain(k)) \/ Knob(TxGain(k))
        PROVE  RestInv'
    <2>1. /\ RxGain(k) \in Messages /\ RxGain(k).t = "RX_RF_GAIN"
          /\ TxGain(k) \in Messages /\ TxGain(k).t = "TX_RF_GAIN"
      BY DEF RxGain, TxGain, Messages
    <2>2. QED
      BY <1>1, <1>4, <2>1, KnobRests
  <1>5. QED
    BY <1>1, <1>2, <1>3, <1>4 DEF Gui

\* Steps of the voice's buffers alone, and steps that change nothing.
LEMMA BuffersRest ==
  ASSUME RestInv, UNCHANGED vars
  PROVE  RestInv'
  <1>1. UNCHANGED <<queue, outbox, cpc, cdx, tx_enabled, bbrx, bbtx, cw_tx_on, gui>>
    BY DEF vars, posts, ctrl, baseband
  <1>2. \A s \in Listening : Waiting(s)' = Waiting(s)
    BY <1>1 DEF Waiting, InQueue, Owed
  <1>3. Told
    BY <1>1, <1>2, SameMail, AllListen
  <1>4. MailOK' /\ Flags' /\ MailFits'
    BY <1>1, <1>2 DEF RestInv, MailOK, Flags, MailFits, Fits, gui, bbrx, bbtx
  <1>5. QED
    BY <1>1, <1>3, <1>4, ToldKeeps DEF RestInv

LEMMA RestStarts ==
  ASSUME Init
  PROVE  RestInv
  <1>1. Settled /\ MailOK
    BY DEF Init, Settled, MailOK
  <1>2. \A s \in Listening : Waiting(s) = {}
    <2>1. ASSUME NEW s \in Listening PROVE InQueue(s) = {} /\ Owed(s) = {}
      <3>1. queue[s] = <<>> /\ Len(queue[s]) = 0
        BY DEF Init
      <3>2. QED
        BY <3>1 DEF Init, InQueue, Owed
    <2>2. QED
      BY <2>1 DEF Waiting
  <1>3. "idle" \notin Down /\ "idle" \notin Up
    BY DEF Down, Up
  <1>4. MailFits
    BY <1>2, <1>3 DEF Init, MailFits
  <1>5. ~ModeWaits /\ ~ToCome3("BBTX") /\ ~Has("BBTX", 0)
    BY <1>2, <1>3, AllListen DEF Init, ModeWaits, ToCome3, Has
  <1>6. Flags
    BY TRAssumption DEF TRAssumption, Init, Flags
  <1>7. BbrxDoes /\ ModeKnown /\ BbtxDoes /\ CwtxDoes /\ TxDoes
    BY <1>5 DEF Init, BbrxDoes, Muted, ModeKnown, BbtxDoes, CwtxDoes, TxDoes
  <1>8. QED
    BY <1>1, <1>4, <1>6, <1>7 DEF RestInv

LEMMA CtrlRests ==
  ASSUME RestInv, Ctrl
  PROVE  RestInv'
  BY CtrlTakesRests, CtrlMovesRests, CtrlPostRests DEF Ctrl

LEMMA VoiceStepRests ==
  ASSUME RestInv, [VoiceNext]_voiceVars
  PROVE  RestInv'
  <1>1. CASE Conversation
    <2>1. \/ Gui \/ Ctrl \/ BbtxHandles \/ Label \/ RxHandles \/ BbrxHandles
          \/ CwtxHandles \/ \E p \in Producers : Push(p)
      BY <1>1 DEF Conversation
    <2>2. QED
      BY <2>1, GuiRests, CtrlRests, BbtxRests, LabelRests, RxRests, BbrxRests, CwtxRests,
         PushRests
  <1>2. CASE Switch
    BY <1>2, TxRests DEF Switch
  <1>3. CASE Capture \/ Discard \/ Receive \/ Modulate \/ Send \/ UNCHANGED voiceVars
    <2>1. UNCHANGED vars
      BY <1>3 DEF Capture, Discard, Receive, Modulate, Send, voiceVars
    <2>2. QED
      BY <2>1, BuffersRest
  <1>4. QED
    BY <1>1, <1>2, <1>3 DEF VoiceNext

\* Whatever is under way, the baseband threads and USRPTX are where the last
\* command wants them, or what brings them there is still to come.
THEOREM RestInvariant == VoiceSpec => []RestInv
  <1>1. VoiceInit => RestInv
    BY RestStarts DEF VoiceInit
  <1>2. RestInv /\ [VoiceNext]_voiceVars => RestInv'
    BY VoiceStepRests
  <1>3. QED
    BY <1>1, <1>2, PTL DEF VoiceSpec

\* Every over leaves BaseBandRX, BaseBandTX and CWTX in receive, and puts them to
\* transmit as its mode and duplex say.
THEOREM BasebandDoesFollow == VoiceSpec => []BasebandFollows
  <1>1. RestInv => BasebandFollows
    BY RestIsInOrder DEF BasebandFollows, Muted
  <1>2. QED
    BY <1>1, RestInvariant, PTL

-----------------------------------------------------------------------------
(* The voice.                                                              *)

AllFrom(q, n) == \A i \in 1 .. Len(q) : q[i] >= n

Buffers == mic \in Seq(Nat) /\ hand \in Seq(Nat) /\ txq \in Seq(Nat)

\* Nothing older than the over is on its way; BaseBandTX has nothing in hand when
\* it does not send; it has stopped by the time USRPTX is told to; and once that
\* has stopped, nothing is left in its queue.
FreshInv ==
  /\ Buffers
  /\ AllFrom(mic, Over) /\ AllFrom(hand, Over) /\ AllFrom(txq, Over)
  /\ ~tx_stream_on => hand = <<>>
  /\ ~ptt /\ (Has("TX", 2) \/ ~tx_enabled) => ~tx_stream_on
  /\ ~ptt /\ ~tx_enabled => txq = <<>>

\* Nobody but USRPCtrl, with the last operation of a key-up, tells USRPTX to stop.
LEMMA WhoTellsTx ==
  ASSUME RestInv, Conversation, Has("TX", 2)'
  PROVE  Has("TX", 2) \/ (cpc = "post2" /\ ~tx_stream_on)
  <1>1. MailOK /\ "TX" \in Listening
    BY AllListen DEF RestInv
  <1>2. ASSUME Waiting("TX")' \subseteq Waiting("TX")
        PROVE  Has("TX", 2)
    BY <1>2 DEF Has
  <1>3. ASSUME NEW p \in Producers, NEW m \in Messages, outbox[p] = {}, Post(p, m),
               UNCHANGED queue, m.t = "TX_STATE" => m.v # 2
        PROVE  Has("TX", 2)
    <2>1. Waiting("TX")' = Waiting("TX") \cup (IF "TX" \in Heeders(m) THEN {m} ELSE {})
      BY <1>1, <1>3, Posted
    <2>2. QED
      BY <1>3, <2>1 DEF Has
  <1>4. ASSUME NEW r \in Listening, queue[r] # <<>>, Take(r), UNCHANGED outbox
        PROVE  Has("TX", 2)
    BY <1>1, <1>2, <1>4, Took
  <1>5. CASE Gui
    <2>0. "UI" \in Producers
      BY DEF Producers
    <2>1. CASE \E on \in BOOLEAN, d \in Duplex : Ptt(on, d)
      <3>1. PICK on \in BOOLEAN, d \in Duplex : Ptt(on, d)
        BY <2>1
      <3>2. State(IF on THEN 1 ELSE 0, d) \in Messages
        BY TRAssumption DEF TRAssumption, State, Messages
      <3>3. State(IF on THEN 1 ELSE 0, d).v # 2
        BY DEF State
      <3>4. /\ outbox["UI"] = {} /\ UNCHANGED queue
            /\ Post("UI", State(IF on THEN 1 ELSE 0, d))
        BY <3>1 DEF Ptt, GuiMay
      <3>5. QED
        BY <1>3, <2>0, <3>2, <3>3, <3>4
    <2>2. ASSUME NEW m \in Messages, m.t # "TX_STATE", Knob(m)
          PROVE  Has("TX", 2)
      BY <1>3, <2>0, <2>2 DEF Knob, GuiMay
    <2>3. /\ \A c \in Modes : Mode(c) \in Messages /\ Mode(c).t # "TX_STATE"
          /\ \A k \in Knobs : /\ RxGain(k) \in Messages /\ RxGain(k).t # "TX_STATE"
                              /\ TxGain(k) \in Messages /\ TxGain(k).t # "TX_STATE"
      BY TRAssumption DEF TRAssumption, Mode, RxGain, TxGain, Messages
    <2>4. QED
      BY <1>5, <2>1, <2>2, <2>3 DEF Gui
  <1>6. CASE CtrlRxGain \/ CtrlTxGain \/ CtrlKeyDown \/ CtrlKeyUp
    <2>1. Ready("CTRL") /\ Take("CTRL") /\ UNCHANGED outbox
      BY <1>6 DEF CtrlRxGain, CtrlTxGain, CtrlKeyDown, CtrlKeyUp, CtrlReady
    <2>2. QED
      BY <1>4, <2>1 DEF Ready
  <1>7. CASE CtrlGains \/ CtrlGpio \/ CtrlFrontEnd \/ CtrlRelay
    <2>1. UNCHANGED <<queue, outbox>>
      BY <1>7 DEF CtrlGains, CtrlGpio, CtrlFrontEnd, CtrlRelay, At
    <2>2. QED
      BY <1>2, <2>1 DEF Waiting, InQueue, Owed
  <1>8. CASE CtrlPost /\ SlowKeyUp
    <2>1. CASE At("post2")
      BY <1>8, <2>1 DEF At, SlowKeyUp
    <2>2. CASE At("post3") /\ Post("CTRL", State(3, cdx))
      <3>1. /\ "CTRL" \in Producers /\ outbox["CTRL"] = {} /\ UNCHANGED queue
            /\ State(3, cdx).v # 2
        BY <2>2 DEF At, RestInv, MailOK, Producers, State
      <3>2. State(3, cdx) \in Messages
        BY DEF State, Messages, RestInv, Flags
      <3>3. QED
        BY <1>3, <2>2, <3>1, <3>2
    <2>3. QED
      BY <1>8, <2>1, <2>2 DEF CtrlPost
  <1>9. CASE BbtxHandles \/ BbrxHandles \/ CwtxHandles \/ Label
    <2>1. PICK r \in {"BBTX", "BBRX", "CWTX", "UI"} :
               queue[r] # <<>> /\ Take(r) /\ UNCHANGED outbox
      BY <1>9 DEF BbtxHandles, BbrxHandles, CwtxHandles, Label, Ready
    <2>2. QED
      BY <1>4, <2>1, AllListen
  <1>10. CASE RxHandles
    <2>1. CASE UNCHANGED outbox
      BY <1>4, <1>10, <2>1, AllListen DEF RxHandles, Ready
    <2>2. CASE Post("RX", State(4, FALSE))
      <3>1. /\ State(4, FALSE) \in Messages /\ State(4, FALSE).v # 2
            /\ "RX" \in Listening /\ "RX" \in Producers
        BY AllListen DEF State, Messages, Producers
      <3>2. \A x \in Waiting("TX")' : x \in Waiting("TX") \/ x = State(4, FALSE)
        BY <1>1, <1>10, <2>2, <3>1, Answered DEF RxHandles
      <3>3. QED
        BY <3>1, <3>2 DEF Has
    <2>3. QED
      BY <1>10, <2>1, <2>2 DEF RxHandles
  <1>11. CASE \E p \in Producers : Push(p)
    BY <1>1, <1>2, <1>11, Pushing
  <1>12. QED
    BY <1>5, <1>6, <1>7, <1>8, <1>9, <1>10, <1>11 DEF Conversation, Ctrl

\* The conversation leaves the buffers alone; only a PTT command moves the age
\* that they must not have, and then the old ones are gone.
LEMMA ConversationKeepsFresh ==
  ASSUME RestInv, FreshInv, Conversation
  PROVE  FreshInv'
  <1>1. UNCHANGED <<mic, hand, txq>>
    BY DEF Conversation, voice
  <1>2. UNCHANGED tx_enabled
    BY DEF Conversation, Gui, Ptt, Knob, Ctrl, CtrlRxGain, CtrlTxGain, CtrlKeyDown, CtrlKeyUp,
           CtrlGains, CtrlGpio, CtrlFrontEnd, CtrlRelay, CtrlPost, At, BbtxHandles, Label,
           RxHandles, BbrxHandles, CwtxHandles, Push, baseband
  <1>3. CASE \E on \in BOOLEAN, d \in Duplex : Ptt(on, d)
    <2>1. PICK on \in BOOLEAN, d \in Duplex : Ptt(on, d)
      BY <1>3
    <2>2. /\ on # ptt /\ Settled
          /\ ptt' = on /\ n_ptt' = n_ptt + 1 /\ cpc = "idle"
          /\ UNCHANGED tx_stream_on
      BY <2>1, VoiceAssumption DEF Ptt, GuiMay, VoiceAssumption, baseband, bbtx, Settled
    <2>3. ~Has("TX", 2)
      BY <2>2, AtRest, AllListen
    <2>4. ~Has("TX", 2)'
      BY <2>2, <2>3, WhoTellsTx
    <2>5. tx_enabled = ptt
      BY <2>2, RestIsInOrder
    <2>6. n_ptt \in Nat
      BY DEF RestInv, Flags
    <2>7. mic = <<>>
      <3>1. n_ptt' # n_ptt
        BY <2>2, <2>6
      <3>2. QED
        BY <3>1
           DEF Conversation, Rested, Ctrl, CtrlRxGain, CtrlTxGain, CtrlKeyDown, CtrlKeyUp,
               CtrlGains, CtrlGpio, CtrlFrontEnd, CtrlRelay, CtrlPost, At, BbtxHandles, Label,
               RxHandles, BbrxHandles, CwtxHandles, Push, gui
    <2>8. CASE on
      <3>1. ~tx_stream_on /\ txq = <<>> /\ hand = <<>>
        BY <2>2, <2>5, <2>8 DEF FreshInv
      <3>2. QED
        BY <1>1, <2>2, <2>7, <2>8, <3>1 DEF FreshInv, Buffers, AllFrom
    <2>9. CASE ~on
      <3>1. Over' = Over
        BY <2>2, <2>6, <2>9 DEF Over, RestInv, Flags
      <3>2. QED
        BY <1>1, <1>2, <2>2, <2>4, <2>5, <2>9, <3>1 DEF FreshInv, Buffers, AllFrom
    <2>10. QED
      BY <2>8, <2>9
  <1>4. CASE ~\E on \in BOOLEAN, d \in Duplex : Ptt(on, d)
    <2>1. UNCHANGED <<ptt, n_ptt>>
      BY <1>4 DEF Conversation, Gui, Knob, Ctrl, CtrlRxGain, CtrlTxGain, CtrlKeyDown,
           CtrlKeyUp, CtrlGains, CtrlGpio, CtrlFrontEnd, CtrlRelay, CtrlPost, At, BbtxHandles,
           Label, RxHandles, BbrxHandles, CwtxHandles, Push, gui
    <2>2. Over' = Over
      BY <2>1 DEF Over
    <2>3. CASE UNCHANGED tx_stream_on
      <3>1. Has("TX", 2)' => Has("TX", 2) \/ ~tx_stream_on
        BY WhoTellsTx
      <3>2. QED
        BY <1>1, <1>2, <2>1, <2>2, <2>3, <3>1 DEF FreshInv, Buffers, AllFrom
    <2>4. CASE tx_stream_on' # tx_stream_on
      <3>1. BbtxHandles /\ hand = <<>>
        BY <1>4, <2>4
           DEF Conversation, Gui, Knob, Ctrl, CtrlRxGain, CtrlTxGain, CtrlKeyDown, CtrlKeyUp,
               CtrlGains, CtrlGpio, CtrlFrontEnd, CtrlRelay, CtrlPost, At, Label, RxHandles,
               BbrxHandles, CwtxHandles, Push, baseband, bbtx
      <3>2. ~ptt => ~tx_stream_on'
        <4>1. Msg("BBTX") \in Messages /\ Fits("BBTX", Msg("BBTX"))
          BY <3>1, BasebandTook DEF BbtxHandles, Ready, ctrl
        <4>2. /\ Msg("BBTX").t # "TX_MODE"
              /\ tx_stream_on' => Msg("BBTX").v = 3
          BY <2>4, <3>1 DEF BbtxHandles, BbtxOn
        <4>3. Msg("BBTX").t = "TX_STATE"
          BY <4>1, <4>2, WhoHeeds DEF Fits
        <4>4. QED
          BY <4>1, <4>2, <4>3 DEF Fits
      <3>3. QED
        BY <1>1, <1>2, <2>1, <2>2, <3>1, <3>2 DEF FreshInv, Buffers, AllFrom
    <2>5. QED
      BY <2>3, <2>4
  <1>5. QED
    BY <1>3, <1>4

\* transmitSwitch.
LEMMA SwitchKeepsFresh ==
  ASSUME RestInv, FreshInv, Switch
  PROVE  FreshInv'
  <1>1. /\ Ready("TX") /\ Take("TX") /\ tx_enabled' = (Msg("TX").v = 3)
        /\ UNCHANGED <<mic, hand, ptt, n_ptt, tx_stream_on>>
        /\ txq' = IF tx_enabled /\ ~tx_enabled' THEN <<>> ELSE txq
    BY DEF Switch, TxHandles, Flushed, gui, bbtx
  <1>2. /\ Msg("TX") \in Waiting("TX") /\ Msg("TX").t = "TX_STATE"
        /\ Msg("TX").v = IF ptt THEN 3 ELSE 2
    <2>1. "TX" \in Listening /\ MailOK /\ queue["TX"] # <<>>
      BY <1>1, AllListen DEF RestInv, Ready
    <2>2. Msg("TX") \in Waiting("TX") /\ Msg("TX") \in Messages
      BY <1>1, <2>1, Taking DEF Waiting
    <2>3. Fits("TX", Msg("TX"))
      BY <2>1, <2>2 DEF RestInv, MailFits
    <2>4. Msg("TX").t = "TX_STATE" /\ Msg("TX").v \in {2, 3}
      BY <2>2, <2>3, WhoHeeds DEF Fits
    <2>5. QED
      BY <2>2, <2>3, <2>4 DEF Fits
  <1>3. Over' = Over
    BY <1>1 DEF Over
  <1>4. CASE ptt
    <2>1. txq' = txq
      BY <1>1, <1>2, <1>4
    <2>2. QED
      BY <1>1, <1>3, <1>4, <2>1 DEF FreshInv, Buffers, AllFrom
  <1>5. CASE ~ptt
    <2>1. ~tx_stream_on
      BY <1>2, <1>5 DEF FreshInv, Has
    <2>2. txq' = <<>>
      <3>1. ~tx_enabled'
        <4>1. Msg("TX").v = 2
          BY <1>2, <1>5
        <4>2. tx_enabled' = (Msg("TX").v = 3)
          BY <1>1
        <4>3. ~(Msg("TX").v = 3)
          BY <4>1
        <4>4. QED
          BY <4>2, <4>3, Zenon
      <3>2. ~tx_enabled => txq = <<>>
        BY <1>5 DEF FreshInv
      <3>3. QED
        BY <1>1, <3>1, <3>2
    <2>3. QED
      BY <1>1, <1>3, <1>5, <2>1, <2>2 DEF FreshInv, Buffers, AllFrom
  <1>6. QED
    BY <1>4, <1>5

\* The buffers' own steps.
LEMMA BuffersKeepFresh ==
  ASSUME RestInv, FreshInv,
         Capture \/ Discard \/ Receive \/ Modulate \/ Send \/ UNCHANGED voiceVars
  PROVE  FreshInv'
  <1>1. UNCHANGED <<queue, outbox, ptt, n_ptt, tx_stream_on, tx_enabled>>
    BY DEF Capture, Discard, Receive, Modulate, Send, voiceVars, vars, posts, gui, baseband, bbtx
  <1>2. Over' = Over
    BY <1>1 DEF Over
  <1>3. Has("TX", 2)' <=> Has("TX", 2)
    BY <1>1 DEF Has, Waiting, InQueue, Owed
  <1>4. /\ Over \in Int /\ Over =< n_ptt /\ n_ptt \in Nat
    BY DEF Over, RestInv, Flags
  <1>5. /\ Buffers
        /\ AllFrom(mic, Over) /\ AllFrom(hand, Over) /\ AllFrom(txq, Over)
    BY DEF FreshInv
  <1>6. ASSUME NEW q \in Seq(Nat), q # <<>>, AllFrom(q, Over)
        PROVE  AllFrom(Tail(q), Over) /\ Head(q) >= Over /\ Tail(q) \in Seq(Nat)
               /\ Head(q) \in Nat
    BY <1>6 DEF AllFrom
  <1>7. CASE Capture
    <2>1. mic' \in Seq(Nat) /\ AllFrom(mic', Over)
      BY <1>4, <1>5, <1>7 DEF Capture, AllFrom, Buffers
    <2>2. UNCHANGED <<hand, txq>>
      BY <1>7 DEF Capture
    <2>3. QED
      BY <1>1, <1>2, <1>3, <2>1, <2>2 DEF FreshInv, Buffers, AllFrom
  <1>8. CASE Discard
    <2>1. mic' \in Seq(Nat) /\ AllFrom(mic', Over)
      BY <1>5, <1>6, <1>8 DEF Discard, Read, Buffers
    <2>2. UNCHANGED <<hand, txq>>
      BY <1>8 DEF Discard
    <2>3. QED
      BY <1>1, <1>2, <1>3, <2>1, <2>2 DEF FreshInv, Buffers, AllFrom
  <1>9. CASE Receive
    <2>1. mic' \in Seq(Nat) /\ AllFrom(mic', Over) /\ Head(mic) >= Over /\ Head(mic) \in Nat
      BY <1>5, <1>6, <1>9 DEF Receive, Read, Buffers
    <2>2. hand' = <<Head(mic)>> /\ UNCHANGED txq /\ tx_stream_on
      BY <1>9 DEF Receive
    <2>3. hand' \in Seq(Nat) /\ AllFrom(hand', Over)
      BY <2>1, <2>2 DEF AllFrom
    <2>4. QED
      BY <1>1, <1>2, <1>3, <2>1, <2>2, <2>3 DEF FreshInv, Buffers, AllFrom
  <1>10. CASE Modulate
    <2>1. txq' = txq \o hand /\ hand' = <<>> /\ UNCHANGED mic /\ hand # <<>>
      BY <1>10 DEF Modulate
    <2>2. txq' \in Seq(Nat) /\ AllFrom(txq', Over)
      BY <1>5, <2>1 DEF Buffers, AllFrom
    <2>3. tx_stream_on
      BY <2>1 DEF FreshInv
    <2>4. ~(~ptt /\ ~tx_enabled)
      BY <2>3 DEF FreshInv
    <2>5. QED
      BY <1>1, <1>2, <1>3, <2>1, <2>2, <2>3, <2>4 DEF FreshInv, Buffers, AllFrom
  <1>11. CASE Send
    <2>1. txq' \in Seq(Nat) /\ AllFrom(txq', Over)
      BY <1>5, <1>6, <1>11 DEF Send, Buffers
    <2>2. UNCHANGED <<mic, hand>> /\ tx_enabled
      BY <1>11 DEF Send
    <2>3. QED
      BY <1>1, <1>2, <1>3, <2>1, <2>2 DEF FreshInv, Buffers, AllFrom
  <1>12. CASE UNCHANGED voiceVars
    <2>1. UNCHANGED <<mic, hand, txq>>
      BY <1>12 DEF voiceVars, voice
    <2>2. QED
      BY <1>1, <1>2, <1>3, <2>1 DEF FreshInv, Buffers, AllFrom
  <1>13. QED
    BY <1>7, <1>8, <1>9, <1>10, <1>11, <1>12

\* The voice that is under way is of this over, at every stage.
THEOREM FreshInvariant == VoiceSpec => [](RestInv /\ FreshInv)
  <1>1. VoiceInit => RestInv /\ FreshInv
    <2>1. VoiceInit => FreshInv
      BY DEF VoiceInit, Init, FreshInv, Buffers, AllFrom
    <2>2. QED
      BY <2>1, RestStarts DEF VoiceInit
  <1>2. RestInv /\ FreshInv /\ [VoiceNext]_voiceVars => (RestInv /\ FreshInv)'
    BY VoiceStepRests, ConversationKeepsFresh, SwitchKeepsFresh, BuffersKeepFresh
       DEF VoiceNext
  <1>3. QED
    BY <1>1, <1>2, PTL DEF VoiceSpec

\* Nothing said before the key went down, or in an over before this one, goes on
\* the air: BaseBandTX throws the one away, transmitSwitch flushes the other.
THEOREM VoiceIsFresh == VoiceSpec => []VoiceFresh
  <1>1. FreshInv => VoiceFresh
    BY DEF FreshInv, VoiceFresh, AllFrom, Buffers
  <1>2. QED
    BY <1>1, FreshInvariant, PTL
=============================================================================
