----------------------------- MODULE RadioSetup -----------------------------
(***************************************************************************)
(* How server, GUI and radio come to agree on the setting of the radio.    *)
(* The server finds the hardware as an earlier one has left it, perhaps in *)
(* the middle of an over.  USRPCtrl makes it safe before any thread runs,  *)
(* and gives itself a first few commands.  The GUI asks what there is to   *)
(* choose from and fills its selectors with the answers, one by one; every *)
(* change of what a selector shows, its first entry included, is a command *)
(* to the radio.  Behind the last answer the GUI restores its settings.    *)
(***************************************************************************)
EXTENDS Integers, Sequences, SequencesExt

CONSTANTS Offers,     \* selector -> what the server offers, in order
          Radios,     \* the parts an over switches on, for each kind of radio
          BandAnts,   \* the antennas of each band
          Settings,   \* what the settings file may hold
          ClockArgs,  \* what getClockSource() may make of an unset parameter
          MaxEvents   \* bound: choices, PTT commands and failures

Selectors == {"rx_ant", "tx_ant", "mode", "filter"}

ASSUME RadioSetupAssumption ==
  /\ DOMAIN Offers = Selectors
  /\ \A s \in Selectors : Offers[s] \in Seq(ToSet(Offers[s])) \ {<<>>}
  /\ Radios \subseteq SUBSET {"gpio", "fe", "relay"}
  /\ \A b \in DOMAIN BandAnts : DOMAIN BandAnts[b] = {"rx_ant", "tx_ant"}
  /\ ClockArgs \subseteq {"internal", "external"}
  /\ MaxEvents \in Nat

VARIABLES
  has, onair,    \* the radio's parts; those, and "gain", that are on the air
  used,          \* what the radio uses: selector -> choice, and the clock
  stage,         \* USRPCtrl's constructor: how far it has come
  running,       \* of "ui" and "ctrl", the threads whose loops run
  tx_ant, keyed, \* USRPCtrl: antenna for the next over; "yes", "no" or "unknown"
  ctrlq, bbq,    \* CMD mailbox: what USRPCtrl and BaseBandRX have to take
  reports,       \* to the GUI, through UI
  gui, window,   \* the GUI: "off", "filling" or "restored"; its widgets
  n_events

radio  == <<has, onair, used>>
server == <<stage, running, tx_ant, keyed>>
queues == <<ctrlq, bbq, reports>>
rsVars == <<radio, server, queues, gui, window, n_events>>

Msg(t, v) == [t |-> t, v |-> v]

\* No selector has an entry; sock is what the GUI has sent and UI not yet read.
EmptyWindow(sock) ==
  [items |-> [s \in DOMAIN Offers |-> <<>>], shown |-> [s \in DOMAIN Offers |-> 0],
   band |-> 0, box |-> FALSE, sock |-> sock]

-----------------------------------------------------------------------------
(* The server comes up.                                                    *)

Constructor(here, next) == stage = here /\ stage' = next

\* multi_usrp::make: it may reset the radio, or leave some of it as it was.  The
\* relay is another device and stays where it is.
MakeUsrp ==
  /\ Constructor("down", "made")
  /\ \E left \in SUBSET onair : onair' = left \cup (onair \cap {"relay"})
  /\ UNCHANGED <<has, used, running, tx_ant, keyed, queues, gui, window, n_events>>

\* The daughterboard's relay pin becomes an output, and low.
InitControlGPIO ==
  /\ Constructor("made", "gpio")
  /\ onair' = onair \ {"gpio"}
  /\ UNCHANGED <<has, used, running, tx_ant, keyed, queues, gui, window, n_events>>

\* The constructor of the relay's driver calls setTXOff.
MakeTRControl ==
  /\ Constructor("gpio", "control")
  /\ onair' = onair \ {"relay"}
  /\ UNCHANGED <<has, used, running, tx_ant, keyed, queues, gui, window, n_events>>

\* setTXEna.  Slip: setTXFrontEndEnable returns at once.
SwitchedFrontEndLeft(on) ==
  IF on THEN onair \cup has ELSE onair \ {"gpio", "relay"}
Switched(on) == IF on THEN onair \cup has ELSE onair \ {"gpio", "fe", "relay"}

\* The transmitter is off, and the other threads' constructors follow.
Built ==
  /\ Constructor("control", "built")
  /\ onair' = Switched(FALSE)
  /\ tx_ant' = "TX"
  /\ used' = [used EXCEPT !.mode = "USB", !.filter = "BW_6000"]
  /\ UNCHANGED <<has, running, keyed, queues, gui, window, n_events>>

\* UI's own commands, before it looks at its socket.
UiBegins ==
  /\ stage = "built" /\ "ui" \notin running
  /\ running' = running \cup {"ui"}
  /\ ctrlq' = Append(ctrlq, Msg("TX_STATE", FALSE))
  /\ bbq' = Append(bbq, Msg("filter", "BW_500"))
  /\ UNCHANGED <<radio, stage, tx_ant, keyed, reports, gui, window, n_events>>

\* USRPCtrl's, before it looks at its queue; params has no antenna names.
CtrlBegins ==
  /\ stage = "built" /\ "ctrl" \notin running
  /\ running' = running \cup {"ctrl"}
  /\ \E c \in ClockArgs :
       ctrlq' = ctrlq \o <<Msg("rx_ant", ""), Msg("tx_ant", ""), Msg("clock", c),
                           Msg("TX_STATE", FALSE)>>
  /\ UNCHANGED <<radio, stage, tx_ant, keyed, bbq, reports, gui, window, n_events>>

Event == n_events < MaxEvents /\ n_events' = n_events + 1

\* The server is killed, and the GUI, which connects once, is closed.
Kill ==
  /\ Event /\ stage # "down"
  /\ stage' = "down" /\ running' = {} /\ keyed' = "unknown"
  /\ ctrlq' = <<>> /\ bbq' = <<>> /\ reports' = <<>>
  /\ gui' = "off" /\ window' = EmptyWindow(<<>>)
  /\ UNCHANGED <<radio, tx_ant>>

Boot == \/ MakeUsrp \/ InitControlGPIO \/ MakeTRControl \/ Built
        \/ UiBegins \/ CtrlBegins

-----------------------------------------------------------------------------
(* The server at work.                                                     *)

\* UI forwards what the GUI sends; each thread heeds its own.
Forward ==
  /\ "ui" \in running /\ window.sock # <<>>
  /\ window' = [window EXCEPT !.sock = Tail(@)]
  /\ LET m == Head(window.sock)
     IN  IF m.t \in {"mode", "filter"}
           THEN bbq' = Append(bbq, m) /\ UNCHANGED ctrlq
           ELSE ctrlq' = Append(ctrlq, m) /\ UNCHANGED bbq
  /\ UNCHANGED <<radio, server, reports, gui, n_events>>

\* BaseBandRX: RX_MODE and RX_AF_FILTER.
BasebandObeys ==
  /\ "ui" \in running /\ bbq # <<>>
  /\ bbq' = Tail(bbq)
  /\ used' = [used EXCEPT ![Head(bbq).t] = Head(bbq).v]
  /\ UNCHANGED <<has, onair, server, ctrlq, reports, gui, window, n_events>>

CtrlTakes(t) ==
  "ctrl" \in running /\ ctrlq # <<>> /\ Head(ctrlq).t = t /\ ctrlq' = Tail(ctrlq)

\* setAntenna: a name the radio does not have is its first antenna.
Antenna(s, name) == IF Contains(Offers[s], name) THEN name ELSE Offers[s][1]

SetRXAnt ==
  /\ CtrlTakes("rx_ant")
  /\ used' = [used EXCEPT !.rx_ant = Antenna("rx_ant", Head(ctrlq).v)]
  /\ UNCHANGED <<has, onair, server, bbq, reports, gui, window, n_events>>

\* Slip: the antenna is not remembered for the next over.
SetTXAntOnce ==
  /\ CtrlTakes("tx_ant")
  /\ used' = [used EXCEPT !.tx_ant = Antenna("tx_ant", Head(ctrlq).v)]
  /\ UNCHANGED <<has, onair, server, bbq, reports, gui, window, n_events>>

SetTXAnt ==
  /\ CtrlTakes("tx_ant")
  /\ tx_ant' = Head(ctrlq).v
  /\ used' = [used EXCEPT !.tx_ant = Antenna("tx_ant", tx_ant')]
  /\ UNCHANGED <<has, onair, stage, running, keyed, bbq, reports, gui, window, n_events>>

SetClockSource ==
  /\ CtrlTakes("clock")
  /\ used' = [used EXCEPT !.clock = Head(ctrlq).v]
  /\ UNCHANGED <<has, onair, server, bbq, reports, gui, window, n_events>>

\* TX_STATE: the gain, setTXEna, and in it the antenna of the over.
KeyDown ==
  /\ CtrlTakes("TX_STATE") /\ Head(ctrlq).v
  /\ onair' = Switched(TRUE) \cup {"gain"} /\ keyed' = "yes"
  /\ used' = [used EXCEPT !.tx_ant = Antenna("tx_ant", tx_ant)]
  /\ UNCHANGED <<has, stage, running, tx_ant, bbq, reports, gui, window, n_events>>

KeyUp ==
  /\ CtrlTakes("TX_STATE") /\ ~Head(ctrlq).v
  /\ onair' = Switched(FALSE) \ {"gain"} /\ keyed' = "no"
  /\ UNCHANGED <<has, used, stage, running, tx_ant, bbq, reports, gui, window, n_events>>

\* GET HWMB_REP: all that there is to choose from, and INIT_SETUP_COMPLETE.
Entries(s) == [i \in DOMAIN Offers[s] |-> Msg(s, Offers[s][i])]

ReportChoices ==
  /\ CtrlTakes("HWMB_REP")
  /\ reports' = reports \o Entries("rx_ant") \o Entries("tx_ant")
                        \o Entries("mode") \o Entries("filter") \o <<Msg("complete", "")>>
  /\ UNCHANGED <<radio, server, bbq, gui, window, n_events>>

Serve == \/ Forward \/ BasebandObeys
         \/ SetRXAnt \/ SetTXAnt \/ SetClockSource
         \/ KeyDown \/ KeyUp \/ ReportChoices

-----------------------------------------------------------------------------
(* The GUI's widgets.                                                      *)

Text(w, s) == IF w.shown[s] = 0 THEN "" ELSE w.items[s][w.shown[s]]

\* setCurrentIndex: an entry that is not there leaves the selector blank.
Show(w, s, i) ==
  LET j == IF i \in DOMAIN w.items[s] THEN i ELSE 0
      shows == [w EXCEPT !.shown[s] = j]
  IN  IF j = w.shown[s] THEN w
      ELSE [shows EXCEPT !.sock = Append(@, Msg(s, Text(shows, s)))]

\* setCurrentText and IntValComboBox::setValue.
ShowText(w, s, text) ==
  IF Contains(w.items[s], text)
    THEN Show(w, s, SelectInSeq(w.items[s], LAMBDA e : e = text)) ELSE w

\* The first entry is shown.
AddItem(w, s, text) ==
  LET more == [w EXCEPT !.items[s] = Append(@, text)]
  IN  IF w.items[s] = <<>> THEN Show(more, s, 1) ELSE more

\* IntValComboBox::addValue: always the first entry.
AddValue(w, s, text) == Show(AddItem(w, s, text), s, 1)

Tick(w, on) ==
  IF w.box = on THEN w
  ELSE [w EXCEPT !.box = on,
                 !.sock = Append(@, Msg("clock", IF on THEN "external" ELSE "internal"))]

\* Another band in bandSel_cb, and from changeBand its antennas.
SelectBand(w, b) ==
  LET shows == [w EXCEPT !.band = b]
  IN  IF b = w.band \/ b \notin DOMAIN BandAnts THEN shows
      ELSE ShowText(ShowText(shows, "rx_ant", BandAnts[b].rx_ant),
                    "tx_ant", BandAnts[b].tx_ant)

\* restoreSettings: the bands are filled in, then the widgets in their order.
Restored(w, file) ==
  LET filled == SelectBand([w EXCEPT !.band = 0], IF BandAnts = <<>> THEN 0 ELSE 1)
      top == ShowText(ShowText(Tick(filled, file.clock), "mode", file.mode),
                      "filter", file.filter)
  IN  Show(Show(SelectBand(top, file.band), "rx_ant", file.rx_ant),
           "tx_ant", file.tx_ant)

-----------------------------------------------------------------------------
(* The GUI.                                                                *)

\* It connects and asks; what an earlier one had sent may still be read.
GuiStart ==
  /\ gui = "off" /\ stage = "built"
  /\ gui' = "filling"
  /\ window' = EmptyWindow(Append(window.sock, Msg("HWMB_REP", "")))
  /\ UNCHANGED <<radio, server, queues, n_events>>

GuiVanish ==
  /\ Event /\ gui # "off"
  /\ gui' = "off"
  /\ \E n \in 0 .. Len(window.sock) : window' = EmptyWindow(SubSeq(window.sock, 1, n))
  /\ UNCHANGED <<radio, server, queues>>

\* Without a GUI UI's reports go nowhere.
DropReport ==
  /\ gui = "off" /\ reports # <<>>
  /\ reports' = Tail(reports)
  /\ UNCHANGED <<radio, server, ctrlq, bbq, gui, window, n_events>>

HearReport ==
  /\ gui # "off" /\ reports # <<>>
  /\ reports' = Tail(reports)
  /\ LET m == Head(reports)
     IN  \/ /\ m.t \in {"rx_ant", "tx_ant"}
            /\ window' = AddItem(window, m.t, m.v) /\ UNCHANGED gui
         \/ /\ m.t \in {"mode", "filter"}
            /\ window' = AddValue(window, m.t, m.v) /\ UNCHANGED gui
         \/ /\ m.t = "complete"
            /\ \E file \in Settings : window' = Restored(window, file)
            /\ gui' = "restored"
  /\ UNCHANGED <<radio, server, ctrlq, bbq, n_events>>

\* The operator's choices.
Click ==
  /\ Event /\ gui # "off"
  /\ \/ \E s \in DOMAIN Offers : \E i \in DOMAIN window.items[s] :
          window' = Show(window, s, i)
     \/ \E on \in BOOLEAN : window' = Tick(window, on)
     \/ gui = "restored" /\ \E b \in DOMAIN BandAnts : window' = SelectBand(window, b)
  /\ UNCHANGED <<radio, server, queues, gui>>

Ptt(on) ==
  /\ Event /\ gui # "off"
  /\ window' = [window EXCEPT !.sock = Append(@, Msg("TX_STATE", on))]
  /\ UNCHANGED <<radio, server, queues, gui>>

-----------------------------------------------------------------------------
\* Nothing runs; an earlier server was killed in an over.
RsInit ==
  /\ has \in Radios /\ onair = has \cup {"gain"}
  /\ used = [k \in DOMAIN Offers \cup {"clock"} |->
               IF k = "clock" THEN "internal" ELSE Offers[k][1]]
  /\ stage = "down" /\ running = {} /\ tx_ant = "TX" /\ keyed = "unknown"
  /\ ctrlq = <<>> /\ bbq = <<>> /\ reports = <<>>
  /\ gui = "off" /\ window = EmptyWindow(<<>>)
  /\ n_events = 0

RsNext == \/ Boot \/ Kill \/ Serve
          \/ GuiStart \/ GuiVanish \/ DropReport \/ HearReport \/ Click
          \/ \E on \in BOOLEAN : Ptt(on)

RsSpec == RsInit /\ [][RsNext]_rsVars

-----------------------------------------------------------------------------
AtRest == /\ running = {"ui", "ctrl"} /\ gui = "restored"
          /\ window.sock = <<>> /\ ctrlq = <<>> /\ bbq = <<>> /\ reports = <<>>

\* At rest every selector that shows something shows what the radio uses: first
\* entries and restored settings that are sent of themselves, the commands that
\* UI and USRPCtrl give at first, overs, bands that bring their antennas, and a
\* GUI that comes back to a running server with another's answers on the way.
ShownIsUsed ==
  AtRest => \A s \in DOMAIN Offers :
              window.shown[s] # 0 => used[s] = Text(window, s)

\* No over outlives the server that was killed in it.  When the next server's
\* threads begin, relays and front end are back in receive, whatever the radio
\* kept, and from the first TX_STATE on the gain is back at zero, until a
\* key-down is obeyed.
OverEndsWithServer ==
  /\ stage = "built" /\ keyed = "unknown" => onair \subseteq {"gain"}
  /\ stage = "built" /\ keyed = "no" => onair = {}

\* "Use external 10MHz reference for USRP master clock." (mainwindow.ui): at rest
\* the radio does so if, and only if, the box is ticked.
ClockAsShown == AtRest => (used.clock = "external" <=> window.box)
=============================================================================
