----------------------------- MODULE FrontPanel -----------------------------
(***************************************************************************)
(* The main window: frequency labels, TX/RX lock, band selector and band   *)
(* map, the settings file, and the hamlib handler, through which other     *)
(* programs tune the radio.                                                *)
(*                                                                         *)
(* All slots of the window run one after the other in the GUI thread; each *)
(* is an operator from panel to panel, and so composes the way slots call  *)
(* each other and signals call slots.  A hamlib client has a thread of its *)
(* own: its requests write the handler's copy of the state, emit, and are  *)
(* carried out by the GUI thread later, from its event queue.              *)
(*                                                                         *)
(* Frequencies are in one unit.  Antennas, the spectrum's centre, PTT and  *)
(* the parameters of transverters go along and are left out.               *)
(***************************************************************************)
EXTENDS Integers, Sequences, FiniteSets, SequencesExt

CONSTANTS
  Order,          \* band names in the order of the QMap, "to be created" ones too
  FileBands,      \* the band map of the settings file the radio starts with
  NewLimits,      \* what the band setup box may write: name -> <<lo, hi>>
  Freqs,          \* where the operator tunes to
  HlFreqs,        \* what hamlib clients ask for
  Clients,        \* the hamlib clients
  Modes,
  Garbage,        \* values a tx_rx_offset that nobody has set may have
  StartFreq,      \* what the labels show at first
  MaxEvents       \* bound: what operator and clients do

ASSUME PanelAssumption ==
  /\ Order \in Seq(STRING)
  /\ DOMAIN FileBands \cup DOMAIN NewLimits \subseteq Range(Order)
  /\ DOMAIN FileBands # {}
  /\ \A b \in DOMAIN FileBands :
       LET B == FileBands[b]
       IN  /\ B \in [lo : Int, hi : Int, rx : Int, tx : Int, mode : Modes,
                     off : Int, ena : BOOLEAN]
           /\ {B.rx, B.tx} \subseteq B.lo .. B.hi
  /\ \A b \in DOMAIN NewLimits :
       NewLimits[b] \in Int \X Int /\ NewLimits[b][1] <= NewLimits[b][2]

VARIABLES
  panel,       \* the window, and what radio and hamlib handler were told last
  settings,    \* the settings file
  restored,    \* initSetupComplete has arrived
  split,       \* the handler's split_enabled and current_VFO
  emitting,    \* client -> the signal its thread is about to emit, if any
  events,      \* slots queued for the GUI thread
  asked,       \* the frequency last asked for by name, {} if none
  closed,      \* the window as it was when the program was left, {} later on
  count        \* bound

vars == <<panel, settings, restored, split, emitting, events, asked, closed, count>>

None == ""        \* the empty band name
NotTold == -1     \* the handler's 1.0e9, the radio's own default

FreshPanel(offset) ==
  [band_map |-> <<>>, items |-> <<>>, bandSel |-> None, current |-> None,
   auto |-> None, lock |-> FALSE, rx |-> StartFreq, tx |-> StartFreq,
   offset |-> offset, mode |-> CHOOSE m \in Modes : TRUE,
   radio |-> [rx |-> NotTold, tx |-> NotTold],
   told |-> [rx |-> NotTold, tx |-> NotTold]]

-----------------------------------------------------------------------------
(* Bands.                                                                  *)

InBand(b, f) == f \in b.lo .. b.hi

\* The way of an iterator over the map: some of its names, in the order of the keys.
Listed(names) ==
  LET upTo[i \in 0 .. Len(Order)] ==
        IF i = 0 THEN <<>>
        ELSE IF Order[i] \in names THEN Append(upTo[i - 1], Order[i]) ELSE upTo[i - 1]
  IN  upTo[Len(Order)]

\* The first band of the map that has f.
FindBand(map, f) ==
  LET in == Listed({n \in DOMAIN map : InBand(map[n], f)})
  IN  IF in = <<>> THEN None ELSE in[1]

\* Slip: out of range or not.
SaveCurrentFreqsAlways(p) ==
  IF p.current \notin DOMAIN p.band_map THEN p
  ELSE [p EXCEPT !.band_map[p.current].rx = p.rx, !.band_map[p.current].tx = p.tx]

\* The current band remembers the labels, each if it is in its range.
SaveCurrentFreqs(p) ==
  IF p.current \notin DOMAIN p.band_map THEN p
  ELSE LET b == p.band_map[p.current]
       IN  [p EXCEPT !.band_map[p.current] =
              [b EXCEPT !.rx = IF InBand(b, p.rx) THEN p.rx ELSE @,
                        !.tx = IF InBand(b, p.tx) THEN p.tx ELSE @]]

-----------------------------------------------------------------------------
(* The slots.                                                              *)

SetRXFreq_nocross(p, f) ==
  [p EXCEPT !.radio.rx = f, !.told.rx = f, !.rx = f]

SetTXFreq_nocross(p, f) == [p EXCEPT !.radio.tx = f, !.tx = f]

SetRXFreq(p, f) ==
  LET q == SetRXFreq_nocross(p, f)
  IN  IF p.lock THEN SetTXFreq_nocross(q, f + p.offset) ELSE q

SetTXFreq(p, f) ==
  LET q == SetTXFreq_nocross(p, f)
  IN  IF p.lock THEN SetRXFreq_nocross(q, f - p.offset) ELSE q

\* newFreq of a label: the window first, then the hamlib handler.
NewRXFreq(p, f) == [SetRXFreq([p EXCEPT !.rx = f], f) EXCEPT !.told.rx = f]
NewTXFreq(p, f) == [SetTXFreq([p EXCEPT !.tx = f], f) EXCEPT !.told.tx = f]

\* The band selector shows another band: changeBand.
ChangeBand(p, band) ==
  LET q == IF band # p.current THEN SaveCurrentFreqs(p) ELSE p
      b == q.band_map[band]
      byUser ==
        LET r == SetRXFreq([q EXCEPT !.offset = IF b.ena THEN b.off ELSE 0,
                                     !.mode = IF p.auto # None THEN b.mode ELSE @],
                           b.rx)
        IN  SetTXFreq_nocross(r, IF p.lock THEN b.rx + b.off ELSE b.tx)
      automatic == [q EXCEPT !.auto = None]
  IN  IF band \notin DOMAIN q.band_map THEN q
      ELSE [(IF band # p.auto THEN byUser ELSE automatic) EXCEPT !.current = band]

\* setCurrentIndex, clear, addItem: changeBand runs if the text changes.
Show(p, band) ==
  IF p.bandSel = band THEN p ELSE ChangeBand([p EXCEPT !.bandSel = band], band)

\* Slip: the band is not marked as changed automatically.
UpdateBandDisplayUnmarked(p, f) ==
  LET band == FindBand(p.band_map, f)
  IN  IF band = None THEN p ELSE [Show(p, band) EXCEPT !.mode = p.mode]

UpdateBandDisplay(p, f) ==
  LET band == FindBand(p.band_map, f)
  IN  IF band = None THEN p
      ELSE [Show([p EXCEPT !.auto = band], band) EXCEPT !.mode = p.mode]

\* OK in the band setup box: the entry is written anew, its memory in the middle.
WriteBandMapEntry(p, name) ==
  LET lo == NewLimits[name][1]
      hi == NewLimits[name][2]
      b  == [lo |-> lo, hi |-> hi, rx |-> (lo + hi) \div 2, tx |-> (lo + hi) \div 2,
             mode |-> p.mode, off |-> 0, ena |-> FALSE]
      q  == [p EXCEPT !.band_map = [n \in DOMAIN @ \cup {name} |->
                                      IF n = name THEN b ELSE @[n]]]
  IN  IF name \in Range(p.items) THEN q
      ELSE LET r == [q EXCEPT !.items = Append(@, name)]
           IN  IF p.items = <<>> THEN Show(r, name) ELSE r

-----------------------------------------------------------------------------
(* The settings file.                                                      *)

\* Slip: what the current band remembers is not brought up to date.
SavedStale(p) ==
  [band_map |-> p.band_map, mode |-> p.mode, rx |-> p.rx, tx |-> p.tx, lock |-> p.lock,
   index |-> IF p.bandSel \in Range(p.items)
               THEN CHOOSE i \in DOMAIN p.items : p.items[i] = p.bandSel ELSE 0]

\* saveConfig: the band map, then the widgets; a combo box by its index.
Saved(p) ==
  LET q == SaveCurrentFreqs(p)
  IN  [band_map |-> q.band_map, mode |-> p.mode, rx |-> p.rx, tx |-> p.tx,
       lock |-> p.lock,
       index |-> IF p.bandSel \in Range(p.items)
                   THEN CHOOSE i \in DOMAIN p.items : p.items[i] = p.bandSel
                   ELSE 0]

\* bandMapSaveRestore: the file's bands over those that are there, and both
\* band selectors filled again, in the order of the map; the first band shows.
BandMapRestore(p, file) ==
  LET map == [n \in DOMAIN p.band_map \cup DOMAIN file.band_map |->
                IF n \in DOMAIN file.band_map THEN file.band_map[n]
                ELSE p.band_map[n]]
      names == Listed(DOMAIN map)
      cleared == Show([p EXCEPT !.band_map = map], None)
  IN  IF names = <<>> THEN cleared
      ELSE Show([cleared EXCEPT !.items = names], names[1])

\* widgetSaveRestore, in the order of the form: mode, labels, lock, band.
WidgetRestore(p, file) ==
  LET mode == [p EXCEPT !.mode = file.mode]
      freqs == NewTXFreq(NewRXFreq(mode, file.rx), file.tx)
      lock == [freqs EXCEPT !.lock = file.lock]
  IN  IF file.index = 0 THEN Show(lock, None) ELSE Show(lock, p.items[file.index])

RestoreSettings(p, file) == WidgetRestore(BandMapRestore(p, file), file)

-----------------------------------------------------------------------------
Init ==
  /\ \E offset \in Garbage : panel = FreshPanel(offset)
  /\ settings = [Saved([FreshPanel(0) EXCEPT !.band_map = FileBands])
                   EXCEPT !.index = 1]
  /\ restored = FALSE
  /\ split = [split_enabled |-> TRUE, current_VFO |-> "VFOA"]
  /\ emitting = [c \in Clients |-> <<>>]
  /\ events = <<>>
  /\ asked = {} /\ closed = {} /\ count = 0

\* One thing the operator does: the window becomes p.
Operator(p, wish) ==
  /\ count < MaxEvents /\ count' = count + 1
  /\ panel' = p
  /\ asked' = wish
  /\ closed' = {}
  /\ UNCHANGED <<settings, restored, split, emitting, events>>

TuneRX(f) == Operator(NewRXFreq(panel, f), {f})
TuneTX(f) == Operator(NewTXFreq(panel, f), IF panel.lock THEN {} ELSE asked)
RXfreq2TXfreq == Operator(SetTXFreq(panel, panel.rx), {})
TXfreq2RXfreq == Operator(SetRXFreq(panel, panel.tx), {panel.tx})
LockClicked == Operator(SetRXFreq([panel EXCEPT !.lock = ~@], panel.rx), asked)
SelectMode(m) == Operator([panel EXCEPT !.mode = m], asked)
SelectBand(b) == /\ b \in Range(panel.items) /\ b # panel.bandSel
                 /\ Operator(Show(panel, b), {})
BandSetupOK(b) == Operator(WriteBandMapEntry(panel, b),
                           IF panel.items = <<>> THEN {} ELSE asked)
OpenConfig == Operator(RestoreSettings(panel, settings), {})

\* The save button.
SaveConfig ==
  /\ count < MaxEvents /\ count' = count + 1
  /\ settings' = Saved(panel)
  /\ panel' = SaveCurrentFreqs(panel)
  /\ closed' = IF restored THEN closed ELSE {}
  /\ UNCHANGED <<restored, split, emitting, events, asked>>

\* The server has reported all there is to choose from.
InitSetupComplete ==
  /\ ~restored /\ restored' = TRUE
  /\ panel' = RestoreSettings(panel, settings)
  /\ asked' = {}
  /\ UNCHANGED <<settings, split, emitting, events, closed, count>>

\* The program is left, which saves the configuration, and started again.
Restart ==
  /\ count < MaxEvents /\ count' = count + 1
  /\ settings' = Saved(panel)
  /\ closed' = {panel}
  /\ \E offset \in Garbage : panel' = FreshPanel(offset)
  /\ restored' = FALSE
  /\ split' = [split_enabled |-> TRUE, current_VFO |-> "VFOA"]
  /\ emitting' = [c \in Clients |-> <<>>]
  /\ events' = <<>> /\ asked' = {}

-----------------------------------------------------------------------------
(* Hamlib: processCommand, in the thread of client c.                      *)

\* cmdFreq and cmdSplitFreq first write the handler's copy ...
HlSet(c, which, f) ==
  /\ emitting[c] = <<>>
  /\ count < MaxEvents /\ count' = count + 1
  /\ panel' = [panel EXCEPT !.told[which] = f]
  /\ emitting' = [emitting EXCEPT ![c] = <<which, f>>]
  /\ closed' = {}
  /\ UNCHANGED <<settings, restored, split, events, asked>>

CmdFreq(c, f) ==
  HlSet(c, IF ~split.split_enabled \/ split.current_VFO = "VFOA" THEN "rx" ELSE "tx", f)

CmdSplitFreq(c, f) == HlSet(c, "tx", f)

Queued(slot, f) == [slot |-> slot, f |-> f]

\* ... and then emit: the slots are queued in the order of their connection.
Emit(c) ==
  /\ emitting[c] # <<>>
  /\ LET f == emitting[c][2]
     IN  events' = events \o
           IF emitting[c][1] = "rx"
             THEN <<Queued("setRXFreq", f), Queued("updateBandDisplay", f)>>
             ELSE <<Queued("setTXFreq", f), Queued("setTXFreq", f)>>
  /\ emitting' = [emitting EXCEPT ![c] = <<>>]
  /\ UNCHANGED <<panel, settings, restored, split, asked, closed, count>>

\* cmdVFO and cmdSplitVFO.
CmdSplit(c, s) ==
  /\ emitting[c] = <<>> /\ s # split
  /\ count < MaxEvents /\ count' = count + 1
  /\ split' = s
  /\ UNCHANGED <<panel, settings, restored, emitting, events, asked, closed>>

\* The GUI thread runs a queued slot.
GuiTakes ==
  /\ events # <<>>
  /\ events' = Tail(events)
  /\ LET f == Head(events).f
     IN  CASE Head(events).slot = "setRXFreq" ->
                panel' = SetRXFreq(panel, f) /\ asked' = {f}
           [] Head(events).slot = "setTXFreq" ->
                panel' = SetTXFreq(panel, f)
                /\ asked' = IF panel.lock THEN {} ELSE asked
           [] Head(events).slot = "updateBandDisplay" ->
                panel' = UpdateBandDisplay(panel, f) /\ UNCHANGED asked
  /\ closed' = {}
  /\ UNCHANGED <<settings, restored, split, emitting, count>>

Hamlib(c) == \/ \E f \in HlFreqs : CmdFreq(c, f) \/ CmdSplitFreq(c, f)
             \/ Emit(c)
             \/ \E s \in [split_enabled : BOOLEAN, current_VFO : {"VFOA", "VFOB"}] :
                  CmdSplit(c, s)

Next == \/ \E f \in Freqs : TuneRX(f) \/ TuneTX(f)
        \/ RXfreq2TXfreq \/ TXfreq2RXfreq \/ LockClicked
        \/ \E m \in Modes : SelectMode(m)
        \/ \E b \in Range(Order) : SelectBand(b)
        \/ \E b \in DOMAIN NewLimits : BandSetupOK(b)
        \/ OpenConfig \/ SaveConfig \/ InitSetupComplete \/ Restart
        \/ \E c \in Clients : Hamlib(c)
        \/ GuiTakes

Spec == Init /\ [][Next]_vars

-----------------------------------------------------------------------------
\* A band remembers frequencies of its own only, in the window and in the
\* file, whatever is tuned to before the band changes: coming back to a band
\* never puts the transmitter outside of it.
BandMemoryInRange ==
  \A map \in {panel.band_map, settings.band_map} : \A n \in DOMAIN map :
    InBand(map[n], map[n].rx) /\ InBand(map[n], map[n].tx)

\* The receiver stays on the frequency that was asked for last, on the panel or
\* through hamlib: the band display that follows it, the lock and what is
\* still queued for other clients may not bring an older frequency back.  And when
\* nothing is under way, a hamlib client that asks gets the frequency the label
\* shows, although two threads write the handler's copy.
FrequencyObeyed ==
  /\ \A f \in asked : panel.rx = f /\ panel.radio.rx = f
  /\ (restored /\ events = <<>> /\ \A c \in Clients : emitting[c] = <<>>)
       => panel.told.rx = panel.rx

\* A restart brings back band, mode and frequencies, if the frequencies are in
\* the band and the band selector is in order.  (A band created since is last
\* in the selector, but the file has its index.)
RestartKeeps ==
  \A old \in closed :
    LET b == old.band_map[old.bandSel]
    IN  /\ restored /\ old.bandSel # None
        /\ old.items = Listed(Range(old.items))
        /\ InBand(b, old.rx) /\ InBand(b, old.tx)
        => /\ panel.rx = old.rx /\ panel.radio.rx = old.rx
           /\ ~old.lock => panel.tx = old.tx
           /\ panel.bandSel = old.bandSel /\ panel.mode = old.mode

\* The two memories of the panel together: the bands' and the file's.
BandsKept == BandMemoryInRange /\ RestartKeeps
=============================================================================
